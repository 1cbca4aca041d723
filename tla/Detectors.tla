------------------------------ MODULE Detectors ------------------------------
(* How a covenant is recognized: fingerprints of compiled scripts with       *)
(* windows that vary per instance, the registry walk over an output, and the *)
(* derivation of an anchored fingerprint from several compiles of one        *)
(* pattern.  A script is a sequence of bytes; the 0-based offsets of the     *)
(* code are kept in the windows.                                             *)
EXTENDS Integers, SequencesExt, FiniteSets, Functions

Window(field, offset, len) == [field |-> field, offset |-> offset, len |-> len]

Covers(w) == (w.offset + 1)..(w.offset + w.len)

InMask(windows, i) == \E w \in Range(windows) : i \in Covers(w)

Exact(bytes, windows) == [exact |-> TRUE, bytes |-> bytes, windows |-> windows]

Anchored(head, windows, tail) ==
    [exact |-> FALSE, head |-> head, windows |-> windows, tail |-> tail]

ExactMatches(f, script) ==
    /\ Len(script) = Len(f.bytes)
    /\ \A i \in 1..Len(script) : InMask(f.windows, i) \/ script[i] = f.bytes[i]

TailMatches(f, script) ==
    \A j \in 1..Len(f.tail) : script[Len(script) - Len(f.tail) + j] = f.tail[j]

AnchoredMatches(f, script) ==
    /\ Len(script) >= Len(f.head) + Len(f.tail)
    /\ \A i \in 1..Len(f.head) : InMask(f.windows, i) \/ script[i] = f.head[i]
    /\ TailMatches(f, script)

Matches(f, script) ==
    IF f.exact THEN ExactMatches(f, script) ELSE AnchoredMatches(f, script)

Slice(script, w) == SubSeq(script, w.offset + 1, w.offset + w.len)

FieldNames(windows) == {w.field : w \in Range(windows)}

\* of two windows of one name the later one is inserted over the earlier
WindowOf(windows, field) ==
    windows[CHOOSE i \in DOMAIN windows :
                /\ windows[i].field = field
                /\ \A j \in DOMAIN windows : windows[j].field = field => j <= i]

Extract(f, script) ==
    [field \in FieldNames(f.windows) |-> Slice(script, WindowOf(f.windows, field))]

Windows == Seq([field : STRING, offset : Nat, len : Nat])

\* Anchors over the bytes B.
IsFingerprint(f, B) ==
    /\ f.exact \in BOOLEAN
    /\ f.windows \in Windows
    /\ IF f.exact THEN f.bytes \in Seq(B) ELSE f.head \in Seq(B) /\ f.tail \in Seq(B)

-------------------------------------------------------------------------------
(* Validity: windows lie within the bytes they are relative to, and no two   *)
(* of them share a byte.                                                     *)

Overlap(a, b) == a.offset < b.offset + b.len /\ b.offset < a.offset + a.len

Disjoint(windows) ==
    \A i, j \in DOMAIN windows : i < j => ~Overlap(windows[i], windows[j])

InBounds(windows, length) ==
    \A i \in DOMAIN windows : windows[i].offset + windows[i].len <= length

AnchorOf(f) == IF f.exact THEN f.bytes ELSE f.head

Valid(f) == InBounds(f.windows, Len(AnchorOf(f))) /\ Disjoint(f.windows)

SampleScript(f) == IF f.exact THEN f.bytes ELSE f.head \o f.tail

-------------------------------------------------------------------------------
(* The registry walk: every entry that matches gives a hit, in registry      *)
(* order, and no hit carries a covenant id.                                  *)

Hit(kind, tx, index, payload) ==
    [kind |-> kind, tx |-> tx, index |-> index, payload |-> payload]

DetectInOutput(registry, script, tx, index) ==
    FlattenSeq([k \in DOMAIN registry |->
        IF Matches(registry[k].matcher, script)
        THEN <<Hit(registry[k].kind, tx, index, Extract(registry[k].matcher, script))>>
        ELSE <<>>])

\* What the payload codegen reads: the fields of every kind with their widths.
RegistrySchema(registry) ==
    [i \in DOMAIN registry |->
        [kind |-> registry[i].kind,
         fields |-> [j \in DOMAIN registry[i].matcher.windows |->
                        [name |-> registry[i].matcher.windows[j].field,
                         byte_len |-> registry[i].matcher.windows[j].len]]]]

-------------------------------------------------------------------------------
(* Derivation.                                                               *)

ShareHead(scripts, n) ==
    \A k \in DOMAIN scripts :
        n <= Len(scripts[k]) /\ \A i \in 1..n : scripts[k][i] = scripts[1][i]

ShareTail(scripts, n) ==
    \A k \in DOMAIN scripts :
        /\ n <= Len(scripts[k])
        /\ \A i \in 0..(n - 1) :
            scripts[k][Len(scripts[k]) - i] = scripts[1][Len(scripts[1]) - i]

CommonPrefixLen(scripts) ==
    CHOOSE n \in 0..Len(scripts[1]) : ShareHead(scripts, n) /\ ~ShareHead(scripts, n + 1)

CommonSuffixLen(scripts) ==
    CHOOSE n \in 0..Len(scripts[1]) : ShareTail(scripts, n) /\ ~ShareTail(scripts, n + 1)

Derived(scripts, windows) ==
    LET first == scripts[1]
        tail == CommonSuffixLen(scripts)
    IN  Anchored(SubSeq(first, 1, CommonPrefixLen(scripts)), windows,
                 SubSeq(first, Len(first) - tail + 1, Len(first)))

\* No error: two samples, anchors that fit side by side in each of them, and
\* windows that lie in the head and are disjoint.
Derivable(scripts, windows) ==
    /\ Len(scripts) >= 2
    /\ \A k \in DOMAIN scripts :
        CommonPrefixLen(scripts) + CommonSuffixLen(scripts) <= Len(scripts[k])
    /\ InBounds(windows, CommonPrefixLen(scripts))
    /\ Valid(Derived(scripts, windows))
===============================================================================
