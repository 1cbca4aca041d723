---------------------------- MODULE PipelineProofs ----------------------------
(***************************************************************************)
(* Theorems about Pipeline and the Detectors it extends.                   *)
(*                                                                         *)
(* The stream, for every mapping, registry and set of blocks, every list   *)
(* of filters and every capacity of the channel: the invariant counts what *)
(* a subscription has been through, positions, not events, since one event *)
(* may be published many times.                                            *)
(*                                                                         *)
(* Fingerprints, for scripts of every length over every alphabet and for   *)
(* every choice of windows.                                                *)
(*                                                                         *)
(* The tables, for any number of blocks and reorganizations and any        *)
(* mapping: types first (TypeInv); then the tracker and the spend rows, as *)
(* the loop fills them block by block (FollowInv); then the entities and   *)
(* the checkpoints, where the host is followed call by call and a prefix   *)
(* of the versions is compared with a run over the chain (EntitiesInv).    *)
(* Last the operations: sums over rows are sums over scripts.              *)
(***************************************************************************)
EXTENDS Pipeline, FiniteSetTheorems, FunctionTheorems, SequenceTheorems,
        WellFoundedInduction, TLAPS

Asks(filters, event) == \E f \in Range(filters) : f \in {"all", event.kind}

\* The positions from the first after `first` to `last` of events asked for.
AskedIn(filters, stream, first, last) ==
    {i \in (first + 1)..last : Asks(filters, stream[i])}

\* a subscription with some list of filters
Subscription(filters) ==
    [attached : {TRUE}, filters : {filters}, from : Nat, next : Nat, got : Nat,
     lagged : Nat, closed : BOOLEAN]

\* Of what was asked for, what was not got was reported as lag.
Accounted ==
    LET asked == Cardinality(AskedIn(sub.filters, events, sub.from, sub.next))
    IN  sub.got <= asked /\ asked - sub.got <= sub.lagged

Subscribed ==
    /\ sub \in Subscription(sub.filters)
    /\ sub.from <= sub.next /\ sub.next <= Len(events)
    /\ Accounted
    /\ sub.closed => phase = "stopped" /\ sub.next = Len(events)

StreamInv ==
    /\ \E S : events \in Seq(S)
    /\ sub = NoSub \/ Subscribed

-------------------------------------------------------------------------------
(* Counting.                                                                 *)

LEMMA AskedCounts ==
    ASSUME NEW filters, NEW stream, NEW a \in Nat, NEW b \in Nat
    PROVE  /\ IsFiniteSet(AskedIn(filters, stream, a, b))
           /\ Cardinality(AskedIn(filters, stream, a, b)) \in Nat
  <1>1. IsFiniteSet((a + 1)..b)
    BY FS_Interval
  <1>2. IsFiniteSet(AskedIn(filters, stream, a, b))
    BY <1>1, FS_Subset DEF AskedIn
  <1> QED BY <1>2, FS_CardinalityType

LEMMA NothingAskedYet ==
    ASSUME NEW filters, NEW stream, NEW a \in Nat
    PROVE  Cardinality(AskedIn(filters, stream, a, a)) = 0
  <1>1. AskedIn(filters, stream, a, a) = {}
    BY DEF AskedIn
  <1> QED BY <1>1, FS_EmptySet

\* Going on by n positions passes at most n events that were asked for.
LEMMA AskedGrows ==
    ASSUME NEW filters, NEW stream, NEW a \in Nat, NEW b \in Nat, NEW n \in Nat, a <= b
    PROVE  /\ Cardinality(AskedIn(filters, stream, a, b))
                <= Cardinality(AskedIn(filters, stream, a, b + n))
           /\ Cardinality(AskedIn(filters, stream, a, b + n))
                <= Cardinality(AskedIn(filters, stream, a, b)) + n
  <1> DEFINE old == AskedIn(filters, stream, a, b)
             new == AskedIn(filters, stream, b, b + n)
             all == AskedIn(filters, stream, a, b + n)
  <1>1. IsFiniteSet((b + 1)..(b + n)) /\ Cardinality((b + 1)..(b + n)) = n
    <2>1. b + 1 \in Int /\ b + n \in Int
      OBVIOUS
    <2> QED BY <2>1, FS_Interval
  <1>2. new \subseteq (b + 1)..(b + n)
    BY DEF AskedIn
  <1>3. IsFiniteSet(new) /\ Cardinality(new) <= n /\ Cardinality(new) \in Nat
    BY <1>1, <1>2, FS_Subset, FS_CardinalityType
  <1>4. all = old \cup new /\ old \cap new = {}
    BY DEF AskedIn
  <1>5. IsFiniteSet(old) /\ Cardinality(old) \in Nat
    BY AskedCounts
  <1> HIDE DEF old, new, all
  <1>6. Cardinality(all) = Cardinality(old) + Cardinality(new) - Cardinality({})
    BY <1>3, <1>4, <1>5, FS_Union
  <1>7. Cardinality({}) = 0
    BY FS_EmptySet
  <1>8. Cardinality(old) <= Cardinality(all) /\ Cardinality(all) <= Cardinality(old) + n
    BY <1>3, <1>5, <1>6, <1>7
  <1> QED BY <1>8 DEF old, all

LEMMA NextAsked ==
    ASSUME NEW filters, NEW stream, NEW a \in Nat, NEW b \in Nat, a <= b
    PROVE  Cardinality(AskedIn(filters, stream, a, b + 1)) =
                IF Asks(filters, stream[b + 1])
                THEN Cardinality(AskedIn(filters, stream, a, b)) + 1
                ELSE Cardinality(AskedIn(filters, stream, a, b))
  <1>1. CASE Asks(filters, stream[b + 1])
    <2>1. /\ AskedIn(filters, stream, a, b + 1) = AskedIn(filters, stream, a, b) \cup {b + 1}
          /\ b + 1 \notin AskedIn(filters, stream, a, b)
      BY <1>1 DEF AskedIn
    <2> QED BY <1>1, <2>1, AskedCounts, FS_AddElement
  <1>2. CASE ~Asks(filters, stream[b + 1])
    <2>1. AskedIn(filters, stream, a, b + 1) = AskedIn(filters, stream, a, b)
      BY <1>2 DEF AskedIn
    <2> QED BY <1>2, <2>1
  <1> QED BY <1>1, <1>2

-------------------------------------------------------------------------------
(* The steps that reach the stream.                                          *)

\* A hit is published behind everything published before.
LEMMA PublishStep ==
    ASSUME StreamInv, HandleHit
    PROVE  StreamInv'
  <1>1. PICK e : events' = Append(events, e)
    BY DEF HandleHit
  <1>2. PICK S : events \in Seq(S)
    BY DEF StreamInv
  <1>3. events \in Seq(S \cup {e}) /\ e \in S \cup {e}
    BY <1>2
  <1>4. /\ events' \in Seq(S \cup {e})
        /\ Len(events') = Len(events) + 1
        /\ \A i \in 1..Len(events) : events'[i] = events[i]
    BY <1>1, <1>3
  <1>5. UNCHANGED sub /\ phase = "hits"
    BY DEF HandleHit
  <1>6. ASSUME Subscribed PROVE Subscribed'
    <2>1. sub.from \in Nat /\ sub.next \in Nat /\ sub.next <= Len(events) /\ ~sub.closed
      BY <1>5, <1>6 DEF Subscribed, Subscription
    <2>2. AskedIn(sub.filters, events', sub.from, sub.next) =
              AskedIn(sub.filters, events, sub.from, sub.next)
      BY <1>2, <1>4, <2>1 DEF AskedIn
    <2>3. Len(events) \in Nat
      BY <1>2
    <2>4. Accounted'
      BY <1>5, <1>6, <2>2 DEF Subscribed, Accounted
    <2>5. sub.next <= Len(events')
      BY <1>4, <2>1, <2>3
    <2> QED BY <1>5, <1>6, <2>1, <2>4, <2>5 DEF Subscribed
  <1> QED BY <1>4, <1>5, <1>6 DEF StreamInv

LEMMA SubscribeStep ==
    ASSUME StreamInv, NEW filters \in Filters, Subscribe(filters)
    PROVE  StreamInv'
  <1>1. PICK S : events \in Seq(S)
    BY DEF StreamInv
  <1>2. Len(events) \in Nat /\ UNCHANGED events
    BY <1>1 DEF Subscribe
  <1>3. sub' = [attached |-> TRUE, filters |-> filters, from |-> Len(events),
                next |-> Len(events), got |-> 0, lagged |-> 0, closed |-> FALSE]
    BY DEF Subscribe
  <1>4. Accounted'
    BY <1>2, <1>3, NothingAskedYet DEF Accounted
  <1> QED BY <1>1, <1>2, <1>3, <1>4 DEF StreamInv, Subscribed, Subscription

\* Overwritten positions are reported, a position that was read counts if it
\* was asked for.
LEMMA ReceiveStep ==
    ASSUME StreamInv, Receive
    PROVE  StreamInv'
  <1>1. PICK S : events \in Seq(S)
    BY DEF StreamInv
  <1>2. Subscribed /\ sub.next < Len(events) /\ UNCHANGED <<events, phase>>
    BY DEF Receive, StreamInv, NoSub
  <1> DEFINE asked == Cardinality(AskedIn(sub.filters, events, sub.from, sub.next))
  <1>3. /\ sub \in Subscription(sub.filters) /\ sub.from <= sub.next
        /\ sub.got <= asked /\ asked - sub.got <= sub.lagged
        /\ Len(events) \in Nat /\ ~sub.closed
    BY <1>1, <1>2 DEF Subscribed, Accounted
  <1>4. /\ sub.from \in Nat /\ sub.next \in Nat /\ sub.got \in Nat /\ sub.lagged \in Nat
        /\ Capacity \in Nat
    BY <1>3, PipelineAssumption DEF Subscription
  <1>5. asked \in Nat
    BY <1>4, AskedCounts
  <1> HIDE DEF asked
  <1>6. CASE Lag > 0
    <2>1. Lag \in Nat /\ sub.next + Lag \in Nat /\ sub.next + Lag <= Len(events)
      BY <1>3, <1>4, <1>6 DEF Lag
    <2>2. sub' = [sub EXCEPT !.lagged = sub.lagged + Lag, !.next = sub.next + Lag]
      BY <1>6 DEF Receive
    <2> DEFINE n == Lag
               after == Cardinality(AskedIn(sub.filters, events, sub.from, sub.next + n))
    <2>3. asked <= after /\ after <= asked + n /\ after \in Nat
      BY <1>3, <1>4, <2>1, AskedGrows, AskedCounts DEF asked
    <2>4. n \in Nat /\ sub.lagged + n \in Nat /\ sub.next + n \in Nat
      BY <1>4, <2>1
    <2>5. sub' = [sub EXCEPT !.lagged = sub.lagged + n, !.next = sub.next + n]
      BY <2>2
    <2> HIDE DEF n
    <2>6. /\ sub' \in Subscription(sub.filters) /\ sub'.from = sub.from /\ sub'.next = sub.next + n
          /\ sub'.got = sub.got /\ sub'.lagged = sub.lagged + n /\ sub'.closed = sub.closed
          /\ sub'.filters = sub.filters
      BY <1>3, <1>4, <2>4, <2>5 DEF Subscription
    <2>7. Accounted'
      BY <1>2, <1>3, <1>4, <1>5, <2>1, <2>3, <2>6, SMTT(30) DEF Accounted, n
    <2>8. sub'.from <= sub'.next /\ sub'.next <= Len(events)
      BY <1>3, <1>4, <2>1, <2>6 DEF n
    <2>9. Subscribed'
      BY <1>2, <1>3, <2>6, <2>7, <2>8 DEF Subscribed
    <2> QED BY <1>1, <1>2, <2>9 DEF StreamInv
  <1>7. CASE ~(Lag > 0)
    <2> DEFINE wanted == Wanted(events[sub.next + 1])
               got == IF wanted THEN sub.got + 1 ELSE sub.got
               after == Cardinality(AskedIn(sub.filters, events, sub.from, sub.next + 1))
    <2>1. wanted <=> Asks(sub.filters, events[sub.next + 1])
      BY DEF Wanted, Asks
    <2>2. after = IF wanted THEN asked + 1 ELSE asked
      BY <1>3, <1>4, <2>1, NextAsked DEF asked
    <2>3. sub' = [sub EXCEPT !.next = sub.next + 1, !.got = got]
      BY <1>7 DEF Receive
    <2>4. got \in Nat /\ sub.next + 1 \in Nat
      BY <1>4
    <2> HIDE DEF wanted, after, got
    <2>5. /\ sub' \in Subscription(sub.filters) /\ sub'.from = sub.from /\ sub'.next = sub.next + 1
          /\ sub'.got = got /\ sub'.lagged = sub.lagged /\ sub'.closed = sub.closed
          /\ sub'.filters = sub.filters
      BY <1>3, <1>4, <2>3, <2>4 DEF Subscription
    <2>6. got <= after /\ after - got <= sub.lagged
      BY <1>3, <1>4, <1>5, <2>2 DEF got
    <2>7. Accounted'
      BY <1>2, <2>5, <2>6 DEF Accounted, after
    <2>8. sub'.from <= sub'.next /\ sub'.next <= Len(events)
      BY <1>2, <1>3, <1>4, <2>5
    <2>9. Subscribed'
      BY <1>2, <1>3, <2>5, <2>7, <2>8 DEF Subscribed
    <2> QED BY <1>1, <1>2, <2>9 DEF StreamInv
  <1> QED BY <1>6, <1>7

LEMMA CloseStep ==
    ASSUME StreamInv, ReceiveClosed
    PROVE  StreamInv'
  <1>1. Subscribed /\ sub' = [sub EXCEPT !.closed = TRUE] /\ UNCHANGED <<events, phase>>
    BY DEF ReceiveClosed, StreamInv, NoSub
  <1>2. /\ sub' \in Subscription(sub.filters) /\ sub'.from = sub.from /\ sub'.next = sub.next
        /\ sub'.got = sub.got /\ sub'.lagged = sub.lagged /\ sub'.filters = sub.filters
    BY <1>1 DEF Subscribed, Subscription
  <1>3. Accounted'
    BY <1>1, <1>2 DEF Subscribed, Accounted
  <1> QED BY <1>1, <1>2, <1>3 DEF StreamInv, Subscribed, Subscription, ReceiveClosed

LEMMA StreamInit == Init => StreamInv
  <1> SUFFICES ASSUME Init PROVE StreamInv
    OBVIOUS
  <1>1. events \in Seq({})
    BY DEF Init
  <1> QED BY <1>1 DEF Init, StreamInv

LEMMA StreamStep ==
    ASSUME StreamInv, [Next]_vars
    PROVE  StreamInv'
  <1>1. ASSUME UNCHANGED <<events, sub>>, phase = "stopped" => phase' = "stopped"
        PROVE  StreamInv'
    BY <1>1 DEF StreamInv, Subscribed, Accounted, Subscription
  <1>2. CASE \E block \in Blocks : Commit(block)
    BY <1>1, <1>2 DEF Commit
  <1>3. CASE HitsHandled \/ DispatchLocked \/ (\E call \in Calls : HostCall(call)) \/ Return
    BY <1>1, <1>3 DEF HitsHandled, DispatchLocked, HostCall, Return
  <1>4. CASE LockedDispatched \/ StoreDispatched \/ DispatchSpend \/ SpendDispatched
    BY <1>1, <1>4 DEF LockedDispatched, StoreDispatched, DispatchSpend, SpendDispatched
  <1>5. CASE SpendsHandled \/ Checkpoint \/ Stop \/ \E from \in DOMAIN chain : Unwind(from)
    BY <1>1, <1>5 DEF SpendsHandled, Checkpoint, Stop, Unwind
  <1>6. CASE UNCHANGED vars
    BY <1>1, <1>6 DEF vars
  <1> QED BY <1>2, <1>3, <1>4, <1>5, <1>6, PublishStep, SubscribeStep, ReceiveStep, CloseStep
          DEF Next, Step

\* What a subscriber misses it is told of, for every capacity, every list of
\* filters and any number of events published between two reads
\* (kasgraph-stream lib.rs).
THEOREM LossIsAlwaysReported == Spec => []NoSilentLoss
  <1>1. ASSUME StreamInv PROVE NoSilentLoss
    <2> SUFFICES ASSUME sub.attached PROVE NoSilentLoss
      BY DEF NoSilentLoss
    <2>1. Subscribed
      BY <1>1 DEF StreamInv, NoSub
    <2>2. {i \in (sub.from + 1)..sub.next : Wanted(events[i])} =
              AskedIn(sub.filters, events, sub.from, sub.next)
      BY DEF AskedIn, Asks, Wanted
    <2> QED BY <2>1, <2>2 DEF NoSilentLoss, Subscribed, Accounted
  <1> QED BY <1>1, StreamInit, StreamStep, PTL DEF Spec

-------------------------------------------------------------------------------
(* Fingerprints.                                                             *)

\* Every set of naturals has a least element.
LEMMA LeastNatural ==
    ASSUME NEW T, T \subseteq Nat, T # {}
    PROVE  \E m \in T : \A n \in T : m <= n
  <1>1. PICK m \in T : \A n \in T : <<n, m>> \notin OpToRel(<, Nat)
    BY NatLessThanWellFounded, WFMin, Zenon
  <1>2. \A n \in T : ~(n < m)
    BY <1>1, Zenon DEF OpToRel
  <1> QED BY <1>2

-------------------------------------------------------------------------------
(* Derivation.                                                               *)

LEMMA PrefixFacts ==
    ASSUME NEW B, NEW scripts \in Seq(Seq(B)), scripts # <<>>
    PROVE  /\ CommonPrefixLen(scripts) \in 0..Len(scripts[1])
           /\ ShareHead(scripts, CommonPrefixLen(scripts))
           /\ ~ShareHead(scripts, CommonPrefixLen(scripts) + 1)
  <1> DEFINE over == {n \in Nat : ~ShareHead(scripts, n + 1)}
             L == Len(scripts[1])
  <1>1. 1 \in DOMAIN scripts /\ L \in Nat
    OBVIOUS
  <1>2. L \in over
    BY <1>1 DEF ShareHead
  <1>3. PICK m \in over : \A n \in over : m <= n
    BY <1>2, LeastNatural
  <1>4. m \in 0..L
    BY <1>1, <1>2, <1>3
  <1>5. ShareHead(scripts, m)
    <2>1. CASE m = 0
      <3>1. \A k \in DOMAIN scripts : Len(scripts[k]) \in Nat
        OBVIOUS
      <3> QED BY <2>1, <3>1 DEF ShareHead
    <2>2. CASE m # 0
      <3>1. m - 1 \in Nat /\ ~(m <= m - 1) /\ (m - 1) + 1 = m
        BY <1>4, <2>2
      <3>2. m - 1 \notin over
        BY <1>3, <3>1
      <3> QED BY <3>1, <3>2
    <2> QED BY <2>1, <2>2
  <1>6. ~ShareHead(scripts, m + 1)
    BY <1>3
  <1>7. \E n \in 0..Len(scripts[1]) : ShareHead(scripts, n) /\ ~ShareHead(scripts, n + 1)
    BY <1>4, <1>5, <1>6
  <1> QED BY <1>7, Zenon DEF CommonPrefixLen

LEMMA SuffixFacts ==
    ASSUME NEW B, NEW scripts \in Seq(Seq(B)), scripts # <<>>
    PROVE  /\ CommonSuffixLen(scripts) \in 0..Len(scripts[1])
           /\ ShareTail(scripts, CommonSuffixLen(scripts))
           /\ ~ShareTail(scripts, CommonSuffixLen(scripts) + 1)
  <1> DEFINE over == {n \in Nat : ~ShareTail(scripts, n + 1)}
             L == Len(scripts[1])
  <1>1. 1 \in DOMAIN scripts /\ L \in Nat
    OBVIOUS
  <1>2. L \in over
    BY <1>1 DEF ShareTail
  <1>3. PICK m \in over : \A n \in over : m <= n
    BY <1>2, LeastNatural
  <1>4. m \in 0..L
    BY <1>1, <1>2, <1>3
  <1>5. ShareTail(scripts, m)
    <2>1. CASE m = 0
      <3>1. \A k \in DOMAIN scripts : Len(scripts[k]) \in Nat
        OBVIOUS
      <3> QED BY <2>1, <3>1 DEF ShareTail
    <2>2. CASE m # 0
      <3>1. m - 1 \in Nat /\ ~(m <= m - 1) /\ (m - 1) + 1 = m
        BY <1>4, <2>2
      <3>2. m - 1 \notin over
        BY <1>3, <3>1
      <3> QED BY <3>1, <3>2
    <2> QED BY <2>1, <2>2
  <1>6. ~ShareTail(scripts, m + 1)
    BY <1>3
  <1>7. \E n \in 0..Len(scripts[1]) : ShareTail(scripts, n) /\ ~ShareTail(scripts, n + 1)
    BY <1>4, <1>5, <1>6
  <1> QED BY <1>7, Zenon DEF CommonSuffixLen

\* A fingerprint derived without an error matches every sample it was derived
\* from, whatever the samples and the windows (fingerprint.rs:276).
THEOREM DerivedMatchesItsSamples ==
    ASSUME NEW B, NEW scripts \in Seq(Seq(B)), NEW windows \in Windows,
           Derivable(scripts, windows), NEW k \in DOMAIN scripts
    PROVE  Matches(Derived(scripts, windows), scripts[k])
  <1> DEFINE f == Derived(scripts, windows)
             first == scripts[1]
             head == CommonPrefixLen(scripts)
             tail == CommonSuffixLen(scripts)
  <1>1. scripts # <<>> /\ 1 \in DOMAIN scripts /\ first \in Seq(B) /\ scripts[k] \in Seq(B)
    BY DEF Derivable
  <1>2. /\ head \in 0..Len(first) /\ ShareHead(scripts, head)
        /\ tail \in 0..Len(first) /\ ShareTail(scripts, tail)
    BY <1>1, PrefixFacts, SuffixFacts
  <1>3. head + tail <= Len(scripts[k]) /\ Len(scripts[k]) \in Nat /\ Len(first) \in Nat
    BY <1>1 DEF Derivable
  <1>4. /\ f.head = SubSeq(first, 1, head) /\ f.windows = windows /\ f.exact = FALSE
        /\ f.tail = SubSeq(first, Len(first) - tail + 1, Len(first))
    BY DEF Derived, Anchored
  <1> HIDE DEF f, first, head, tail
  <1>5. Len(f.head) = head /\ \A i \in 1..head : f.head[i] = first[i]
    BY <1>1, <1>2, <1>3, <1>4, SMTT(30)
  <1>6. Len(f.tail) = tail /\ \A j \in 1..tail : f.tail[j] = first[Len(first) - tail + j]
    BY <1>1, <1>2, <1>3, <1>4
  <1>7. \A i \in 1..head : scripts[k][i] = first[i]
    BY <1>2 DEF ShareHead, first
  <1>8. ASSUME NEW j \in 1..tail
        PROVE  scripts[k][Len(scripts[k]) - tail + j] = first[Len(first) - tail + j]
    <2>1. tail - j \in 0..(tail - 1)
      BY <1>2
    <2>2. scripts[k][Len(scripts[k]) - (tail - j)] = first[Len(first) - (tail - j)]
      BY <1>2, <2>1 DEF ShareTail, first
    <2>3. /\ Len(scripts[k]) - (tail - j) = Len(scripts[k]) - tail + j
          /\ Len(first) - (tail - j) = Len(first) - tail + j
      BY <1>2, <1>3
    <2> QED BY <2>2, <2>3
  <1>9. AnchoredMatches(f, scripts[k])
    BY <1>3, <1>5, <1>6, <1>7, <1>8 DEF AnchoredMatches, TailMatches
  <1> QED BY <1>4, <1>9 DEF Matches, f

\* The derived anchors are as long as they can be: whatever bytes all samples
\* share at their beginning lie in the head (fingerprint.rs:313).
THEOREM DerivedHeadIsLongest ==
    ASSUME NEW B, NEW scripts \in Seq(Seq(B)), scripts # <<>>,
           NEW n \in Nat, ShareHead(scripts, n)
    PROVE  n <= CommonPrefixLen(scripts)
  <1>1. /\ CommonPrefixLen(scripts) \in Nat
        /\ ~ShareHead(scripts, CommonPrefixLen(scripts) + 1)
    BY PrefixFacts
  <1> DEFINE m == CommonPrefixLen(scripts)
  <1> HIDE DEF m
  <1>2. SUFFICES ASSUME m + 1 <= n PROVE FALSE
    BY <1>1 DEF m
  <1>3. ShareHead(scripts, m + 1)
    <2>1. \A k \in DOMAIN scripts : Len(scripts[k]) \in Nat
      OBVIOUS
    <2> QED BY <1>1, <1>2, <2>1 DEF ShareHead, m
  <1> QED BY <1>1, <1>3 DEF m

-------------------------------------------------------------------------------
(* Extraction.                                                               *)

\* Of a script a valid fingerprint matches, every field is extracted in full:
\* its window lies within the script (fingerprint.rs:60).
THEOREM ExtractionIsInBounds ==
    ASSUME NEW B, NEW script \in Seq(B), NEW f,
           f.exact \in BOOLEAN, f.windows \in Windows,
           f.exact => f.bytes \in Seq(B),
           ~f.exact => f.head \in Seq(B) /\ f.tail \in Seq(B),
           Valid(f), Matches(f, script), NEW i \in DOMAIN f.windows
    PROVE  /\ Covers(f.windows[i]) \subseteq DOMAIN script
           /\ Slice(script, f.windows[i]) \in Seq(B)
           /\ Len(Slice(script, f.windows[i])) = f.windows[i].len
  <1> DEFINE w == f.windows[i]
  <1>1. w.offset \in Nat /\ w.len \in Nat
    <2>1. DOMAIN f.windows = 1..Len(f.windows)
      BY LenProperties DEF Windows
    <2>2. w \in [field : STRING, offset : Nat, len : Nat]
      BY <2>1, ElementOfSeq DEF Windows
    <2> QED BY <2>2
  <1>2. Len(AnchorOf(f)) <= Len(script) /\ Len(AnchorOf(f)) \in Nat /\ Len(script) \in Nat
    <2>1. CASE f.exact
      BY <2>1 DEF Matches, ExactMatches, AnchorOf
    <2>2. CASE ~f.exact
      <3>1. f.head \in Seq(B) /\ f.tail \in Seq(B) /\ AnchorOf(f) = f.head
        BY <2>2 DEF AnchorOf
      <3> DEFINE h == Len(f.head)
                 t == Len(f.tail)
                 n == Len(script)
      <3>2. n >= h + t
        BY <2>2 DEF Matches, AnchoredMatches
      <3>3. h \in Nat /\ t \in Nat /\ n \in Nat
        BY <3>1, LenProperties
      <3> HIDE DEF h, t, n
      <3>4. h <= n
        BY <3>2, <3>3
      <3> QED BY <3>1, <3>3, <3>4 DEF h, n
    <2> QED BY <2>1, <2>2
  <1>3. w.offset + w.len <= Len(AnchorOf(f))
    BY DEF Valid, InBounds
  <1> HIDE DEF w
  <1>4. Covers(w) \subseteq 1..Len(script)
    BY <1>1, <1>2, <1>3 DEF Covers
  <1>5. Slice(script, w) \in Seq(B) /\ Len(Slice(script, w)) = w.len
    <2>1. \A j \in (w.offset + 1)..(w.offset + w.len) : script[j] \in B
      BY <1>1, <1>2, <1>3
    <2> QED BY <1>1, <2>1, SubSeqProperties DEF Slice
  <1> QED BY <1>4, <1>5 DEF w

\* What a window covers does not decide whether an exact fingerprint matches:
\* two scripts of one length that differ in covered bytes only are both
\* instances of the pattern, or neither is (fingerprint.rs:38).
THEOREM WindowsDoNotDecide ==
    ASSUME NEW B, NEW s \in Seq(B), NEW t \in Seq(B), NEW f, f.exact = TRUE,
           Len(s) = Len(t),
           \A i \in 1..Len(s) : InMask(f.windows, i) \/ s[i] = t[i]
    PROVE  Matches(f, s) <=> Matches(f, t)
  BY DEF Matches, ExactMatches

-------------------------------------------------------------------------------
(* Lists of lists, and the hits and inputs of a block.                       *)

Unrolls(ss, n, f) == f = [i \in 1..n |-> IF i = 1 THEN ss[i] ELSE f[i - 1] \o ss[i]]

\* The recursion of FlattenSeq has a solution.
LEMMA UnrollsExists ==
    ASSUME NEW ss, NEW n \in Nat
    PROVE  \E f : Unrolls(ss, n, f)
  <1> DEFINE bad == {m \in Nat : ~\E f : Unrolls(ss, m, f)}
  <1>1. ASSUME bad # {} PROVE FALSE
    <2>1. PICK m \in bad : \A k \in bad : m <= k
      <3> HIDE DEF bad
      <3>1. bad \subseteq Nat
        BY DEF bad
      <3> QED BY <1>1, <3>1, LeastNatural
    <2>2. CASE m = 0
      <3> DEFINE f == [i \in 1..0 |-> ss]
      <3>1. Unrolls(ss, 0, f)
        BY DEF Unrolls
      <3> QED BY <2>1, <2>2, <3>1
    <2>3. CASE m # 0
      <3>1. m - 1 \in Nat /\ m - 1 \notin bad
        BY <2>1, <2>3
      <3>2. PICK f : Unrolls(ss, m - 1, f)
        BY <3>1
      <3> DEFINE g == [i \in 1..m |-> IF i = 1 THEN ss[i] ELSE f[i - 1] \o ss[i]]
      <3>3. \A i \in 1..(m - 1) : g[i] = f[i]
        <4>1. \A i \in 1..(m - 1) : f[i] = IF i = 1 THEN ss[i] ELSE f[i - 1] \o ss[i]
          BY <3>2 DEF Unrolls
        <4>2. \A i \in 1..(m - 1) : i \in 1..m
          BY <3>1
        <4> QED BY <4>1, <4>2
      <3>4. \A i \in 1..m : i # 1 => i - 1 \in 1..(m - 1)
        BY <3>1
      <3>5. g = [i \in 1..m |-> IF i = 1 THEN ss[i] ELSE g[i - 1] \o ss[i]]
        BY <3>3, <3>4
      <3> HIDE DEF g
      <3>6. Unrolls(ss, m, g)
        BY <3>5 DEF Unrolls
      <3> QED BY <2>1, <3>6
    <2> QED BY <2>2, <2>3
  <1> QED BY <1>1

\* A list holds what two lists hold that it is put together from.
LEMMA ConcatHolds ==
    ASSUME NEW T, NEW s \in Seq(T), NEW t \in Seq(T)
    PROVE  s \o t \in Seq(T) /\ Range(s \o t) = Range(s) \cup Range(t)
  <1>1. /\ s \o t \in Seq(T) /\ Len(s \o t) = Len(s) + Len(t)
        /\ \A i \in 1..Len(s) : (s \o t)[i] = s[i]
        /\ \A i \in 1..Len(t) : (s \o t)[Len(s) + i] = t[i]
    BY ConcatProperties
  <1>2. Len(s) \in Nat /\ Len(t) \in Nat
    OBVIOUS
  <1>3. ASSUME NEW i \in DOMAIN (s \o t) PROVE (s \o t)[i] \in Range(s) \cup Range(t)
    <2>1. CASE i <= Len(s)
      <3>1. i \in 1..Len(s)
        BY <1>1, <1>2, <2>1
      <3> QED BY <1>1, <3>1 DEF Range
    <2>2. CASE i > Len(s)
      <3>1. PICK j : j = i - Len(s)
        OBVIOUS
      <3>2. j \in 1..Len(t) /\ Len(s) + j = i
        BY <1>1, <1>2, <2>2, <3>1
      <3>3. (s \o t)[i] = t[j]
        BY <1>1, <3>2
      <3> QED BY <3>2, <3>3 DEF Range
    <2>3. i \in Nat
      BY <1>1
    <2> QED BY <1>2, <2>1, <2>2, <2>3
  <1>4. ASSUME NEW i \in 1..Len(s) PROVE s[i] \in Range(s \o t)
    <2>1. i \in DOMAIN (s \o t)
      BY <1>1, <1>2
    <2> QED BY <1>1, <2>1 DEF Range
  <1>5. ASSUME NEW i \in 1..Len(t) PROVE t[i] \in Range(s \o t)
    <2>1. Len(s) + i \in DOMAIN (s \o t)
      BY <1>1, <1>2
    <2> QED BY <1>1, <2>1 DEF Range
  <1>6. Range(s \o t) \subseteq Range(s) \cup Range(t)
    BY <1>3 DEF Range
  <1>7. Range(s) \subseteq Range(s \o t)
    BY <1>4 DEF Range
  <1>8. Range(t) \subseteq Range(s \o t)
    BY <1>5 DEF Range
  <1> QED BY <1>1, <1>6, <1>7, <1>8

\* A flattened list holds what the lists in it hold.
LEMMA FlattenHolds ==
    ASSUME NEW T, NEW n \in Nat, NEW ss \in [1..n -> Seq(T)]
    PROVE  /\ FlattenSeq(ss) \in Seq(T)
           /\ Range(FlattenSeq(ss)) = UNION {Range(ss[i]) : i \in 1..n}
  <1>1. ss \in Seq(Seq(T)) /\ Len(ss) = n
    OBVIOUS
  <1>2. CASE n = 0
    <2>1. FlattenSeq(ss) = ss /\ ss = <<>>
      BY <1>1, <1>2 DEF FlattenSeq
    <2>2. Range(<<>>) = {}
      BY DEF Range
    <2> QED BY <1>2, <2>1, <2>2
  <1>3. CASE n # 0
    <2> DEFINE f == CHOOSE g : Unrolls(ss, n, g)
    <2>1. FlattenSeq(ss) = f[n]
      BY <1>1, <1>3 DEF FlattenSeq, Unrolls
    <2>2. Unrolls(ss, n, f)
      BY UnrollsExists
    <2> HIDE DEF f
    <2>3. \A i \in 1..n : f[i] = IF i = 1 THEN ss[i] ELSE f[i - 1] \o ss[i]
      BY <2>2 DEF Unrolls
    <2> DEFINE good(i) == f[i] \in Seq(T) /\ Range(f[i]) = UNION {Range(ss[j]) : j \in 1..i}
               bad == {i \in 1..n : ~good(i)}
    <2>4. ASSUME bad # {} PROVE FALSE
      <3>1. PICK m \in bad : \A k \in bad : m <= k
        <4> HIDE DEF bad
        <4>1. bad \subseteq Nat
          BY DEF bad
        <4> QED BY <2>4, <4>1, LeastNatural
      <3>2. m \in 1..n /\ ss[m] \in Seq(T)
        BY <3>1
      <3>3. CASE m = 1
        <4>1. UNION {Range(ss[j]) : j \in 1..m} = Range(ss[m])
          BY <3>3
        <4> QED BY <2>3, <3>1, <3>2, <3>3, <4>1
      <3>4. CASE m # 1
        <4>1. m - 1 \in 1..n /\ ~(m <= m - 1)
          BY <3>2, <3>4
        <4>2. good(m - 1)
          BY <3>1, <4>1
        <4>3. f[m] = f[m - 1] \o ss[m]
          BY <2>3, <3>2, <3>4
        <4>4. f[m] \in Seq(T) /\ Range(f[m]) = Range(f[m - 1]) \cup Range(ss[m])
          BY <3>2, <4>2, <4>3, ConcatHolds
        <4>5. 1..m = 1..(m - 1) \cup {m}
          BY <3>2
        <4>6. UNION {Range(ss[j]) : j \in 1..m}
                = (UNION {Range(ss[j]) : j \in 1..(m - 1)}) \cup Range(ss[m])
          BY <4>5
        <4> QED BY <3>1, <4>2, <4>4, <4>6
      <3> QED BY <3>3, <3>4
    <2>5. n \in 1..n
      BY <1>3
    <2>6. n \notin bad
      BY <2>4
    <2> QED BY <2>1, <2>5, <2>6
  <1> QED BY <1>2, <1>3

LEMMA MinIs ==
    ASSUME NEW T, T \subseteq Nat, T # {}
    PROVE  Min(T) \in T /\ \A x \in T : Min(T) <= x
  <1>1. PICK m \in T : \A x \in T : m <= x
    BY LeastNatural
  <1>2. \A x \in T : m =< x
    BY <1>1
  <1> QED BY <1>2, Zenon DEF Min

LEMMA MaxIs ==
    ASSUME NEW T, T \subseteq Nat, T # {}, NEW n \in Nat, \A x \in T : x <= n
    PROVE  Max(T) \in T /\ \A x \in T : x <= Max(T)
  <1> DEFINE upper == {m \in Nat : \A x \in T : x <= m}
  <1>1. upper \subseteq Nat /\ n \in upper
    OBVIOUS
  <1>2. PICK m \in upper : \A k \in upper : m <= k
    <2> HIDE DEF upper
    <2> QED BY <1>1, LeastNatural
  <1>3. m \in T
    <2> SUFFICES ASSUME m \notin T PROVE FALSE
      OBVIOUS
    <2>1. PICK x \in T : TRUE
      OBVIOUS
    <2>2. m \in Nat /\ m # 0
      BY <1>2, <2>1
    <2>3. \A y \in T : y <= m - 1
      BY <1>2, <2>2
    <2>4. m - 1 \in upper
      BY <2>2, <2>3
    <2> HIDE DEF upper
    <2>5. m <= m - 1
      BY <1>2, <2>4
    <2> QED BY <2>2, <2>5
  <1>4. \A x \in T : m >= x
    BY <1>2
  <1>5. Max(T) \in T /\ \A x \in T : Max(T) >= x
    BY <1>3, <1>4, Zenon DEF Max
  <1> QED BY <1>5

\* The elements of a list of numbers have a bound.
LEMMA ListBound ==
    ASSUME NEW s \in Seq(Nat)
    PROVE  \E b \in Nat : \A x \in Range(s) : x <= b
  <1> DEFINE bounded(k) == \E b \in Nat : \A i \in 1..k : s[i] <= b
             bad == {k \in Nat : k <= Len(s) /\ ~bounded(k)}
  <1>1. Len(s) \in Nat /\ DOMAIN s = 1..Len(s) /\ \A i \in 1..Len(s) : s[i] \in Nat
    OBVIOUS
  <1>2. ASSUME bad # {} PROVE FALSE
    <2>1. PICK k \in bad : \A j \in bad : k <= j
      <3> HIDE DEF bad
      <3>1. bad \subseteq Nat
        BY DEF bad
      <3> QED BY <1>2, <3>1, LeastNatural
    <2>2. k \in Nat /\ k <= Len(s) /\ ~bounded(k)
      BY <2>1
    <2>3. bounded(0)
      <3>1. \A i \in 1..0 : s[i] <= 0
        <4>1. 1..0 = {}
          OBVIOUS
        <4> QED BY <4>1, Zenon
      <3> HIDE DEF bad
      <3> QED BY <3>1, Zenon
    <2>4. k # 0
      BY <2>2, <2>3
    <2>5. k - 1 \in Nat /\ k - 1 <= Len(s) /\ ~(k <= k - 1) /\ k \in 1..Len(s)
      BY <1>1, <2>2, <2>4
    <2>6. bounded(k - 1)
      BY <2>1, <2>5
    <2>7. PICK b \in Nat : \A i \in 1..(k - 1) : s[i] <= b
      BY <2>6
    <2>8. PICK v \in Nat : v = s[k]
      BY <1>1, <2>5
    <2> HIDE DEF bad
    <2>9. PICK c \in Nat : b <= c /\ v <= c
      <3> HIDE DEF bounded
      <3>1. b \in Nat /\ v \in Nat
        BY <2>7, <2>8
      <3>2. b + v \in Nat /\ b <= b + v /\ v <= b + v
        BY <3>1
      <3> QED BY <3>2
    <2>10. ASSUME NEW i \in 1..k PROVE s[i] <= c
      <3>1. CASE i = k
        BY <2>8, <2>9, <3>1
      <3>2. CASE i # k
        <4>1. i \in 1..(k - 1) /\ i \in 1..Len(s)
          BY <1>1, <2>2, <3>2
        <4>2. s[i] <= b /\ s[i] \in Nat
          BY <1>1, <2>7, <4>1
        <4> QED BY <2>9, <4>2
      <3> QED BY <3>1, <3>2
    <2> QED BY <2>2, <2>9, <2>10
  <1>3. bounded(Len(s))
    <2>1. Len(s) \notin bad
      BY <1>2
    <2> HIDE DEF bounded
    <2> QED BY <1>1, <2>1
  <1>4. PICK b \in Nat : \A i \in 1..Len(s) : s[i] <= b
    BY <1>3
  <1>5. \A x \in Range(s) : x <= b
    BY <1>1, <1>4 DEF Range
  <1> QED BY <1>5

-------------------------------------------------------------------------------
(* The hits of a block.                                                      *)

\* What a pattern that matches an output is reported as.
HitAt(tx, i, k) ==
    Hit(Registry[k].kind, tx, i - 1, Extract(Registry[k].matcher, Outputs[tx][i]))

Detected == {HitAt(tx, i, k) : tx \in Tx, i \in Nat \ {0}, k \in DOMAIN Registry}

\* The hits in the outputs of a transaction.
HitsIn(tx) ==
    {h \in Detected : \E i \in DOMAIN Outputs[tx], k \in DOMAIN Registry :
        h = HitAt(tx, i, k) /\ Matches(Registry[k].matcher, Outputs[tx][i])}

LEMMA DetectedInOutput ==
    ASSUME NEW tx \in Tx, NEW i \in DOMAIN Outputs[tx]
    PROVE  LET found == DetectInOutput(Registry, Outputs[tx][i], tx, i - 1)
           IN  /\ found \in Seq(Detected)
               /\ Range(found) = {HitAt(tx, i, k) : k \in {l \in DOMAIN Registry :
                                    Matches(Registry[l].matcher, Outputs[tx][i])}}
  <1> DEFINE match(k) == Matches(Registry[k].matcher, Outputs[tx][i])
             ss == [k \in DOMAIN Registry |-> IF match(k) THEN <<HitAt(tx, i, k)>> ELSE <<>>]
  <1>1. DetectInOutput(Registry, Outputs[tx][i], tx, i - 1) = FlattenSeq(ss)
    BY DEF DetectInOutput, HitAt
  <1>2. PICK n \in Nat : DOMAIN Registry = 1..n
    BY PipelineAssumption
  <1>3. i \in Nat \ {0}
    BY PipelineAssumption
  <1>4. ASSUME NEW k \in 1..n PROVE <<HitAt(tx, i, k)>> \in Seq(Detected) /\ <<>> \in Seq(Detected)
    <2>1. HitAt(tx, i, k) \in Detected
      BY <1>2, <1>3 DEF Detected
    <2> QED BY <2>1
  <1>5. ss \in [1..n -> Seq(Detected)]
    <2> HIDE DEF match
    <2> QED BY <1>2, <1>4
  <1>6. \A k \in 1..n : Range(ss[k]) = IF match(k) THEN {HitAt(tx, i, k)} ELSE {}
    <2> SUFFICES ASSUME NEW k \in 1..n
                 PROVE  Range(ss[k]) = IF match(k) THEN {HitAt(tx, i, k)} ELSE {}
      OBVIOUS
    <2> HIDE DEF match
    <2>1. CASE match(k)
      <3> DEFINE h == HitAt(tx, i, k)
      <3>1. ss[k] = <<h>>
        BY <1>2, <2>1
      <3> HIDE DEF h
      <3>2. Range(<<h>>) = {h}
        BY DEF Range
      <3> QED BY <2>1, <3>1, <3>2 DEF h
    <2>2. CASE ~match(k)
      <3>1. ss[k] = <<>>
        BY <1>2, <2>2
      <3>2. Range(<<>>) = {}
        BY DEF Range
      <3> QED BY <2>2, <3>1, <3>2
    <2> QED BY <2>1, <2>2
  <1> HIDE DEF ss, match
  <1>7. /\ FlattenSeq(ss) \in Seq(Detected)
        /\ Range(FlattenSeq(ss)) = UNION {Range(ss[k]) : k \in 1..n}
    BY <1>5, FlattenHolds
  <1>8. UNION {Range(ss[k]) : k \in 1..n} = {HitAt(tx, i, k) : k \in {l \in 1..n : match(l)}}
    BY <1>6
  <1> QED BY <1>1, <1>2, <1>7, <1>8 DEF match

LEMMA TxHitsAre ==
    ASSUME NEW tx \in Tx
    PROVE  TxHits[tx] \in Seq(Detected) /\ Range(TxHits[tx]) = HitsIn(tx)
  <1> DEFINE ss == [i \in DOMAIN Outputs[tx] |->
                        DetectInOutput(Registry, Outputs[tx][i], tx, i - 1)]
             found(i) == {HitAt(tx, i, k) : k \in {l \in DOMAIN Registry :
                                Matches(Registry[l].matcher, Outputs[tx][i])}}
  <1>1. TxHits[tx] = FlattenSeq(ss)
    BY DEF TxHits
  <1>2. PICK n \in Nat : DOMAIN Outputs[tx] = 1..n
    BY PipelineAssumption
  <1>3. \A i \in 1..n : ss[i] \in Seq(Detected) /\ Range(ss[i]) = found(i)
    <2> SUFFICES ASSUME NEW i \in 1..n
                 PROVE  ss[i] \in Seq(Detected) /\ Range(ss[i]) = found(i)
      OBVIOUS
    <2>1. i \in DOMAIN Outputs[tx]
      BY <1>2
    <2>2. ss[i] = DetectInOutput(Registry, Outputs[tx][i], tx, i - 1)
      BY <2>1
    <2> HIDE DEF ss
    <2> QED BY <2>1, <2>2, DetectedInOutput
  <1>4. ss = [i \in 1..n |-> ss[i]]
    BY <1>2
  <1> HIDE DEF ss
  <1>5. ss \in [1..n -> Seq(Detected)]
    BY <1>3, <1>4
  <1>6. /\ FlattenSeq(ss) \in Seq(Detected)
        /\ Range(FlattenSeq(ss)) = UNION {Range(ss[i]) : i \in 1..n}
    BY <1>5, FlattenHolds
  <1>7. UNION {Range(ss[i]) : i \in 1..n} = UNION {found(i) : i \in 1..n}
    <2> HIDE DEF found
    <2> QED BY <1>3
  <1>8. UNION {found(i) : i \in 1..n} = HitsIn(tx)
    <2>1. ASSUME NEW i \in 1..n, NEW h \in found(i) PROVE h \in HitsIn(tx)
      <3>1. PICK k \in DOMAIN Registry :
                h = HitAt(tx, i, k) /\ Matches(Registry[k].matcher, Outputs[tx][i])
        BY <2>1
      <3>2. h \in Detected
        BY <3>1 DEF Detected
      <3> QED BY <1>2, <3>1, <3>2 DEF HitsIn
    <2>2. ASSUME NEW h \in HitsIn(tx) PROVE \E i \in 1..n : h \in found(i)
      <3>1. PICK i \in DOMAIN Outputs[tx], k \in DOMAIN Registry :
                h = HitAt(tx, i, k) /\ Matches(Registry[k].matcher, Outputs[tx][i])
        BY <2>2 DEF HitsIn
      <3>2. h \in found(i)
        BY <3>1
      <3> HIDE DEF found
      <3> QED BY <1>2, <3>1, <3>2
    <2> HIDE DEF found
    <2> QED BY <2>1, <2>2
  <1> QED BY <1>1, <1>6, <1>7, <1>8

\* The hits of a block are those of its transactions.
LEMMA BlockHits ==
    ASSUME NEW block \in Blocks
    PROVE  /\ HitsOf[block] \in Seq(Detected) /\ Len(HitsOf[block]) \in Nat
           /\ Range(HitsOf[block]) = UNION {HitsIn(tx) : tx \in Range(block)}
  <1> DEFINE ss == [i \in DOMAIN block |-> TxHits[block[i]]]
  <1>1. HitsOf[block] = FlattenSeq(ss)
    BY DEF HitsOf
  <1>2. PICK n \in Nat : DOMAIN block = 1..n /\ \A i \in 1..n : block[i] \in Tx
    BY PipelineAssumption
  <1>3. ss = [i \in 1..n |-> ss[i]] /\ \A i \in 1..n : ss[i] = TxHits[block[i]]
    BY <1>2
  <1> HIDE DEF ss
  <1>4. \A i \in 1..n : ss[i] \in Seq(Detected) /\ Range(ss[i]) = HitsIn(block[i])
    BY <1>2, <1>3, TxHitsAre
  <1>5. ss \in [1..n -> Seq(Detected)]
    BY <1>3, <1>4
  <1>6. /\ FlattenSeq(ss) \in Seq(Detected)
        /\ Range(FlattenSeq(ss)) = UNION {Range(ss[i]) : i \in 1..n}
    BY <1>5, FlattenHolds
  <1>7. UNION {Range(ss[i]) : i \in 1..n} = UNION {HitsIn(tx) : tx \in Range(block)}
    <2>1. Range(block) = {block[i] : i \in 1..n}
      BY <1>2 DEF Range
    <2>2. UNION {Range(ss[i]) : i \in 1..n} = UNION {HitsIn(block[i]) : i \in 1..n}
      BY <1>4
    <2> QED BY <2>1, <2>2
  <1>8. \A s \in Seq(Detected) : Len(s) \in Nat
    OBVIOUS
  <1> QED BY <1>1, <1>6, <1>7, <1>8

-------------------------------------------------------------------------------
(* The inputs of a block.                                                    *)

InputRecords == [spending : Tx, previous : Outpoints]

\* The inputs of a transaction, and of a block.
SpendsIn(tx) == {[spending |-> tx, previous |-> o] : o \in Range(Inputs[tx])}
SpendsAt(block) == UNION {SpendsIn(tx) : tx \in Range(block)}

LEMMA TxInputsAre ==
    ASSUME NEW tx \in Tx
    PROVE  InputsOfTx(tx) \in Seq(InputRecords) /\ Range(InputsOfTx(tx)) = SpendsIn(tx)
  <1>1. PICK n \in Nat : DOMAIN Inputs[tx] = 1..n /\ \A j \in 1..n : Inputs[tx][j] \in Outpoints
    BY PipelineAssumption
  <1>2. InputsOfTx(tx) \in [1..n -> InputRecords]
    BY <1>1 DEF InputsOfTx, InputRecords
  <1>3. \A f \in [1..n -> InputRecords] : f \in Seq(InputRecords)
    BY <1>1
  <1>4. Range(InputsOfTx(tx)) = SpendsIn(tx)
    BY DEF InputsOfTx, SpendsIn, Range
  <1> QED BY <1>2, <1>3, <1>4

LEMMA BlockInputs ==
    ASSUME NEW block \in Blocks
    PROVE  InputsOf[block] \in Seq(InputRecords) /\ Range(InputsOf[block]) = SpendsAt(block)
  <1> DEFINE ss == [i \in DOMAIN block |-> InputsOfTx(block[i])]
  <1>1. InputsOf[block] = FlattenSeq(ss)
    BY DEF InputsOf
  <1>2. PICK n \in Nat : DOMAIN block = 1..n /\ \A i \in 1..n : block[i] \in Tx
    BY PipelineAssumption
  <1>3. ss = [i \in 1..n |-> ss[i]] /\ \A i \in 1..n : ss[i] = InputsOfTx(block[i])
    BY <1>2
  <1> HIDE DEF ss
  <1>4. \A i \in 1..n : ss[i] \in Seq(InputRecords) /\ Range(ss[i]) = SpendsIn(block[i])
    BY <1>2, <1>3, TxInputsAre
  <1>5. ss \in [1..n -> Seq(InputRecords)]
    BY <1>3, <1>4
  <1>6. /\ FlattenSeq(ss) \in Seq(InputRecords)
        /\ Range(FlattenSeq(ss)) = UNION {Range(ss[i]) : i \in 1..n}
    BY <1>5, FlattenHolds
  <1>7. UNION {Range(ss[i]) : i \in 1..n} = SpendsAt(block)
    <2>1. Range(block) = {block[i] : i \in 1..n}
      BY <1>2 DEF Range
    <2>2. UNION {Range(ss[i]) : i \in 1..n} = UNION {SpendsIn(block[i]) : i \in 1..n}
      BY <1>4
    <2> QED BY <2>1, <2>2 DEF SpendsAt
  <1> QED BY <1>1, <1>6, <1>7

\* Ordered by transaction they are the same.
LEMMA OrderedInputs ==
    ASSUME NEW block \in Blocks
    PROVE  /\ ByTransaction[block] \in Seq(InputRecords)
           /\ Range(ByTransaction[block]) = SpendsAt(block)
  <1> DEFINE last == Max(Range(block) \cup {0})
             ss == [n \in 1..(last + 1) |->
                        IF n - 1 \in Range(block) THEN InputsOfTx(n - 1) ELSE <<>>]
  <1>1. ByTransaction[block] = FlattenSeq(ss)
    BY DEF ByTransaction
  <1>2. /\ block \in Seq(Tx) /\ Tx \subseteq Nat
        /\ block \in Seq(Nat) /\ Range(block) \subseteq Tx
    <2>1. block \in Seq(Tx) /\ Tx \subseteq Nat
      BY PipelineAssumption
    <2>2. Range(block) \subseteq Tx
      BY <2>1 DEF Range
    <2>3. block \in Seq(Nat)
      <3>1. PICK n \in Nat : block \in [1..n -> Tx]
        BY <2>1
      <3>2. block \in [1..n -> Nat]
        BY <2>1, <3>1
      <3> QED BY <3>2
    <2> QED BY <2>1, <2>2, <2>3
  <1>3. PICK b \in Nat : \A x \in Range(block) : x <= b
    BY <1>2, ListBound
  <1>4. last \in Nat /\ \A x \in Range(block) : x \in Nat /\ x <= last
    <2> DEFINE T == Range(block) \cup {0}
    <2>1. T \subseteq Nat /\ T # {} /\ \A x \in T : x <= b
      <3>1. Range(block) \subseteq Nat
        BY <1>2, Zenon
      <3>2. 0 <= b
        OBVIOUS
      <3> HIDE DEF last, ss
      <3> QED BY <1>3, <3>1, <3>2
    <2> HIDE DEF T
    <2>2. Max(T) \in T /\ \A x \in T : x <= Max(T)
      BY <2>1, MaxIs
    <2> QED BY <2>1, <2>2 DEF T
  <1> HIDE DEF last
  <1>5. PICK m \in Nat : m = last + 1
    BY <1>4
  <1>6. /\ ss = [n \in 1..m |-> ss[n]]
        /\ \A n \in 1..m : ss[n] = IF n - 1 \in Range(block) THEN InputsOfTx(n - 1) ELSE <<>>
    BY <1>5
  <1> HIDE DEF ss
  <1>7. ASSUME NEW n \in 1..m
        PROVE  /\ ss[n] \in Seq(InputRecords)
               /\ Range(ss[n]) = IF n - 1 \in Range(block) THEN SpendsIn(n - 1) ELSE {}
    <2>1. CASE n - 1 \in Range(block)
      <3>1. n - 1 \in Tx /\ ss[n] = InputsOfTx(n - 1)
        BY <1>2, <1>6, <2>1
      <3> QED BY <2>1, <3>1, TxInputsAre
    <2>2. CASE n - 1 \notin Range(block)
      <3>1. ss[n] = <<>>
        BY <1>6, <2>2
      <3>2. Range(<<>>) = {} /\ <<>> \in Seq(InputRecords)
        BY DEF Range
      <3> QED BY <2>2, <3>1, <3>2
    <2> QED BY <2>1, <2>2
  <1>8. ss \in [1..m -> Seq(InputRecords)]
    BY <1>6, <1>7
  <1>9. /\ FlattenSeq(ss) \in Seq(InputRecords)
        /\ Range(FlattenSeq(ss)) = UNION {Range(ss[i]) : i \in 1..m}
    BY <1>8, FlattenHolds, SMTT(30)
  <1>10. UNION {Range(ss[i]) : i \in 1..m} = SpendsAt(block)
    <2>1. ASSUME NEW i \in 1..m, NEW x \in Range(ss[i]) PROVE x \in SpendsAt(block)
      <3>1. i - 1 \in Range(block) /\ x \in SpendsIn(i - 1)
        BY <1>7, <2>1
      <3> QED BY <3>1 DEF SpendsAt
    <2>2. ASSUME NEW tx \in Range(block), NEW x \in SpendsIn(tx)
          PROVE  \E i \in 1..m : x \in Range(ss[i])
      <3>1. PICK i : i = tx + 1
        OBVIOUS
      <3>2. i \in 1..m /\ i - 1 = tx
        BY <1>4, <1>5, <3>1
      <3> QED BY <1>7, <2>2, <3>2
    <2> QED BY <2>1, <2>2 DEF SpendsAt
  <1> QED BY <1>1, <1>9, <1>10

\* The inputs that spend what is tracked, in that order.
LEMMA SpendsAre ==
    ASSUME NEW block \in Blocks, NEW tracked
    PROVE  /\ SpendsOf(block, tracked) \in Seq(InputRecords)
           /\ Len(SpendsOf(block, tracked)) \in Nat
           /\ Range(SpendsOf(block, tracked))
                = {s \in SpendsAt(block) : s.previous \in tracked}
  <1> DEFINE inputs == ByTransaction[block]
             ss == [i \in DOMAIN inputs |->
                        IF inputs[i].previous \in tracked THEN <<inputs[i]>> ELSE <<>>]
  <1>1. SpendsOf(block, tracked) = FlattenSeq(ss)
    BY DEF SpendsOf
  <1>2. inputs \in Seq(InputRecords) /\ Range(inputs) = SpendsAt(block)
    BY OrderedInputs
  <1> HIDE DEF inputs
  <1>3. PICK n \in Nat : DOMAIN inputs = 1..n /\ \A i \in 1..n : inputs[i] \in InputRecords
    BY <1>2
  <1>4. /\ ss = [i \in 1..n |-> ss[i]]
        /\ \A i \in 1..n : ss[i] = IF inputs[i].previous \in tracked THEN <<inputs[i]>> ELSE <<>>
    BY <1>3
  <1> HIDE DEF ss
  <1>5. ASSUME NEW i \in 1..n
        PROVE  /\ ss[i] \in Seq(InputRecords)
               /\ Range(ss[i]) = IF inputs[i].previous \in tracked THEN {inputs[i]} ELSE {}
    <2>1. PICK x \in InputRecords : x = inputs[i]
      BY <1>3
    <2>2. /\ <<x>> \in Seq(InputRecords) /\ Range(<<x>>) = {x}
          /\ <<>> \in Seq(InputRecords) /\ Range(<<>>) = {}
      BY DEF Range
    <2>3. ss[i] = IF x.previous \in tracked THEN <<x>> ELSE <<>>
      BY <1>4, <2>1
    <2> QED BY <2>1, <2>2, <2>3
  <1>6. ss \in [1..n -> Seq(InputRecords)]
    BY <1>4, <1>5
  <1>7. /\ FlattenSeq(ss) \in Seq(InputRecords)
        /\ Range(FlattenSeq(ss)) = UNION {Range(ss[i]) : i \in 1..n}
    BY <1>6, FlattenHolds
  <1>8. UNION {Range(ss[i]) : i \in 1..n} = {s \in Range(inputs) : s.previous \in tracked}
    <2>1. Range(inputs) = {inputs[i] : i \in 1..n}
      BY <1>3 DEF Range
    <2>2. ASSUME NEW i \in 1..n, NEW x \in Range(ss[i])
          PROVE  x \in Range(inputs) /\ x.previous \in tracked
      <3>1. inputs[i].previous \in tracked /\ x = inputs[i]
        BY <1>5, <2>2
      <3> QED BY <2>1, <3>1
    <2>3. ASSUME NEW x \in Range(inputs), x.previous \in tracked
          PROVE  \E i \in 1..n : x \in Range(ss[i])
      <3>1. PICK i \in 1..n : x = inputs[i]
        BY <2>1
      <3>2. Range(ss[i]) = {inputs[i]}
        BY <1>5, <2>3, <3>1
      <3> QED BY <3>1, <3>2
    <2> QED BY <2>2, <2>3
  <1>9. \A s \in Seq(InputRecords) : Len(s) \in Nat
    OBVIOUS
  <1> QED BY <1>1, <1>2, <1>7, <1>8, <1>9

IsList(s) == \E S : s \in Seq(S)

\* A guest is in the table with all it needs, or there is none.
GuestFields ==
    {"running", "handler", "event", "step", "seen", "ops", "fuel", "outcome"}

GuestInv ==
    \/ guest = NoGuest
    \/ /\ DOMAIN guest = GuestFields
       /\ guest.running = TRUE
       /\ guest.fuel \in 0..Fuel
       /\ IsList(guest.ops)

Busy == phase \in {"hits", "locked", "spends", "checkpoint"}

\* A handler that runs is that of the hit or the spend the loop is at.
PlaceInv ==
    /\ at \in Nat \ {0}
    /\ phase \in {"hits", "locked"} => at <= Len(Hits) + 1
    /\ phase = "spends" => at <= Len(Spends) + 1
    /\ guest.running =>
        \/ phase = "locked" /\ at <= Len(Hits)
        \/ phase = "spends" /\ at <= Len(Spends)

\* What the locked handlers emit is of the block they handle.
RecordsInv ==
    /\ IsList(dispatched)
    /\ phase \in {"hits", "locked"} => \A i \in DOMAIN dispatched : dispatched[i].daa = Daa
    /\ \A k \in DOMAIN versions : k[2] \in DOMAIN chain

TypeInv ==
    /\ mapping \in Mappings
    /\ chain \in Seq(Blocks) /\ Len(chain) <= MaxBlocks
    /\ DOMAIN utxos \subseteq Outpoints
    /\ DOMAIN spends \subseteq Tx \X Outpoints
    /\ IsList(checkpoints)
    /\ phase \in {"idle", "stopped"} \/ Busy
    /\ Len(checkpoints) = Len(chain) - (IF phase \in {"idle", "stopped"} THEN 0 ELSE 1)
    /\ reorgs \in 0..MaxReorgs
    /\ GuestInv /\ PlaceInv /\ RecordsInv

LEMMA TypeInit == Init => TypeInv
  <1> SUFFICES ASSUME Init PROVE TypeInv
    OBVIOUS
  <1>1. MaxBlocks \in Nat /\ MaxReorgs \in Nat
    BY PipelineAssumption
  <1>2. IsList(checkpoints) /\ IsList(dispatched)
    <2>1. <<>> \in Seq({})
      OBVIOUS
    <2> QED BY <2>1 DEF Init, IsList
  <1>3. GuestInv /\ ~guest.running
    BY DEF Init, GuestInv, NoGuest
  <1>4. PlaceInv
    BY <1>3 DEF Init, PlaceInv
  <1>5. RecordsInv
    BY <1>2 DEF Init, RecordsInv, Empty
  <1>6. chain \in Seq(Blocks) /\ Len(chain) = 0 /\ Len(checkpoints) = 0
    BY DEF Init
  <1> QED BY <1>1, <1>2, <1>3, <1>4, <1>5, <1>6 DEF Init, TypeInv, Empty

LEMMA BlockFacts ==
    ASSUME TypeInv, Busy
    PROVE  /\ Daa \in Nat /\ Daa # 0 /\ Daa \in DOMAIN chain /\ Block \in Blocks
           /\ Hits \in Seq(Detected) /\ Len(Hits) \in Nat /\ Len(Spends) \in Nat
           /\ Spends \in Seq(InputRecords)
  <1>1. /\ chain \in Seq(Blocks) /\ IsList(checkpoints)
        /\ Len(checkpoints) = Len(chain) - 1
    BY DEF TypeInv, Busy
  <1>2. Len(chain) \in Nat /\ Len(checkpoints) \in Nat
    BY <1>1 DEF IsList
  <1>3. Daa \in Nat /\ Daa # 0 /\ Daa \in DOMAIN chain
    BY <1>1, <1>2 DEF Daa
  <1>4. Block \in Blocks
    BY <1>1, <1>3 DEF Block
  <1> QED BY <1>3, <1>4, BlockHits, SpendsAre DEF Hits, Spends

\* Steps of the loop that leave chain, checkpoints and reorganizations alone.
LEMMA Inside ==
    ASSUME TypeInv, UNCHANGED <<mapping, chain, checkpoints, reorgs>>, Busy, Busy',
           DOMAIN utxos' \subseteq Outpoints, DOMAIN spends' \subseteq Tx \X Outpoints,
           GuestInv', PlaceInv', RecordsInv'
    PROVE  TypeInv'
  <1>1. ~(phase \in {"idle", "stopped"}) /\ ~(phase' \in {"idle", "stopped"})
    BY DEF Busy
  <1> QED BY <1>1 DEF TypeInv

LEMMA CommitTypes ==
    ASSUME TypeInv, NEW block \in Blocks, Commit(block)
    PROVE  TypeInv'
  <1>1. /\ chain \in Seq(Blocks) /\ Len(chain) \in Nat /\ MaxBlocks \in Nat
        /\ Len(chain) < MaxBlocks
    BY PipelineAssumption DEF TypeInv, Commit
  <1>2. /\ chain' \in Seq(Blocks) /\ Len(chain') = Len(chain) + 1
        /\ Len(chain') <= MaxBlocks /\ DOMAIN chain \subseteq DOMAIN chain'
        /\ chain'[Len(chain')] = block
    BY <1>1 DEF Commit
  <1>3. Hits' = HitsOf[block] /\ Len(Hits') \in Nat
    BY <1>2, BlockHits DEF Hits, Block, Daa
  <1>4. ~guest.running /\ guest' = guest
    BY DEF TypeInv, PlaceInv, Commit
  <1>5. GuestInv'
    BY <1>4 DEF TypeInv, GuestInv
  <1>6. PlaceInv'
    BY <1>3, <1>4 DEF PlaceInv, Commit
  <1>7. RecordsInv'
    <2>1. IsList(dispatched')
      <3>1. <<>> \in Seq({})
        OBVIOUS
      <3> QED BY <3>1 DEF Commit, IsList
    <2>2. dispatched' = <<>> /\ UNCHANGED versions
      BY DEF Commit, tables
    <2> QED BY <1>2, <2>1, <2>2 DEF TypeInv, RecordsInv
  <1>8. Len(checkpoints') = Len(chain') - 1
    BY <1>1, <1>2 DEF TypeInv, Commit
  <1>9. Busy' /\ ~(phase' \in {"idle", "stopped"})
    BY DEF Commit, Busy
  <1> QED BY <1>2, <1>5, <1>6, <1>7, <1>8, <1>9 DEF TypeInv, Commit, tables

LEMMA HandleHitTypes ==
    ASSUME TypeInv, HandleHit
    PROVE  TypeInv'
  <1>1. Busy /\ Busy' /\ phase = "hits" /\ phase' = "hits" /\ ~guest.running
    BY DEF HandleHit, Busy, TypeInv, PlaceInv
  <1>2. /\ UNCHANGED <<mapping, chain, spends, versions, checkpoints, dispatched, guest, reorgs>>
        /\ at' = at + 1 /\ at <= Len(Hits) /\ at \in Nat \ {0}
    BY DEF HandleHit, TypeInv, PlaceInv
  <1>3. Hits' = Hits /\ Daa' = Daa
    BY <1>2 DEF Hits, Block, Daa
  <1>4. Hits[at] \in Detected
    BY <1>1, <1>2, BlockFacts
  <1>5. <<Hits[at].tx, Hits[at].index>> \in Outpoints
    BY <1>4 DEF Detected, HitAt, Hit, Outpoints
  <1>6. DOMAIN utxos' \subseteq Outpoints
    <2>1. CASE mapping = Unmapped
      BY <2>1 DEF HandleHit, TypeInv
    <2>2. CASE mapping # Unmapped
      <3> DEFINE row == [daa |-> Daa, kind |-> Hits[at].kind,
                         covenant |-> CovenantOf(Hits[at], utxos), state |-> Hits[at].payload]
      <3>1. utxos' = Put(utxos, <<Hits[at].tx, Hits[at].index>>, row)
        BY <2>2 DEF HandleHit, Tracked
      <3> HIDE DEF row
      <3>2. DOMAIN utxos' = {<<Hits[at].tx, Hits[at].index>>} \cup DOMAIN utxos
        BY <3>1 DEF Put
      <3> QED BY <1>5, <3>2 DEF TypeInv
    <2> QED BY <2>1, <2>2
  <1>7. PlaceInv'
    <2>1. Len(Hits) \in Nat
      BY <1>1, BlockFacts
    <2> QED BY <1>1, <1>2, <1>3, <2>1 DEF PlaceInv
  <1>8. RecordsInv'
    BY <1>1, <1>2, <1>3 DEF TypeInv, RecordsInv
  <1>9. GuestInv'
    BY <1>2 DEF TypeInv, GuestInv
  <1> QED BY <1>1, <1>2, <1>6, <1>7, <1>8, <1>9, Inside DEF TypeInv

LEMMA ListExtends ==
    ASSUME NEW s, NEW t, IsList(s), IsList(t)
    PROVE  /\ IsList(s \o t)
           /\ \A i \in DOMAIN (s \o t) :
                (\E j \in DOMAIN s : (s \o t)[i] = s[j]) \/ (\E j \in DOMAIN t : (s \o t)[i] = t[j])
  <1>1. PICK S, T : s \in Seq(S) /\ t \in Seq(T)
    BY DEF IsList
  <1>2. PICK U : U = S \cup T
    OBVIOUS
  <1>3. s \in Seq(U) /\ t \in Seq(U)
    BY <1>1, <1>2
  <1>4. s \o t \in Seq(U) /\ Range(s \o t) = Range(s) \cup Range(t)
    BY <1>3, ConcatHolds
  <1>5. ASSUME NEW i \in DOMAIN (s \o t)
        PROVE  (\E j \in DOMAIN s : (s \o t)[i] = s[j]) \/ (\E j \in DOMAIN t : (s \o t)[i] = t[j])
    <2>1. (s \o t)[i] \in Range(s \o t)
      BY DEF Range
    <2>2. (s \o t)[i] \in Range(s) \/ (s \o t)[i] \in Range(t)
      BY <1>4, <2>1
    <2> QED BY <2>2 DEF Range
  <1> QED BY <1>4, <1>5 DEF IsList

LEMMA StampedTypes ==
    ASSUME NEW ops, IsList(ops), NEW daa
    PROVE  /\ IsList(Stamped(ops, daa))
           /\ \A i \in DOMAIN Stamped(ops, daa) : Stamped(ops, daa)[i].daa = daa
  <1>1. PICK n \in Nat : DOMAIN ops = 1..n
    BY DEF IsList
  <1>2. PICK s : s = Stamped(ops, daa)
    OBVIOUS
  <1>3. DOMAIN s = 1..n /\ s = [i \in 1..n |-> s[i]]
    BY <1>1, <1>2 DEF Stamped
  <1>4. PICK S : S = {s[i] : i \in 1..n}
    OBVIOUS
  <1>5. s \in [1..n -> S]
    BY <1>3, <1>4
  <1>6. s \in Seq(S)
    BY <1>5
  <1>7. \A i \in DOMAIN s : s[i].daa = daa
    BY <1>2 DEF Stamped
  <1> QED BY <1>2, <1>6, <1>7 DEF IsList

\* The versions after records of one block were written.
LEMMA UpsertKeys ==
    ASSUME NEW table, NEW records, NEW daa, \A i \in DOMAIN records : records[i].daa = daa
    PROVE  \A k \in DOMAIN Upsert(table, records) : k \in DOMAIN table \/ k[2] = daa
  <1>1. DOMAIN Upsert(table, records) = {<<r.entity, r.daa>> : r \in Range(records)} \cup DOMAIN table
    BY DEF Upsert
  <1>2. \A r \in Range(records) : <<r.entity, r.daa>>[2] = daa
    BY DEF Range
  <1> QED BY <1>1, <1>2

LEMMA EmittedTypes ==
    ASSUME TypeInv, guest.running
    PROVE  IsList(Emitted)
  <1>1. <<>> \in Seq({})
    OBVIOUS
  <1>2. guest # NoGuest
    BY DEF NoGuest
  <1> QED BY <1>1, <1>2 DEF TypeInv, GuestInv, Emitted, IsList

LEMMA InstanceTypes ==
    ASSUME NEW handler, NEW event
    PROVE  LET g == Instantiate(handler, event)
           IN  /\ DOMAIN g = GuestFields /\ g.running = TRUE
               /\ g.fuel \in 0..Fuel /\ IsList(g.ops)
  <1>1. <<>> \in Seq({}) /\ Fuel \in 0..Fuel
    BY PipelineAssumption
  <1> QED BY <1>1 DEF Instantiate, GuestFields, IsList

\* The step from the locked part to the spends or the checkpoint.
LEMMA ToSpendsPlace ==
    ASSUME TypeInv, Busy, ToSpends, UNCHANGED <<chain, utxos, guest>>, ~guest.running
    PROVE  Busy' /\ PlaceInv' /\ phase' \notin {"hits", "locked"}
  <1>1. at' = 1 /\ phase' \in {"spends", "checkpoint"}
    BY DEF ToSpends
  <1>2. Len(Spends') \in Nat
    <2>1. Spends' = Spends
      BY DEF Spends, Block, Daa
    <2> QED BY <2>1, BlockFacts
  <1>3. phase' \notin {"hits", "locked"} /\ Busy'
    BY <1>1 DEF Busy
  <1>4. 1 <= Len(Spends') + 1
    BY <1>2
  <1> QED BY <1>1, <1>3, <1>4 DEF PlaceInv

LEMMA HitsHandledTypes ==
    ASSUME TypeInv, HitsHandled
    PROVE  TypeInv'
  <1>1. Busy /\ phase = "hits" /\ ~guest.running
    BY DEF HitsHandled, Busy, TypeInv, PlaceInv
  <1>2. UNCHANGED <<mapping, chain, utxos, spends, versions, checkpoints, dispatched, guest, reorgs>>
    BY DEF HitsHandled
  <1>3. GuestInv'
    BY <1>2 DEF TypeInv, GuestInv
  <1>4. Busy' /\ PlaceInv' /\ phase' \in {"locked", "spends", "checkpoint"}
    <2>1. CASE phase' = "locked" /\ at' = 1
      <3>1. Hits' = Hits /\ Len(Hits) \in Nat
        BY <1>1, <1>2, BlockFacts DEF Hits, Block, Daa
      <3>2. 1 <= Len(Hits') + 1
        BY <3>1
      <3> QED BY <1>1, <1>2, <2>1, <3>2 DEF PlaceInv, Busy
    <2>2. CASE ToSpends
      BY <1>1, <1>2, <2>2, ToSpendsPlace DEF Busy
    <2> QED BY <2>1, <2>2 DEF HitsHandled
  <1>5. RecordsInv'
    BY <1>1, <1>2 DEF TypeInv, RecordsInv, Daa
  <1> QED BY <1>1, <1>2, <1>3, <1>4, <1>5, Inside DEF TypeInv

LEMMA DispatchLockedTypes ==
    ASSUME TypeInv, DispatchLocked
    PROVE  TypeInv'
  <1>1. Busy /\ Busy' /\ phase = "locked" /\ phase' = "locked" /\ ~guest.running
    BY DEF DispatchLocked, Busy
  <1>2. /\ UNCHANGED <<mapping, chain, utxos, spends, versions, checkpoints, dispatched, reorgs>>
        /\ at \in Nat \ {0} /\ at <= Len(Hits)
    BY DEF DispatchLocked, TypeInv, PlaceInv, tables
  <1>3. Hits' = Hits /\ Daa' = Daa /\ Len(Hits) \in Nat
    BY <1>1, <1>2, BlockFacts DEF Hits, Block, Daa
  <1>4. \/ at' = at + 1 /\ guest' = guest
        \/ at' = at /\ \E handler, event : guest' = Instantiate(handler, event)
    BY DEF DispatchLocked
  <1>5. GuestInv'
    BY <1>4, InstanceTypes DEF TypeInv, GuestInv
  <1>6. PlaceInv'
    BY <1>1, <1>2, <1>3, <1>4 DEF PlaceInv
  <1>7. RecordsInv'
    BY <1>1, <1>2, <1>3 DEF TypeInv, RecordsInv
  <1> QED BY <1>1, <1>2, <1>5, <1>6, <1>7, Inside DEF TypeInv

\* What the guest does, and that it returns.
LEMMA GuestTypes ==
    ASSUME TypeInv, Return \/ \E call \in Calls : HostCall(call)
    PROVE  TypeInv'
  <1>1. /\ UNCHANGED <<mapping, chain, utxos, spends, versions, checkpoints, dispatched, reorgs>>
        /\ UNCHANGED <<phase, at>> /\ guest.running
    BY DEF Return, HostCall, Running, tables
  <1>2. Busy /\ Busy' /\ ~(phase = "hits")
    BY <1>1 DEF TypeInv, PlaceInv, Busy
  <1>3. /\ DOMAIN guest = GuestFields /\ guest.running = TRUE
        /\ guest.fuel \in 0..Fuel /\ IsList(guest.ops)
    BY <1>1 DEF TypeInv, GuestInv, NoGuest
  <1>4. /\ DOMAIN guest' = GuestFields /\ guest'.running = TRUE
        /\ guest'.fuel \in 0..Fuel /\ IsList(guest'.ops)
    <2>1. CASE Return
      BY <1>3, <2>1 DEF Return, GuestFields
    <2>2. CASE \E call \in Calls : HostCall(call)
      <3>1. PICK call \in Calls : HostCall(call)
        BY <2>2
      <3>2. CASE guest.fuel = 0
        BY <1>3, <3>1, <3>2 DEF HostCall, GuestFields
      <3>3. CASE guest.fuel # 0
        <4> DEFINE g == [guest EXCEPT !.fuel = @ - 1]
        <4>1. Fuel \in Nat
          BY PipelineAssumption
        <4>2. DOMAIN g = GuestFields /\ g.running = TRUE /\ g.ops = guest.ops /\ g.fuel \in 0..Fuel
          BY <1>3, <3>3, <4>1 DEF GuestFields
        <4>3. guest' =
                CASE call.call = "get" ->
                        [g EXCEPT !.step = @ + 1, !.seen = ReadEntity(snapshot, call.entity)]
                  [] call.call = "set" ->
                        [g EXCEPT !.step = @ + 1,
                                  !.ops = Append(@, Op(call.entity, Append(g.seen, g.event)))]
                  [] call.call = "loop" -> g
                  [] OTHER -> [g EXCEPT !.outcome = "failed"]
          BY <3>1, <3>3 DEF HostCall
        <4> HIDE DEF g
        <4>4. \A x : IsList(Append(g.ops, x))
          <5>1. PICK S : g.ops \in Seq(S)
            BY <1>3, <4>2 DEF IsList
          <5>2. \A x : Append(g.ops, x) \in Seq(S \cup {x})
            BY <5>1
          <5> QED BY <5>2 DEF IsList
        <4>5. CASE call.call = "get"
          BY <1>3, <4>2, <4>3, <4>5 DEF GuestFields
        <4>6. CASE call.call = "set"
          BY <4>2, <4>3, <4>4, <4>6 DEF GuestFields
        <4>7. CASE call.call = "loop"
          BY <1>3, <4>2, <4>3, <4>7
        <4>8. CASE call.call \notin {"get", "set", "loop"}
          BY <1>3, <4>2, <4>3, <4>8 DEF GuestFields
        <4> QED BY <4>5, <4>6, <4>7, <4>8
      <3> QED BY <3>2, <3>3
    <2> QED BY <2>1, <2>2
  <1>5. Hits' = Hits /\ Spends' = Spends /\ Daa' = Daa
    BY <1>1 DEF Hits, Spends, Block, Daa
  <1>6. PlaceInv' /\ RecordsInv'
    BY <1>1, <1>4, <1>5 DEF TypeInv, PlaceInv, RecordsInv
  <1> QED BY <1>1, <1>2, <1>4, <1>6, Inside DEF TypeInv, GuestInv

LEMMA LockedDispatchedTypes ==
    ASSUME TypeInv, LockedDispatched
    PROVE  TypeInv'
  <1>1. Busy /\ Busy' /\ phase = "locked" /\ phase' = "locked" /\ guest.running
    BY DEF LockedDispatched, Busy, Returned, Failed
  <1>2. /\ UNCHANGED <<mapping, chain, utxos, spends, versions, checkpoints, reorgs>>
        /\ at \in Nat \ {0} /\ at <= Len(Hits) /\ at' = at + 1 /\ guest' = NoGuest
    BY <1>1 DEF LockedDispatched, TypeInv, PlaceInv, tables
  <1>3. Hits' = Hits /\ Daa' = Daa /\ Len(Hits) \in Nat
    BY <1>1, <1>2, BlockFacts DEF Hits, Block, Daa
  <1>4. GuestInv' /\ ~guest'.running
    BY <1>2 DEF GuestInv, NoGuest
  <1>5. PlaceInv'
    BY <1>1, <1>2, <1>3, <1>4 DEF PlaceInv
  <1>6. /\ IsList(dispatched')
        /\ \A i \in DOMAIN dispatched' : dispatched'[i].daa = Daa
    <2>1. PICK stamped : stamped = Stamped(Emitted, Daa)
      OBVIOUS
    <2>2. IsList(stamped) /\ \A i \in DOMAIN stamped : stamped[i].daa = Daa
      BY <1>1, <2>1, EmittedTypes, StampedTypes
    <2>3. dispatched' = dispatched \o stamped
      BY <2>1 DEF LockedDispatched
    <2>4. IsList(dispatched) /\ \A i \in DOMAIN dispatched : dispatched[i].daa = Daa
      BY <1>1 DEF TypeInv, RecordsInv
    <2> QED BY <2>2, <2>3, <2>4, ListExtends
  <1>7. RecordsInv'
    BY <1>1, <1>2, <1>3, <1>6 DEF TypeInv, RecordsInv
  <1> QED BY <1>1, <1>2, <1>4, <1>5, <1>7, Inside DEF TypeInv

LEMMA StoreDispatchedTypes ==
    ASSUME TypeInv, StoreDispatched
    PROVE  TypeInv'
  <1>1. Busy /\ phase = "locked"
    BY DEF StoreDispatched, Busy
  <1>2. UNCHANGED <<mapping, chain, utxos, spends, checkpoints, dispatched, guest, reorgs>>
    BY DEF StoreDispatched
  <1>3. ~guest.running
    <2>1. at > Len(Hits) /\ at \in Nat /\ Len(Hits) \in Nat
      BY <1>1, BlockFacts DEF StoreDispatched, TypeInv, PlaceInv
    <2>2. ~(at <= Len(Hits))
      BY <2>1
    <2> QED BY <1>1, <2>2 DEF TypeInv, PlaceInv
  <1>4. Busy' /\ PlaceInv' /\ phase' \notin {"hits", "locked"}
    BY <1>1, <1>2, <1>3, ToSpendsPlace DEF StoreDispatched
  <1>5. Daa \in DOMAIN chain
    BY <1>1, BlockFacts
  <1>6. \A k \in DOMAIN versions' : k \in DOMAIN versions \/ k[2] = Daa
    <2>1. \A i \in DOMAIN dispatched : dispatched[i].daa = Daa
      BY <1>1 DEF TypeInv, RecordsInv
    <2>2. versions' = Upsert(versions, dispatched)
      BY DEF StoreDispatched
    <2> QED BY <2>1, <2>2, UpsertKeys
  <1>7. RecordsInv'
    BY <1>2, <1>4, <1>5, <1>6 DEF TypeInv, RecordsInv
  <1>8. GuestInv'
    BY <1>2 DEF TypeInv, GuestInv
  <1> QED BY <1>1, <1>2, <1>4, <1>7, <1>8, Inside DEF TypeInv

LEMMA DispatchSpendTypes ==
    ASSUME TypeInv, DispatchSpend
    PROVE  TypeInv'
  <1>1. Busy /\ Busy' /\ phase = "spends" /\ phase' = "spends" /\ ~guest.running
    BY DEF DispatchSpend, Busy
  <1>2. /\ UNCHANGED <<mapping, chain, utxos, versions, checkpoints, dispatched, reorgs>>
        /\ at \in Nat \ {0} /\ at <= Len(Spends)
    BY DEF DispatchSpend, TypeInv, PlaceInv
  <1>3. Spends' = Spends /\ Daa' = Daa /\ Len(Spends) \in Nat
    BY <1>1, <1>2, BlockFacts DEF Spends, Block, Daa
  <1>4. \/ at' = at + 1 /\ guest' = guest
        \/ at' = at /\ \E handler, event : guest' = Instantiate(handler, event)
    BY DEF DispatchSpend
  <1>5. GuestInv'
    BY <1>4, InstanceTypes DEF TypeInv, GuestInv
  <1>6. PlaceInv'
    BY <1>1, <1>2, <1>3, <1>4 DEF PlaceInv
  <1>7. RecordsInv'
    BY <1>1, <1>2, <1>3 DEF TypeInv, RecordsInv
  <1>8. DOMAIN spends' \subseteq Tx \X Outpoints
    <2>1. Spends[at] \in InputRecords
      BY <1>1, <1>2, <1>3, BlockFacts
    <2>2. PICK row : spends' = Put(spends, SpendKey(Spends[at]), row)
      BY DEF DispatchSpend
    <2>3. DOMAIN spends' = {SpendKey(Spends[at])} \cup DOMAIN spends
      BY <2>2 DEF Put
    <2>4. SpendKey(Spends[at]) \in Tx \X Outpoints
      BY <2>1 DEF InputRecords, SpendKey
    <2> QED BY <2>3, <2>4 DEF TypeInv
  <1> QED BY <1>1, <1>2, <1>5, <1>6, <1>7, <1>8, Inside DEF TypeInv

LEMMA SpendDispatchedTypes ==
    ASSUME TypeInv, SpendDispatched
    PROVE  TypeInv'
  <1>1. Busy /\ Busy' /\ phase = "spends" /\ phase' = "spends" /\ guest.running
    BY DEF SpendDispatched, Busy, Returned, Failed
  <1>2. /\ UNCHANGED <<mapping, chain, utxos, spends, checkpoints, dispatched, reorgs>>
        /\ at \in Nat \ {0} /\ at <= Len(Spends) /\ at' = at + 1 /\ guest' = NoGuest
    BY <1>1 DEF SpendDispatched, TypeInv, PlaceInv
  <1>3. Spends' = Spends /\ Daa' = Daa /\ Len(Spends) \in Nat /\ Daa \in DOMAIN chain
    BY <1>1, <1>2, BlockFacts DEF Spends, Block, Daa
  <1>4. GuestInv' /\ ~guest'.running
    BY <1>2 DEF GuestInv, NoGuest
  <1>5. PlaceInv'
    BY <1>1, <1>2, <1>3, <1>4 DEF PlaceInv
  <1>6. \A k \in DOMAIN versions' : k \in DOMAIN versions \/ k[2] = Daa
    <2>1. PICK stamped : stamped = Stamped(Emitted, Daa)
      OBVIOUS
    <2>2. \A i \in DOMAIN stamped : stamped[i].daa = Daa
      BY <1>1, <2>1, EmittedTypes, StampedTypes
    <2>3. versions' = Upsert(versions, stamped)
      BY <2>1 DEF SpendDispatched
    <2> QED BY <2>2, <2>3, UpsertKeys
  <1>7. RecordsInv'
    BY <1>1, <1>2, <1>3, <1>6 DEF TypeInv, RecordsInv
  <1> QED BY <1>1, <1>2, <1>4, <1>5, <1>7, Inside DEF TypeInv

LEMMA SpendsHandledTypes ==
    ASSUME TypeInv, SpendsHandled
    PROVE  TypeInv'
  <1>1. Busy /\ Busy' /\ phase = "spends" /\ phase' = "checkpoint"
    BY DEF SpendsHandled, Busy
  <1>2. UNCHANGED <<mapping, chain, utxos, spends, versions, checkpoints, at, dispatched, guest, reorgs>>
    BY DEF SpendsHandled, handling, tables
  <1>3. ~guest.running
    <2>1. at > Len(Spends) /\ at \in Nat /\ Len(Spends) \in Nat
      BY <1>1, BlockFacts DEF SpendsHandled, TypeInv, PlaceInv
    <2>2. ~(at <= Len(Spends))
      BY <2>1
    <2> QED BY <1>1, <2>2 DEF TypeInv, PlaceInv
  <1>4. PlaceInv' /\ GuestInv' /\ RecordsInv'
    BY <1>1, <1>2, <1>3 DEF TypeInv, PlaceInv, GuestInv, RecordsInv
  <1> QED BY <1>1, <1>2, <1>4, Inside DEF TypeInv

LEMMA CheckpointTypes ==
    ASSUME TypeInv, Checkpoint
    PROVE  TypeInv'
  <1>1. phase = "checkpoint" /\ phase' = "idle"
    BY DEF Checkpoint
  <1>2. UNCHANGED <<mapping, chain, utxos, spends, versions, at, dispatched, guest, reorgs>>
    BY DEF Checkpoint, handling, tables
  <1>3. ~guest.running
    BY <1>1 DEF TypeInv, PlaceInv
  <1>4. PlaceInv' /\ GuestInv' /\ RecordsInv'
    BY <1>1, <1>2, <1>3 DEF TypeInv, PlaceInv, GuestInv, RecordsInv
  <1>5. PICK S : checkpoints \in Seq(S)
    BY DEF TypeInv, IsList
  <1>6. checkpoints' \in Seq(S \cup {PoiInput}) /\ Len(checkpoints') = Len(checkpoints) + 1
    BY <1>5 DEF Checkpoint
  <1>7. Len(checkpoints) = Len(chain) - 1 /\ Len(checkpoints) \in Nat /\ Len(chain) \in Nat
    BY <1>1, <1>5 DEF TypeInv
  <1>8. Len(checkpoints') = Len(chain') - (IF phase' \in {"idle", "stopped"} THEN 0 ELSE 1)
    BY <1>1, <1>2, <1>6, <1>7
  <1> QED BY <1>1, <1>2, <1>4, <1>6, <1>8 DEF TypeInv, IsList

LEMMA UnwindTypes ==
    ASSUME TypeInv, NEW from \in DOMAIN chain, Unwind(from)
    PROVE  TypeInv'
  <1>1. phase = "idle" /\ phase' = "idle" /\ ~guest.running
    BY DEF Unwind, TypeInv, PlaceInv
  <1>2. UNCHANGED <<mapping, at, dispatched, guest>>
    BY DEF Unwind, handling
  <1>3. PlaceInv' /\ GuestInv'
    BY <1>1, <1>2 DEF TypeInv, PlaceInv, GuestInv
  <1>4. PICK S : checkpoints \in Seq(S)
    BY DEF TypeInv, IsList
  <1>5. /\ chain \in Seq(Blocks) /\ Len(chain) \in Nat /\ Len(chain) <= MaxBlocks
        /\ Len(checkpoints) = Len(chain) /\ from \in 1..Len(chain) /\ MaxBlocks \in Nat
    BY <1>1, PipelineAssumption DEF TypeInv
  <1>6. /\ chain' \in Seq(Blocks) /\ Len(chain') = from - 1
        /\ checkpoints' \in Seq(S) /\ Len(checkpoints') = from - 1
    BY <1>4, <1>5 DEF Unwind
  <1>7. Len(checkpoints') = Len(chain') - (IF phase' \in {"idle", "stopped"} THEN 0 ELSE 1)
    BY <1>1, <1>5, <1>6
  <1>8. DOMAIN utxos' \subseteq DOMAIN utxos /\ DOMAIN spends' \subseteq DOMAIN spends
    BY DEF Unwind, UnwindUtxos, UnwindSpends, Restrict
  <1>9. RecordsInv'
    <2>1. DOMAIN versions' = {k \in DOMAIN versions : k[2] < from}
      BY DEF Unwind, UnwindVersions, Restrict
    <2>2. \A k \in DOMAIN versions : k[2] \in 1..Len(chain)
      BY <1>5 DEF TypeInv, RecordsInv
    <2>3. \A k \in DOMAIN versions' : k[2] \in DOMAIN chain'
      BY <1>5, <1>6, <2>1, <2>2
    <2> QED BY <1>1, <1>2, <2>3 DEF TypeInv, RecordsInv
  <1>10. reorgs' \in 0..MaxReorgs
    BY PipelineAssumption DEF TypeInv, Unwind
  <1>11. Len(chain') <= MaxBlocks
    BY <1>5, <1>6
  <1> QED BY <1>1, <1>2, <1>3, <1>6, <1>7, <1>8, <1>9, <1>10, <1>11 DEF TypeInv, IsList

LEMMA TypeStep ==
    ASSUME TypeInv, [Next]_vars
    PROVE  TypeInv'
  <1>1. ASSUME UNCHANGED <<mapping, chain, utxos, spends, versions, checkpoints, at, dispatched, guest, reorgs>>,
               phase' = phase \/ (phase = "idle" /\ phase' = "stopped")
        PROVE  TypeInv'
    <2>1. Hits' = Hits /\ Spends' = Spends /\ Daa' = Daa
      BY <1>1 DEF Hits, Spends, Block, Daa
    <2>2. PlaceInv' /\ GuestInv' /\ RecordsInv'
      BY <1>1, <2>1 DEF TypeInv, PlaceInv, GuestInv, RecordsInv
    <2>3. Busy' <=> Busy
      BY <1>1 DEF Busy
    <2>4. phase' \in {"idle", "stopped"} <=> phase \in {"idle", "stopped"}
      BY <1>1
    <2> QED BY <1>1, <2>2, <2>3, <2>4 DEF TypeInv
  <1>2. CASE \E filters \in Filters : Subscribe(filters)
    BY <1>1, <1>2 DEF Subscribe, tables, handling
  <1>3. CASE Receive \/ ReceiveClosed
    BY <1>1, <1>3 DEF Receive, ReceiveClosed, tables, handling
  <1>4. CASE Stop
    BY <1>1, <1>4 DEF Stop, tables, handling
  <1>5. CASE UNCHANGED vars
    BY <1>1, <1>5 DEF vars, tables, handling
  <1> QED BY <1>2, <1>3, <1>4, <1>5, CommitTypes, HandleHitTypes, HitsHandledTypes,
             DispatchLockedTypes, GuestTypes, LockedDispatchedTypes, StoreDispatchedTypes,
             DispatchSpendTypes, SpendDispatchedTypes, SpendsHandledTypes, CheckpointTypes,
             UnwindTypes
          DEF Next, Step

\* The tables hold what their columns are for, and the loop over a block's hits
\* and inputs (apply_and_persist_notification in main.rs) never looks beyond
\* the last of them, whatever is committed, dispatched and unwound.
THEOREM PipelineTypes == Spec => []TypeOK
  <1>1. TypeInv => TypeOK
    <2> SUFFICES ASSUME TypeInv PROVE TypeOK
      OBVIOUS
    <2>1. Busy => Len(Hits) \in Nat /\ Len(Spends) \in Nat
      BY BlockFacts
    <2>2. phase \in {"hits", "locked"} => at \in 1..(Len(Hits) + 1)
      BY <2>1 DEF TypeInv, PlaceInv, Busy
    <2>3. phase = "spends" => at \in 1..(Len(Spends) + 1)
      BY <2>1 DEF TypeInv, PlaceInv, Busy
    <2>4. guest.running => phase \in {"locked", "spends"} /\ guest.fuel \in 0..Fuel
      BY DEF TypeInv, PlaceInv, GuestInv, NoGuest
    <2>5. phase \in {"idle", "hits", "locked", "spends", "checkpoint", "stopped"}
      BY DEF TypeInv, Busy
    <2> QED BY <2>2, <2>3, <2>4, <2>5 DEF TypeInv, RecordsInv, TypeOK
  <1> QED BY <1>1, TypeInit, TypeStep, PTL DEF Spec

-------------------------------------------------------------------------------
(* The tracker and the spend rows.                                           *)

\* What upstream promises of the chain: a transaction is in one block, and
\* what it spends was created in a block before it.
ChainInv ==
    /\ \A d, e \in DOMAIN chain : \A tx \in Range(chain[d]) : tx \in Range(chain[e]) => d = e
    /\ \A d \in DOMAIN chain : \A tx \in Range(chain[d]) : \A o \in Range(Inputs[tx]) :
        Outputs[o[1]] = <<>> \/ \E e \in DOMAIN chain : e < d /\ o[1] \in Range(chain[e])

\* The hits of a block that went through the tracker.
Handled(d) ==
    IF phase = "hits" /\ d = Daa THEN {Hits[i] : i \in 1..(at - 1)} ELSE OnChainAt(d)

HitRow(table, d, h) ==
    /\ table[Outpoint(h)].daa = d
    /\ OneKind => /\ table[Outpoint(h)].state = h.payload
                  /\ table[Outpoint(h)].kind = h.kind
    /\ table[Outpoint(h)].covenant = CovenantOf(h, table)

UtxoInv ==
    /\ \A o : o \in DOMAIN utxos <=> \E d \in DOMAIN chain : \E h \in Handled(d) : o = Outpoint(h)
    /\ \A d \in DOMAIN chain : \A h \in Handled(d) : HitRow(utxos, d, h)

LEMMA HitFacts ==
    ASSUME chain \in Seq(Blocks), NEW d \in DOMAIN chain, NEW h \in OnChainAt(d)
    PROVE  /\ h.tx \in Range(chain[d]) /\ h.tx \in Tx /\ h \in HitsIn(h.tx)
           /\ Outputs[h.tx] # <<>> /\ Outpoint(h) = <<h.tx, h.index>>
  <1>1. chain[d] \in Blocks
    OBVIOUS
  <1>2. PICK tx \in Range(chain[d]) : h \in HitsIn(tx)
    <2>1. PICK block \in Blocks : block = chain[d]
      BY <1>1
    <2>2. h \in Range(HitsOf[block])
      BY <2>1 DEF OnChainAt
    <2>3. h \in UNION {HitsIn(tx) : tx \in Range(block)}
      BY <2>2, BlockHits
    <2> QED BY <2>1, <2>3
  <1>3. PICK i \in DOMAIN Outputs[tx], k \in DOMAIN Registry : h = HitAt(tx, i, k)
    BY <1>2 DEF HitsIn
  <1>4. h.tx = tx
    BY <1>3 DEF HitAt, Hit
  <1>5. tx \in Tx
    <2>1. chain[d] \in Seq(Tx)
      BY <1>1, PipelineAssumption
    <2> QED BY <2>1 DEF Range
  <1>6. Outputs[tx] # <<>>
    BY <1>3
  <1> QED BY <1>2, <1>4, <1>5, <1>6 DEF Outpoint

LEMMA SameHit ==
    ASSUME OneKind, NEW tx \in Tx, NEW h \in HitsIn(tx), NEW g \in HitsIn(tx), h.index = g.index
    PROVE  h = g
  <1>1. PICK i \in DOMAIN Outputs[tx], k \in DOMAIN Registry :
            h = HitAt(tx, i, k) /\ Matches(Registry[k].matcher, Outputs[tx][i])
    BY DEF HitsIn
  <1>2. PICK j \in DOMAIN Outputs[tx], l \in DOMAIN Registry :
            g = HitAt(tx, j, l) /\ Matches(Registry[l].matcher, Outputs[tx][j])
    BY DEF HitsIn
  <1>3. i \in Nat /\ j \in Nat
    BY <1>1, <1>2, PipelineAssumption
  <1>4. h.index = i - 1 /\ g.index = j - 1
    BY <1>1, <1>2 DEF HitAt, Hit
  <1>5. i = j
    <2>1. i - 1 = j - 1
      BY <1>4
    <2> QED BY <1>3, <2>1
  <1>6. k = l
    BY <1>1, <1>2, <1>5 DEF OneKind
  <1> QED BY <1>1, <1>2, <1>5, <1>6

\* What a transaction of the chain spends was created in a block before it.
LEMMA Elsewhere ==
    ASSUME chain \in Seq(Blocks), ChainInv, NEW d \in DOMAIN chain, NEW e \in DOMAIN chain,
           NEW tx \in Range(chain[d]), NEW h \in OnChainAt(e), Outpoint(h) \in Range(Inputs[tx])
    PROVE  e < d
  <1>1. h.tx \in Range(chain[e]) /\ Outputs[h.tx] # <<>> /\ Outpoint(h)[1] = h.tx
    BY HitFacts DEF Outpoint
  <1>2. PICK f \in DOMAIN chain : f < d /\ h.tx \in Range(chain[f])
    BY <1>1 DEF ChainInv
  <1>3. f = e
    BY <1>1, <1>2 DEF ChainInv
  <1> QED BY <1>2, <1>3

LEMMA HandledHere ==
    ASSUME TypeInv, NEW d \in DOMAIN chain
    PROVE  Handled(d) \subseteq OnChainAt(d)
  <1>1. CASE phase = "hits" /\ d = Daa
    <2>1. Busy /\ at \in Nat /\ at <= Len(Hits) + 1
      BY <1>1 DEF Busy, TypeInv, PlaceInv
    <2>2. Hits \in Seq(Detected) /\ Len(Hits) \in Nat
      BY <2>1, BlockFacts
    <2>3. \A i \in 1..(at - 1) : Hits[i] \in Range(Hits)
      BY <2>1, <2>2 DEF Range
    <2>4. OnChainAt(d) = Range(Hits)
      BY <1>1 DEF OnChainAt, Hits, Block
    <2> QED BY <1>1, <2>3, <2>4 DEF Handled
  <1>2. CASE ~(phase = "hits" /\ d = Daa)
    BY <1>2 DEF Handled
  <1> QED BY <1>1, <1>2

\* The covenant of an output depends on the rows of what its transaction spends.
LEMMA CovenantAgrees ==
    ASSUME NEW hit, hit.tx \in Tx, NEW t, NEW u,
           \A o \in Range(Inputs[hit.tx]) :
                /\ o \in DOMAIN t <=> o \in DOMAIN u
                /\ o \in DOMAIN t => t[o].covenant = u[o].covenant
    PROVE  CovenantOf(hit, t) = CovenantOf(hit, u)
  <1> DEFINE inputs == Inputs[hit.tx]
             at1 == {i \in DOMAIN inputs : inputs[i] \in DOMAIN t}
             at2 == {i \in DOMAIN inputs : inputs[i] \in DOMAIN u}
  <1>1. \A i \in DOMAIN inputs : inputs[i] \in Range(inputs)
    BY DEF Range
  <1>2. at1 = at2
    BY <1>1
  <1>3. /\ CovenantOf(hit, t) = IF at1 = {} THEN <<hit.tx, hit.index>> ELSE t[inputs[Min(at1)]].covenant
        /\ CovenantOf(hit, u) = IF at2 = {} THEN <<hit.tx, hit.index>> ELSE u[inputs[Min(at2)]].covenant
    BY DEF CovenantOf
  <1>4. CASE at1 = {}
    BY <1>2, <1>3, <1>4, SMTT(30)
  <1>5. CASE at1 # {}
    <2>1. inputs \in Seq(Outpoints)
      BY PipelineAssumption
    <2>2. at1 \subseteq Nat
      BY <2>1
    <2>3. Min(at1) \in at1
      BY <1>5, <2>2, MinIs
    <2>4. t[inputs[Min(at1)]].covenant = u[inputs[Min(at1)]].covenant
      BY <1>1, <2>3
    <2> QED BY <1>2, <1>3, <1>5, <2>4
  <1> QED BY <1>4, <1>5

\* A hit is recorded in the block it is in, and no block before saw its output.
LEMMA HitRowStays ==
    ASSUME TypeInv, ChainInv, NEW d \in DOMAIN chain, NEW h \in OnChainAt(d), NEW table,
           HitRow(utxos, d, h), Outpoint(h) \in DOMAIN utxos,
           table[Outpoint(h)] = utxos[Outpoint(h)],
           \A o \in Range(Inputs[h.tx]) :
                /\ o \in DOMAIN utxos <=> o \in DOMAIN table
                /\ o \in DOMAIN utxos => utxos[o].covenant = table[o].covenant
    PROVE  HitRow(table, d, h)
  <1>1. h.tx \in Tx
    BY HitFacts DEF TypeInv
  <1>2. CovenantOf(h, utxos) = CovenantOf(h, table)
    BY <1>1, CovenantAgrees
  <1> QED BY <1>2 DEF HitRow

LEMMA ChainFrame == ASSUME ChainInv, UNCHANGED chain PROVE ChainInv'
  BY DEF ChainInv

LEMMA CommitChain ==
    ASSUME TypeInv, ChainInv, NEW block \in Blocks, Commit(block)
    PROVE  /\ ChainInv' /\ Daa \in Nat /\ Daa' = Daa + 1 /\ chain'[Daa'] = block
           /\ DOMAIN chain' = DOMAIN chain \cup {Daa'} /\ Daa' \notin DOMAIN chain
           /\ \A d \in DOMAIN chain : chain'[d] = chain[d] /\ d < Daa'
  <1>1. chain \in Seq(Blocks) /\ Len(chain) \in Nat /\ chain' = Append(chain, block)
    BY DEF TypeInv, Commit
  <1>2. PICK n \in Nat : n = Len(chain)
    BY <1>1
  <1>3. /\ DOMAIN chain = 1..n /\ Len(chain') = n + 1 /\ DOMAIN chain' = 1..(n + 1)
        /\ chain'[n + 1] = block /\ \A d \in 1..n : chain'[d] = chain[d]
    BY <1>1, <1>2
  <1>4. /\ Daa = n /\ Daa' = n + 1
        /\ DOMAIN chain' = DOMAIN chain \cup {n + 1} /\ n + 1 \notin DOMAIN chain
        /\ \A d \in DOMAIN chain : d < n + 1
    BY <1>2, <1>3 DEF Daa
  <1>5. \A tx \in Range(block) : \A d \in DOMAIN chain : tx \notin Range(chain[d])
    BY DEF Commit, OnChain
  <1>6. \A tx \in Range(block) : \A o \in Range(Inputs[tx]) :
            Outputs[o[1]] = <<>> \/ \E e \in DOMAIN chain : o[1] \in Range(chain[e])
    BY DEF Commit, OnChain
  <1>7. \A d, e \in DOMAIN chain' : \A tx \in Range(chain'[d]) : tx \in Range(chain'[e]) => d = e
    <2> SUFFICES ASSUME NEW d \in DOMAIN chain', NEW e \in DOMAIN chain', NEW tx,
                        tx \in Range(chain'[d]), tx \in Range(chain'[e])
                 PROVE  d = e
      OBVIOUS
    <2>1. CASE d = n + 1 /\ e \in DOMAIN chain
      BY <1>3, <1>4, <1>5, <2>1
    <2>2. CASE e = n + 1 /\ d \in DOMAIN chain
      BY <1>3, <1>4, <1>5, <2>2
    <2>3. CASE d \in DOMAIN chain /\ e \in DOMAIN chain
      BY <1>3, <2>3 DEF ChainInv
    <2>4. CASE d = n + 1 /\ e = n + 1
      BY <2>4
    <2> QED BY <1>4, <2>1, <2>2, <2>3, <2>4
  <1>8. ASSUME NEW d \in DOMAIN chain', NEW tx \in Range(chain'[d]), NEW o \in Range(Inputs[tx])
        PROVE  Outputs[o[1]] = <<>> \/ \E e \in DOMAIN chain' : e < d /\ o[1] \in Range(chain'[e])
    <2>1. CASE d = n + 1
      <3>1. Outputs[o[1]] = <<>> \/ \E e \in DOMAIN chain : o[1] \in Range(chain[e])
        BY <1>3, <1>6, <2>1
      <3> QED BY <1>3, <1>4, <2>1, <3>1
    <2>2. CASE d \in DOMAIN chain
      <3>1. Outputs[o[1]] = <<>> \/ \E e \in DOMAIN chain : e < d /\ o[1] \in Range(chain[e])
        BY <1>3, <2>2 DEF ChainInv
      <3> QED BY <1>3, <1>4, <3>1
    <2> QED BY <1>4, <2>1, <2>2
  <1>9. ChainInv'
    BY <1>7, <1>8 DEF ChainInv
  <1> QED BY <1>3, <1>4, <1>9

LEMMA UnwindChain ==
    ASSUME TypeInv, ChainInv, NEW from \in DOMAIN chain, Unwind(from)
    PROVE  /\ ChainInv' /\ \A d : d \in DOMAIN chain' <=> d \in DOMAIN chain /\ d < from
           /\ \A d \in DOMAIN chain' : chain'[d] = chain[d]
           /\ \A d \in DOMAIN chain : d \in Nat
           /\ from \in Nat
  <1>1. chain \in Seq(Blocks) /\ Len(chain) \in Nat /\ chain' = SubSeq(chain, 1, from - 1)
    BY DEF TypeInv, Unwind
  <1>2. PICK n \in Nat : n = Len(chain)
    BY <1>1
  <1>3. /\ DOMAIN chain = 1..n /\ from \in 1..n /\ DOMAIN chain' = 1..(from - 1)
        /\ \A d \in 1..(from - 1) : chain'[d] = chain[d]
    BY <1>1, <1>2
  <1>4. \A d : d \in DOMAIN chain' <=> d \in DOMAIN chain /\ d < from
    <2>1. \A d : d \in 1..(from - 1) <=> d \in 1..n /\ d < from
      BY <1>3
    <2> QED BY <1>3, <2>1
  <1>5. \A d \in DOMAIN chain' : d \in DOMAIN chain /\ chain'[d] = chain[d] /\ d < from
    BY <1>3, <1>4
  <1>6. \A d, e \in DOMAIN chain' : \A tx \in Range(chain'[d]) : tx \in Range(chain'[e]) => d = e
    BY <1>5 DEF ChainInv
  <1>7. ASSUME NEW d \in DOMAIN chain', NEW tx \in Range(chain'[d]), NEW o \in Range(Inputs[tx])
        PROVE  Outputs[o[1]] = <<>> \/ \E e \in DOMAIN chain' : e < d /\ o[1] \in Range(chain'[e])
    <2>1. Outputs[o[1]] = <<>> \/ \E e \in DOMAIN chain : e < d /\ o[1] \in Range(chain[e])
      BY <1>5 DEF ChainInv
    <2>2. ASSUME NEW e \in DOMAIN chain, e < d PROVE e \in DOMAIN chain'
      <3>1. e < from
        BY <1>3, <1>5, <2>2
      <3> QED BY <1>4, <3>1
    <2> QED BY <1>5, <2>1, <2>2
  <1> QED BY <1>3, <1>4, <1>5, <1>6, <1>7 DEF ChainInv

-------------------------------------------------------------------------------
(* The steps of the loop, for the tracker and the spend rows.                *)

\* Steps that leave the tracker and the progress through the hits alone.
LEMMA UtxoFrame ==
    ASSUME UtxoInv, UNCHANGED <<chain, utxos>>, \A d \in DOMAIN chain : Handled(d)' = Handled(d)
    PROVE  UtxoInv'
  <1>1. \A o : o \in DOMAIN utxos' <=> \E d \in DOMAIN chain' : \E h \in Handled(d)' : o = Outpoint(h)
    BY DEF UtxoInv
  <1>2. \A d \in DOMAIN chain' : \A h \in Handled(d)' : HitRow(utxos', d, h)
    BY DEF UtxoInv
  <1> QED BY <1>1, <1>2 DEF UtxoInv

LEMMA CommitUtxos ==
    ASSUME TypeInv, ChainInv, UtxoInv, NEW block \in Blocks, Commit(block)
    PROVE  UtxoInv'
  <1>1. UNCHANGED utxos /\ phase = "idle" /\ phase' = "hits" /\ at' = 1
    BY DEF Commit, tables
  <1>2. \A d \in DOMAIN chain : Handled(d)' = Handled(d)
    BY <1>1, CommitChain DEF Handled, OnChainAt
  <1>3. PICK n : n = Daa'
    OBVIOUS
  <1>4. DOMAIN chain' = DOMAIN chain \cup {n} /\ Handled(n)' = {}
    <2>1. Handled(n)' = {Hits'[i] : i \in 1..(1 - 1)}
      BY <1>1, <1>3 DEF Handled
    <2>2. 1..(1 - 1) = {}
      OBVIOUS
    <2> QED BY <1>3, <2>1, <2>2, CommitChain
  <1>5. \A o : o \in DOMAIN utxos' <=> \E d \in DOMAIN chain' : \E h \in Handled(d)' : o = Outpoint(h)
    BY <1>1, <1>2, <1>3, <1>4 DEF UtxoInv
  <1>6. \A d \in DOMAIN chain' : \A h \in Handled(d)' : HitRow(utxos', d, h)
    BY <1>1, <1>2, <1>3, <1>4 DEF UtxoInv
  <1> QED BY <1>5, <1>6 DEF UtxoInv

LEMMA HandledNext ==
    ASSUME TypeInv, HandleHit, NEW n, n = Daa
    PROVE  /\ n \in DOMAIN chain /\ Hits[at] \in OnChainAt(n)
           /\ Handled(n)' = Handled(n) \cup {Hits[at]}
           /\ \A d \in DOMAIN chain : d # n => Handled(d)' = Handled(d)
  <1>1. /\ phase = "hits" /\ phase' = "hits" /\ UNCHANGED chain
        /\ at' = at + 1 /\ at <= Len(Hits) /\ at \in Nat \ {0}
    BY DEF HandleHit, TypeInv, PlaceInv
  <1>2. Hits' = Hits /\ Daa' = Daa
    BY <1>1 DEF Hits, Block, Daa
  <1>3. Daa \in DOMAIN chain /\ Hits \in Seq(Detected) /\ Len(Hits) \in Nat
    BY <1>1, BlockFacts DEF Busy
  <1>4. Hits[at] \in OnChainAt(Daa)
    <2>1. OnChainAt(Daa) = Range(Hits)
      BY DEF OnChainAt, Hits, Block
    <2> QED BY <1>1, <1>3, <2>1 DEF Range
  <1>5. Handled(n)' = {Hits[i] : i \in 1..at}
    <2>1. at' - 1 = at
      BY <1>1
    <2>2. Handled(n)' = {Hits[i] : i \in 1..(at' - 1)}
      BY <1>1, <1>2 DEF Handled
    <2> QED BY <2>1, <2>2
  <1>6. Handled(n) = {Hits[i] : i \in 1..(at - 1)}
    BY <1>1 DEF Handled
  <1>7. 1..at = 1..(at - 1) \cup {at}
    BY <1>1
  <1>8. Handled(n)' = Handled(n) \cup {Hits[at]}
    BY <1>5, <1>6, <1>7
  <1>9. \A d \in DOMAIN chain : d # Daa => Handled(d)' = Handled(d)
    BY <1>1, <1>2 DEF Handled, OnChainAt
  <1> QED BY <1>3, <1>4, <1>8, <1>9

\* The row a hit adds, and that nothing else is touched by it.
LEMMA HitTracked ==
    ASSUME HandleHit, mapping # Unmapped
    PROVE  /\ DOMAIN utxos' = {Outpoint(Hits[at])} \cup DOMAIN utxos
           /\ \A o \in DOMAIN utxos : o # Outpoint(Hits[at]) => utxos'[o] = utxos[o]
           /\ utxos'[Outpoint(Hits[at])].daa = Daa
           /\ utxos'[Outpoint(Hits[at])].state = Hits[at].payload
           /\ utxos'[Outpoint(Hits[at])].kind = Hits[at].kind
           /\ utxos'[Outpoint(Hits[at])].covenant = CovenantOf(Hits[at], utxos)
  <1> DEFINE row == [daa |-> Daa, kind |-> Hits[at].kind,
                     covenant |-> CovenantOf(Hits[at], utxos), state |-> Hits[at].payload]
  <1>1. utxos' = Put(utxos, Outpoint(Hits[at]), row)
    BY DEF HandleHit, Tracked, Outpoint
  <1>2. /\ row.daa = Daa /\ row.state = Hits[at].payload /\ row.kind = Hits[at].kind
        /\ row.covenant = CovenantOf(Hits[at], utxos)
    OBVIOUS
  <1> HIDE DEF row
  <1>3. PICK o : o = Outpoint(Hits[at])
    OBVIOUS
  <1> QED BY <1>1, <1>2, <1>3 DEF Put

\* The output that is tracked is none that a transaction up to here spends.
LEMMA TrackedIsNew ==
    ASSUME TypeInv, ChainInv, HandleHit, NEW d \in DOMAIN chain, NEW tx \in Range(chain[d])
    PROVE  Outpoint(Hits[at]) \notin Range(Inputs[tx])
  <1>1. Daa \in DOMAIN chain /\ Hits[at] \in OnChainAt(Daa)
    <2>1. PICK n : n = Daa
      OBVIOUS
    <2> QED BY <2>1, HandledNext
  <1>2. chain \in Seq(Blocks) /\ d <= Daa /\ d \in Nat /\ Daa \in Nat
    BY DEF TypeInv, Daa
  <1>3. ~(Daa < d)
    BY <1>2
  <1> QED BY <1>1, <1>2, <1>3, Elsewhere

LEMMA HandleHitUtxos ==
    ASSUME TypeInv, ChainInv, UtxoInv, HandleHit, mapping # Unmapped
    PROVE  UtxoInv'
  <1>0. PICK n : n = Daa
    OBVIOUS
  <1> DEFINE hit == Hits[at]
             new == Outpoint(hit)
  <1>1. /\ n \in DOMAIN chain /\ hit \in OnChainAt(n)
        /\ Handled(n)' = Handled(n) \cup {hit}
        /\ \A d \in DOMAIN chain : d # n => Handled(d)' = Handled(d)
    BY <1>0, HandledNext
  <1>2. /\ DOMAIN utxos' = {new} \cup DOMAIN utxos
        /\ \A o \in DOMAIN utxos : o # new => utxos'[o] = utxos[o]
        /\ utxos'[new].daa = n /\ utxos'[new].state = hit.payload /\ utxos'[new].kind = hit.kind
        /\ utxos'[new].covenant = CovenantOf(hit, utxos)
    BY <1>0, HitTracked
  <1>3. UNCHANGED chain /\ chain \in Seq(Blocks)
    BY DEF HandleHit, TypeInv
  <1>4. \A d \in DOMAIN chain : Handled(d) \subseteq OnChainAt(d)
    BY HandledHere
  <1>5. \A d \in DOMAIN chain : \A tx \in Range(chain[d]) : new \notin Range(Inputs[tx])
    BY TrackedIsNew
  <1> HIDE DEF hit, new
  <1>6. ASSUME NEW d \in DOMAIN chain, NEW h \in OnChainAt(d)
        PROVE  CovenantOf(h, utxos') = CovenantOf(h, utxos)
    <2>1. h.tx \in Range(chain[d]) /\ h.tx \in Tx
      BY <1>3, HitFacts
    <2>2. \A o \in Range(Inputs[h.tx]) : o # new
      BY <1>5, <2>1
    <2>3. \A o \in Range(Inputs[h.tx]) : /\ o \in DOMAIN utxos' <=> o \in DOMAIN utxos
                                         /\ o \in DOMAIN utxos' => utxos'[o].covenant = utxos[o].covenant
      BY <1>2, <2>2
    <2> QED BY <2>1, <2>3, CovenantAgrees
  <1>7. ASSUME NEW d \in DOMAIN chain, NEW h \in OnChainAt(d), Outpoint(h) = new
        PROVE  /\ d = n /\ (OneKind => h = hit)
               /\ CovenantOf(h, utxos) = CovenantOf(hit, utxos)
    <2>1. h.tx = hit.tx /\ h.index = hit.index
      BY <1>7 DEF new, Outpoint
    <2>2. h \in HitsIn(h.tx) /\ h.tx \in Tx /\ h.tx \in Range(chain[d])
      BY <1>3, HitFacts
    <2>3. hit \in HitsIn(hit.tx) /\ hit.tx \in Range(chain[n])
      BY <1>1, <1>3, HitFacts
    <2>4. OneKind => h = hit
      BY <2>1, <2>2, <2>3, SameHit
    <2>5. d = n
      BY <1>1, <2>1, <2>2, <2>3 DEF ChainInv
    <2>6. CovenantOf(h, utxos) = CovenantOf(hit, utxos)
      BY <2>1 DEF CovenantOf
    <2> QED BY <2>4, <2>5, <2>6
  <1>8. \A o : o \in DOMAIN utxos' <=> \E d \in DOMAIN chain' : \E h \in Handled(d)' : o = Outpoint(h)
    <2>1. \A o : o \in DOMAIN utxos <=> \E d \in DOMAIN chain : \E h \in Handled(d) : o = Outpoint(h)
      BY DEF UtxoInv
    <2>2. new = Outpoint(hit)
      BY DEF new
    <2> QED BY <1>1, <1>2, <1>3, <2>1, <2>2
  <1>9. ASSUME NEW d \in DOMAIN chain, NEW h \in Handled(d)'
        PROVE  HitRow(utxos', d, h)
    <2>1. h \in OnChainAt(d)
      BY <1>1, <1>4
    <2>2. CovenantOf(h, utxos') = CovenantOf(h, utxos)
      BY <1>6, <2>1
    <2>3. CASE Outpoint(h) = new
      <3>1. /\ d = n /\ (OneKind => h = hit)
            /\ CovenantOf(h, utxos) = CovenantOf(hit, utxos)
        BY <1>7, <2>1, <2>3
      <3>2. OneKind => h.payload = hit.payload /\ h.kind = hit.kind
        BY <3>1
      <3>3. /\ utxos'[Outpoint(h)].daa = n
            /\ utxos'[Outpoint(h)].state = hit.payload /\ utxos'[Outpoint(h)].kind = hit.kind
            /\ utxos'[Outpoint(h)].covenant = CovenantOf(hit, utxos)
        BY <1>2, <2>3
      <3> QED BY <2>2, <3>1, <3>2, <3>3 DEF HitRow
    <2>4. CASE Outpoint(h) # new
      <3>1. h \in Handled(d)
        BY <1>1, <2>4 DEF new
      <3>2. HitRow(utxos, d, h) /\ Outpoint(h) \in DOMAIN utxos
        BY <3>1 DEF UtxoInv
      <3>3. utxos'[Outpoint(h)] = utxos[Outpoint(h)]
        BY <1>2, <2>4, <3>2
      <3> QED BY <2>2, <3>2, <3>3 DEF HitRow
    <2> QED BY <2>3, <2>4
  <1> QED BY <1>3, <1>8, <1>9 DEF UtxoInv

LEMMA HitsHandledUtxos ==
    ASSUME TypeInv, UtxoInv, HitsHandled
    PROVE  UtxoInv'
  <1>1. UNCHANGED <<chain, utxos>> /\ phase = "hits" /\ phase' # "hits" /\ at > Len(Hits)
    BY DEF HitsHandled, ToSpends
  <1>2. Hits \in Seq(Detected) /\ Len(Hits) \in Nat /\ at \in Nat /\ at <= Len(Hits) + 1
    BY <1>1, BlockFacts DEF Busy, TypeInv, PlaceInv
  <1>3. at - 1 = Len(Hits)
    BY <1>1, <1>2
  <1>4. {Hits[i] : i \in 1..(at - 1)} = Range(Hits)
    BY <1>2, <1>3 DEF Range
  <1>5. \A d \in DOMAIN chain : Handled(d)' = Handled(d)
    BY <1>1, <1>4 DEF Handled, OnChainAt, Hits, Block
  <1> QED BY <1>1, <1>5, UtxoFrame

\* Of what remains tracked after a reorganization all that it hangs on remains.
LEMMA UnwindUtxosRows ==
    ASSUME TypeInv, ChainInv, UtxoInv, NEW from \in DOMAIN chain, Unwind(from)
    PROVE  /\ UtxoInv'
           /\ \A o : o \in DOMAIN utxos' <=> o \in DOMAIN utxos /\ utxos[o].daa < from
           /\ \A o \in DOMAIN utxos' : utxos'[o] = utxos[o]
  <1>1. /\ utxos' = Restrict(utxos, {k \in DOMAIN utxos : utxos[k].daa < from})
        /\ phase = "idle" /\ phase' = "idle"
    BY DEF Unwind, UnwindUtxos
  <1>2. /\ \A o : o \in DOMAIN utxos' <=> o \in DOMAIN utxos /\ utxos[o].daa < from
        /\ \A o \in DOMAIN utxos' : utxos'[o] = utxos[o]
    BY <1>1 DEF Restrict
  <1>3. /\ \A d : d \in DOMAIN chain' <=> d \in DOMAIN chain /\ d < from
        /\ \A d \in DOMAIN chain' : chain'[d] = chain[d]
        /\ \A d \in DOMAIN chain : d \in Nat
        /\ from \in Nat
    BY UnwindChain
  <1>4. \A d \in DOMAIN chain : Handled(d) = OnChainAt(d)
    BY <1>1 DEF Handled
  <1>5. \A d \in DOMAIN chain' : Handled(d)' = OnChainAt(d)
    BY <1>1, <1>3 DEF Handled, OnChainAt
  <1>6. /\ \A o : o \in DOMAIN utxos <=> \E d \in DOMAIN chain : \E h \in OnChainAt(d) : o = Outpoint(h)
        /\ \A d \in DOMAIN chain : \A h \in OnChainAt(d) :
                HitRow(utxos, d, h) /\ utxos[Outpoint(h)].daa = d /\ Outpoint(h) \in DOMAIN utxos
    BY <1>4 DEF UtxoInv, HitRow
  <1>7. \A o : o \in DOMAIN utxos' <=> \E d \in DOMAIN chain' : \E h \in Handled(d)' : o = Outpoint(h)
    BY <1>2, <1>3, <1>5, <1>6
  <1>8. ASSUME NEW d \in DOMAIN chain', NEW h \in Handled(d)'
        PROVE  HitRow(utxos', d, h)
    <2>1. d \in DOMAIN chain /\ d < from /\ h \in OnChainAt(d)
      BY <1>3, <1>5
    <2>2. HitRow(utxos, d, h) /\ utxos[Outpoint(h)].daa = d /\ Outpoint(h) \in DOMAIN utxos
      BY <1>6, <2>1
    <2>3. Outpoint(h) \in DOMAIN utxos'
      BY <1>2, <2>1, <2>2
    <2>4. ASSUME NEW o \in Range(Inputs[h.tx]), o \in DOMAIN utxos
          PROVE  o \in DOMAIN utxos'
      <3>1. PICK e \in DOMAIN chain : \E g \in OnChainAt(e) : o = Outpoint(g)
        BY <1>6, <2>4
      <3>2. PICK g \in OnChainAt(e) : o = Outpoint(g)
        BY <3>1
      <3>3. h.tx \in Range(chain[d]) /\ chain \in Seq(Blocks)
        BY <2>1, HitFacts DEF TypeInv
      <3>4. e < d
        BY <2>1, <3>2, <3>3, Elsewhere
      <3>5. utxos[o].daa = e
        BY <1>6, <3>2
      <3>6. e < from
        BY <1>3, <2>1, <3>4
      <3> QED BY <1>2, <2>4, <3>5, <3>6
    <2>5. \A o \in Range(Inputs[h.tx]) :
                /\ o \in DOMAIN utxos <=> o \in DOMAIN utxos'
                /\ o \in DOMAIN utxos => utxos[o].covenant = utxos'[o].covenant
      BY <1>2, <2>4
    <2>6. utxos'[Outpoint(h)] = utxos[Outpoint(h)]
      BY <1>2, <2>3
    <2>7. d \in DOMAIN chain /\ h \in OnChainAt(d)
      BY <2>1
    <2> QED BY <2>2, <2>5, <2>6, <2>7, HitRowStays
  <1> QED BY <1>2, <1>7, <1>8 DEF UtxoInv

\* The inputs of a block that spend a tracked output.
SpendsHere(d) == {s \in SpendsAt(chain[d]) : s.previous \in DOMAIN utxos}

Reached == IF guest.running THEN at ELSE at - 1

\* Those of them that were recorded.
Recorded(d) ==
    IF d = Daa /\ (phase = "hits" \/ phase = "locked") THEN {}
    ELSE IF d = Daa /\ phase = "spends" THEN {Spends[i] : i \in 1..Reached}
    ELSE SpendsHere(d)

SpendRow(d, s) ==
    /\ spends[SpendKey(s)].daa = d
    /\ spends[SpendKey(s)].covenant = utxos[s.previous].covenant
    /\ spends[SpendKey(s)].continues
            <=> LineageContinues(s.spending, utxos[s.previous].covenant)

SpendInv ==
    /\ \A k : k \in DOMAIN spends <=> \E d \in DOMAIN chain : \E s \in Recorded(d) : k = SpendKey(s)
    /\ \A d \in DOMAIN chain : \A s \in Recorded(d) : SpendRow(d, s)

LEMMA ReachedSpends ==
    ASSUME TypeInv, phase = "spends"
    PROVE  /\ Reached \in Nat /\ Reached <= Len(Spends) /\ Len(Spends) \in Nat
           /\ Spends \in Seq(InputRecords)
           /\ \A i \in 1..Len(Spends) : Spends[i] \in SpendsHere(Daa)
           /\ {Spends[i] : i \in 1..Len(Spends)} = SpendsHere(Daa)
  <1>1. Spends \in Seq(InputRecords) /\ Len(Spends) \in Nat /\ Block \in Blocks
    BY BlockFacts DEF Busy
  <1>2. Range(Spends) = SpendsHere(Daa)
    <2>1. Range(SpendsOf(Block, DOMAIN utxos)) = {s \in SpendsAt(Block) : s.previous \in DOMAIN utxos}
      BY <1>1, SpendsAre
    <2> QED BY <2>1 DEF Spends, SpendsHere, Block
  <1>3. Range(Spends) = {Spends[i] : i \in 1..Len(Spends)}
    BY <1>1 DEF Range
  <1>4. at \in Nat \ {0} /\ at <= Len(Spends) + 1 /\ (guest.running => at <= Len(Spends))
    BY DEF TypeInv, PlaceInv
  <1>5. Reached \in Nat /\ Reached <= Len(Spends)
    BY <1>1, <1>4 DEF Reached
  <1> QED BY <1>1, <1>2, <1>3, <1>5

LEMMA RecordedHere ==
    ASSUME TypeInv, NEW d \in DOMAIN chain
    PROVE  Recorded(d) \subseteq SpendsHere(d)
  <1>1. CASE d = Daa /\ phase = "spends"
    <2>1. /\ Reached \in Nat /\ Reached <= Len(Spends) /\ Len(Spends) \in Nat
          /\ \A i \in 1..Len(Spends) : Spends[i] \in SpendsHere(d)
      BY <1>1, ReachedSpends
    <2>2. \A i \in 1..Reached : i \in 1..Len(Spends)
      BY <2>1
    <2> QED BY <1>1, <2>1, <2>2 DEF Recorded
  <1>2. CASE ~(d = Daa /\ phase = "spends")
    BY <1>2 DEF Recorded
  <1> QED BY <1>1, <1>2

LEMMA InputFacts ==
    ASSUME chain \in Seq(Blocks), NEW d \in DOMAIN chain, NEW s \in SpendsAt(chain[d])
    PROVE  /\ s.spending \in Range(chain[d]) /\ s.spending \in Tx
           /\ s.previous \in Range(Inputs[s.spending])
           /\ SpendKey(s) = <<s.spending, s.previous>>
           /\ s = [spending |-> s.spending, previous |-> s.previous]
  <1>1. PICK block \in Blocks : block = chain[d]
    OBVIOUS
  <1>2. PICK tx \in Range(block) : s \in SpendsIn(tx)
    BY <1>1 DEF SpendsAt
  <1>3. PICK o \in Range(Inputs[tx]) : s = [spending |-> tx, previous |-> o]
    BY <1>2 DEF SpendsIn
  <1>4. tx \in Tx
    <2>1. block \in Seq(Tx)
      BY PipelineAssumption
    <2> QED BY <2>1 DEF Range
  <1> QED BY <1>1, <1>3, <1>4 DEF SpendKey

\* A key stands for one input of one block.
LEMMA OneRecord ==
    ASSUME chain \in Seq(Blocks), ChainInv, NEW d \in DOMAIN chain, NEW e \in DOMAIN chain,
           NEW s \in SpendsAt(chain[d]), NEW r \in SpendsAt(chain[e]), SpendKey(s) = SpendKey(r)
    PROVE  s = r /\ d = e
  <1>1. /\ s.spending \in Range(chain[d]) /\ SpendKey(s) = <<s.spending, s.previous>>
        /\ s = [spending |-> s.spending, previous |-> s.previous]
    BY InputFacts
  <1>2. /\ r.spending \in Range(chain[e]) /\ SpendKey(r) = <<r.spending, r.previous>>
        /\ r = [spending |-> r.spending, previous |-> r.previous]
    BY InputFacts
  <1>3. s.spending = r.spending /\ s.previous = r.previous
    BY DEF SpendKey
  <1>4. s = r
    BY <1>1, <1>2, <1>3
  <1>5. d = e
    BY <1>1, <1>2, <1>3 DEF ChainInv
  <1> QED BY <1>4, <1>5

\* Steps that leave the rows and the progress through the spends alone.
LEMMA SpendFrame ==
    ASSUME SpendInv, UNCHANGED <<chain, utxos, spends>>, \A d \in DOMAIN chain : Recorded(d)' = Recorded(d)
    PROVE  SpendInv'
  <1>1. \A k : k \in DOMAIN spends' <=> \E d \in DOMAIN chain' : \E s \in Recorded(d)' : k = SpendKey(s)
    BY DEF SpendInv
  <1>2. ASSUME NEW d \in DOMAIN chain', NEW s \in Recorded(d)'
        PROVE  SpendRow(d, s)'
    <2>1. SpendRow(d, s)
      BY <1>2 DEF SpendInv
    <2> QED BY <2>1 DEF SpendRow, SpendKey, LineageContinues
  <1> QED BY <1>1, <1>2 DEF SpendInv, SpendKey

LEMMA CommitSpends ==
    ASSUME TypeInv, ChainInv, SpendInv, NEW block \in Blocks, Commit(block)
    PROVE  SpendInv'
  <1>1. UNCHANGED <<utxos, spends>> /\ phase = "idle" /\ phase' = "hits"
    BY DEF Commit, tables
  <1>2. \A d \in DOMAIN chain : Recorded(d)' = Recorded(d)
    <2>1. \A d \in DOMAIN chain : Recorded(d) = SpendsHere(d)
      BY <1>1 DEF Recorded
    <2>2. \A d \in DOMAIN chain : Recorded(d)' = SpendsHere(d)'
      BY <1>1, CommitChain DEF Recorded
    <2>3. \A d \in DOMAIN chain : SpendsHere(d)' = SpendsHere(d)
      BY <1>1, CommitChain DEF SpendsHere
    <2> QED BY <2>1, <2>2, <2>3
  <1>3. PICK n : n = Daa'
    OBVIOUS
  <1>4. DOMAIN chain' = DOMAIN chain \cup {n} /\ Recorded(n)' = {}
    BY <1>1, <1>3, CommitChain DEF Recorded
  <1>5. \A k : k \in DOMAIN spends' <=> \E d \in DOMAIN chain' : \E s \in Recorded(d)' : k = SpendKey(s)
    BY <1>1, <1>2, <1>4 DEF SpendInv
  <1>6. ASSUME NEW d \in DOMAIN chain', NEW s \in Recorded(d)'
        PROVE  SpendRow(d, s)'
    <2>1. SpendRow(d, s)
      BY <1>2, <1>4, <1>6 DEF SpendInv
    <2> QED BY <1>1, <2>1 DEF SpendRow, SpendKey, LineageContinues
  <1> QED BY <1>5, <1>6 DEF SpendInv, SpendKey

\* What the next hit adds to the tracker concerns no spend that is recorded.
LEMMA HandleHitSpends ==
    ASSUME TypeInv, ChainInv, SpendInv, HandleHit, mapping # Unmapped
    PROVE  SpendInv'
  <1>0. PICK n : n = Daa
    OBVIOUS
  <1> DEFINE new == Outpoint(Hits[at])
  <1>1. n \in DOMAIN chain /\ Hits[at] \in OnChainAt(n)
    BY <1>0, HandledNext
  <1>2. /\ DOMAIN utxos' = {new} \cup DOMAIN utxos
        /\ \A o \in DOMAIN utxos : o # new => utxos'[o] = utxos[o]
    BY HitTracked
  <1>3. UNCHANGED <<chain, spends, guest>> /\ chain \in Seq(Blocks) /\ phase = "hits" /\ phase' = "hits"
    BY DEF HandleHit, TypeInv
  <1>4. \A d \in DOMAIN chain : \A tx \in Range(chain[d]) : new \notin Range(Inputs[tx])
    BY TrackedIsNew
  <1>5. new[1] \in Range(chain[n])
    BY <1>1, <1>3, HitFacts DEF Outpoint
  <1> HIDE DEF new
  <1>6. Recorded(n) = {} /\ Recorded(n)' = {}
    BY <1>0, <1>3 DEF Recorded, Daa
  <1>7. ASSUME NEW d \in DOMAIN chain, NEW s \in SpendsAt(chain[d])
        PROVE  /\ s.previous # new
               /\ d # n => s.spending # new[1]
    <2>1. s.spending \in Range(chain[d]) /\ s.previous \in Range(Inputs[s.spending])
      BY <1>3, InputFacts
    <2>2. s.previous # new
      BY <1>4, <2>1
    <2>3. d # n => s.spending # new[1]
      BY <1>1, <1>5, <2>1 DEF ChainInv
    <2> QED BY <2>2, <2>3
  <1>8. \A d \in DOMAIN chain : Recorded(d)' = Recorded(d)
    <2> SUFFICES ASSUME NEW d \in DOMAIN chain PROVE Recorded(d)' = Recorded(d)
      OBVIOUS
    <2>1. SpendsHere(d)' = SpendsHere(d)
      BY <1>2, <1>3, <1>7 DEF SpendsHere
    <2>2. CASE d = n
      BY <1>6, <2>2
    <2>3. CASE d # n
      BY <1>0, <1>3, <2>1, <2>3 DEF Recorded, Daa
    <2> QED BY <2>2, <2>3
  <1>9. \A k : k \in DOMAIN spends' <=> \E d \in DOMAIN chain' : \E s \in Recorded(d)' : k = SpendKey(s)
    BY <1>3, <1>8 DEF SpendInv
  <1>10. ASSUME NEW d \in DOMAIN chain', NEW s \in Recorded(d)'
        PROVE  SpendRow(d, s)'
    <2>1. d \in DOMAIN chain /\ d # n /\ s \in Recorded(d)
      BY <1>3, <1>6, <1>8, <1>10
    <2>2. SpendRow(d, s)
      BY <2>1 DEF SpendInv
    <2>3. s \in SpendsHere(d)
      BY <2>1, RecordedHere
    <2>4. s \in SpendsAt(chain[d]) /\ s.previous \in DOMAIN utxos
      BY <2>3 DEF SpendsHere
    <2>5. s.previous # new /\ s.spending # new[1]
      BY <1>7, <2>1, <2>4
    <2>6. utxos'[s.previous] = utxos[s.previous]
      BY <1>2, <2>4, <2>5
    <2> DEFINE c == utxos[s.previous].covenant
    <2> HIDE DEF c
    <2>7. c' = c
      BY <2>6 DEF c
    <2>8. (\E o \in DOMAIN utxos' : o[1] = s.spending /\ utxos'[o].covenant = c)
            <=> (\E o \in DOMAIN utxos : o[1] = s.spending /\ utxos[o].covenant = c)
      BY <1>2, <2>5
    <2>9. (\E o \in DOMAIN utxos' : o[1] = s.spending /\ utxos'[o].covenant = c')
            <=> LineageContinues(s.spending, c)
      BY <2>7, <2>8 DEF LineageContinues
    <2> QED BY <1>3, <2>2, <2>7, <2>9 DEF SpendRow, SpendKey, LineageContinues, c
  <1> QED BY <1>9, <1>10 DEF SpendInv, SpendKey

\* The step from the locked part: no input was looked at, or there is none.
LEMMA ToSpendsRecorded ==
    ASSUME TypeInv, SpendInv, phase = "hits" \/ phase = "locked", ToSpends, mapping # Unmapped,
           UNCHANGED <<chain, utxos, spends, guest>>, ~guest.running
    PROVE  SpendInv'
  <1>0. PICK n : n = Daa
    OBVIOUS
  <1>1. Block \in Blocks
    BY BlockFacts DEF Busy
  <1>2. Recorded(n) = {} /\ Daa' = n
    BY <1>0 DEF Recorded, Daa
  <1>3. Recorded(n)' = {}
    <2>1. CASE phase' = "spends"
      <3>1. at' = 1 /\ Reached' = 0
        BY DEF ToSpends, Reached
      <3>2. Recorded(n)' = {Spends'[i] : i \in 1..0}
        BY <1>2, <2>1, <3>1 DEF Recorded
      <3>3. 1..0 = {}
        OBVIOUS
      <3> QED BY <3>2, <3>3
    <2>2. CASE phase' # "spends"
      <3>1. InputsOf[Block] = <<>> /\ phase' = "checkpoint"
        BY <2>2 DEF ToSpends
      <3>2. Range(<<>>) = {}
        BY DEF Range
      <3>3. SpendsAt(Block) = {}
        BY <1>1, <3>1, <3>2, BlockInputs
      <3>4. SpendsHere(n)' = {}
        BY <1>0, <3>3 DEF SpendsHere, Block
      <3> QED BY <3>1, <3>4 DEF Recorded
    <2> QED BY <2>1, <2>2
  <1>4. \A d \in DOMAIN chain : d # n => Recorded(d)' = Recorded(d)
    BY <1>0, <1>2 DEF Recorded, SpendsHere
  <1>5. \A d \in DOMAIN chain : Recorded(d)' = Recorded(d)
    BY <1>2, <1>3, <1>4
  <1> QED BY <1>5, SpendFrame

LEMMA DispatchSpendSpends ==
    ASSUME TypeInv, ChainInv, SpendInv, DispatchSpend
    PROVE  SpendInv'
  <1>0. PICK n : n = Daa
    OBVIOUS
  <1> DEFINE s0 == Spends[at]
             c0 == utxos[s0.previous].covenant
             row == [daa |-> Daa, kind |-> utxos[s0.previous].kind, covenant |-> c0,
                     continues |-> LineageContinues(s0.spending, c0)]
  <1>1. /\ UNCHANGED <<chain, utxos>> /\ phase = "spends" /\ phase' = "spends"
        /\ at <= Len(Spends) /\ at \in Nat \ {0} /\ ~guest.running
        /\ spends' = Put(spends, SpendKey(s0), row)
    BY DEF DispatchSpend, TypeInv, PlaceInv
  <1>2. /\ row.daa = Daa /\ row.covenant = c0
        /\ row.continues <=> LineageContinues(s0.spending, c0)
    OBVIOUS
  <1> HIDE DEF row
  <1>3. PICK k0 : k0 = SpendKey(s0)
    OBVIOUS
  <1>4. /\ DOMAIN spends' = {k0} \cup DOMAIN spends /\ spends'[k0] = row
        /\ \A k \in DOMAIN spends : k # k0 => spends'[k] = spends[k]
    BY <1>1, <1>3 DEF Put
  <1>5. n \in DOMAIN chain /\ chain \in Seq(Blocks) /\ Daa' = Daa /\ Spends' = Spends
    <2>1. Daa \in DOMAIN chain
      BY <1>1, BlockFacts DEF Busy
    <2> QED BY <1>0, <1>1, <2>1 DEF TypeInv, Daa, Spends, Block
  <1>6. Reached = at - 1 /\ Reached' = at
    <2>1. Reached = at - 1
      BY <1>1 DEF Reached
    <2>2. \/ at' = at + 1 /\ guest' = guest
          \/ at' = at /\ \E handler, event : guest' = Instantiate(handler, event)
      BY DEF DispatchSpend
    <2>3. \A handler, event : Instantiate(handler, event).running = TRUE
      BY DEF Instantiate
    <2> QED BY <1>1, <2>1, <2>2, <2>3 DEF Reached
  <1>7. Recorded(n) = {Spends[i] : i \in 1..(at - 1)} /\ Recorded(n)' = {Spends[i] : i \in 1..at}
    BY <1>0, <1>1, <1>5, <1>6 DEF Recorded
  <1>8. 1..at = 1..(at - 1) \cup {at}
    BY <1>1
  <1>9. Recorded(n)' = Recorded(n) \cup {s0}
    BY <1>7, <1>8
  <1>10. \A d \in DOMAIN chain : d # n => Recorded(d)' = Recorded(d)
    BY <1>0, <1>1, <1>5 DEF Recorded, SpendsHere
  <1>11. s0 \in SpendsHere(n)
    BY <1>0, <1>1, ReachedSpends
  <1> HIDE DEF s0
  <1>12. \A k : k \in DOMAIN spends' <=> \E d \in DOMAIN chain' : \E s \in Recorded(d)' : k = SpendKey(s)
    <2>1. \A k : k \in DOMAIN spends <=> \E d \in DOMAIN chain : \E s \in Recorded(d) : k = SpendKey(s)
      BY DEF SpendInv
    <2> QED BY <1>1, <1>3, <1>4, <1>5, <1>9, <1>10, <2>1
  <1>13. ASSUME NEW d \in DOMAIN chain, NEW s \in Recorded(d)'
         PROVE  SpendRow(d, s)'
    <2>1. s \in SpendsHere(d)
      <3>1. s \in Recorded(d) \/ (d = n /\ s = s0)
        BY <1>9, <1>10
      <3> QED BY <1>11, <3>1, RecordedHere
    <2>2. CASE SpendKey(s) = k0
      <3>1. s \in SpendsAt(chain[d]) /\ s0 \in SpendsAt(chain[n])
        BY <1>11, <2>1 DEF SpendsHere
      <3>2. s = s0 /\ d = n
        BY <1>3, <1>5, <2>2, <3>1, OneRecord
      <3>3. spends'[SpendKey(s)] = row
        BY <1>4, <2>2
      <3> QED BY <1>0, <1>1, <1>2, <3>2, <3>3 DEF SpendRow, SpendKey, LineageContinues, c0
    <2>3. CASE SpendKey(s) # k0
      <3>1. s \in Recorded(d)
        <4>1. s # s0
          BY <1>3, <2>3
        <4> QED BY <1>9, <1>10, <4>1
      <3>2. SpendRow(d, s) /\ SpendKey(s) \in DOMAIN spends
        BY <3>1 DEF SpendInv
      <3>3. spends'[SpendKey(s)] = spends[SpendKey(s)]
        BY <1>4, <2>3, <3>2
      <3> QED BY <1>1, <3>2, <3>3 DEF SpendRow, SpendKey, LineageContinues
    <2> QED BY <2>2, <2>3
  <1> QED BY <1>1, <1>12, <1>13 DEF SpendInv, SpendKey

LEMMA SpendDispatchedSpends ==
    ASSUME TypeInv, SpendInv, SpendDispatched
    PROVE  SpendInv'
  <1>1. /\ UNCHANGED <<chain, utxos, spends>> /\ phase = "spends" /\ phase' = "spends"
        /\ guest.running /\ guest' = NoGuest /\ at' = at + 1 /\ at \in Nat
    BY DEF SpendDispatched, Returned, Failed, TypeInv, PlaceInv
  <1>2. Reached' = Reached
    BY <1>1 DEF Reached, NoGuest
  <1>3. \A d \in DOMAIN chain : Recorded(d)' = Recorded(d)
    BY <1>1, <1>2 DEF Recorded, SpendsHere, Spends, Block, Daa
  <1> QED BY <1>1, <1>3, SpendFrame

LEMMA SpendsHandledSpends ==
    ASSUME TypeInv, SpendInv, SpendsHandled
    PROVE  SpendInv'
  <1>1. /\ UNCHANGED <<chain, utxos, spends>> /\ phase = "spends" /\ phase' = "checkpoint"
        /\ at > Len(Spends)
    BY DEF SpendsHandled, tables
  <1>2. /\ {Spends[i] : i \in 1..Len(Spends)} = SpendsHere(Daa)
        /\ Len(Spends) \in Nat /\ at \in Nat /\ at <= Len(Spends) + 1
        /\ guest.running => at <= Len(Spends)
    BY <1>1, ReachedSpends DEF TypeInv, PlaceInv
  <1>3. Reached = Len(Spends)
    BY <1>1, <1>2 DEF Reached
  <1>4. \A d \in DOMAIN chain : Recorded(d)' = Recorded(d)
    BY <1>1, <1>2, <1>3 DEF Recorded, SpendsHere
  <1> QED BY <1>1, <1>4, SpendFrame

LEMMA UnwindSpendsRows ==
    ASSUME TypeInv, ChainInv, UtxoInv, SpendInv, NEW from \in DOMAIN chain, Unwind(from)
    PROVE  SpendInv'
  <1>1. /\ spends' = Restrict(spends, {k \in DOMAIN spends : spends[k].daa < from})
        /\ phase = "idle" /\ phase' = "idle"
    BY DEF Unwind, UnwindSpends
  <1>2. /\ \A k : k \in DOMAIN spends' <=> k \in DOMAIN spends /\ spends[k].daa < from
        /\ \A k \in DOMAIN spends' : spends'[k] = spends[k]
    BY <1>1 DEF Restrict
  <1>3. /\ \A d : d \in DOMAIN chain' <=> d \in DOMAIN chain /\ d < from
        /\ \A d \in DOMAIN chain' : chain'[d] = chain[d]
        /\ \A d \in DOMAIN chain : d \in Nat
        /\ from \in Nat
    BY UnwindChain
  <1>4. /\ \A o : o \in DOMAIN utxos' <=> o \in DOMAIN utxos /\ utxos[o].daa < from
        /\ \A o \in DOMAIN utxos' : utxos'[o] = utxos[o]
    BY UnwindUtxosRows
  <1>5. \A d \in DOMAIN chain : Recorded(d) = SpendsHere(d)
    BY <1>1 DEF Recorded
  <1>6. \A d \in DOMAIN chain' : Recorded(d)' = SpendsHere(d)'
    BY <1>1 DEF Recorded
  <1>7. /\ \A o : o \in DOMAIN utxos <=> \E d \in DOMAIN chain : \E h \in OnChainAt(d) : o = Outpoint(h)
        /\ \A d \in DOMAIN chain : \A h \in OnChainAt(d) : utxos[Outpoint(h)].daa = d
    <2>1. \A d \in DOMAIN chain : Handled(d) = OnChainAt(d)
      BY <1>1 DEF Handled
    <2> QED BY <2>1 DEF UtxoInv, HitRow
  <1>8. ASSUME NEW d \in DOMAIN chain', NEW s \in SpendsAt(chain[d]), s.previous \in DOMAIN utxos
        PROVE  s.previous \in DOMAIN utxos'
    <2>1. PICK e \in DOMAIN chain : \E g \in OnChainAt(e) : s.previous = Outpoint(g)
      BY <1>7, <1>8
    <2>2. PICK g \in OnChainAt(e) : s.previous = Outpoint(g)
      BY <2>1
    <2>3. chain \in Seq(Blocks) /\ d \in DOMAIN chain /\ d < from
      BY <1>3 DEF TypeInv
    <2>4. s.spending \in Range(chain[d]) /\ s.previous \in Range(Inputs[s.spending])
      BY <2>3, InputFacts
    <2>5. e < d
      BY <2>2, <2>3, <2>4, Elsewhere
    <2>6. e < from
      BY <1>3, <2>3, <2>5
    <2>7. utxos[s.previous].daa = e
      BY <1>7, <2>2
    <2> QED BY <1>4, <1>8, <2>6, <2>7
  <1>9. \A d \in DOMAIN chain' : Recorded(d)' = Recorded(d)
    <2> SUFFICES ASSUME NEW d \in DOMAIN chain' PROVE Recorded(d)' = Recorded(d)
      OBVIOUS
    <2>1. SpendsHere(d)' = {s \in SpendsAt(chain[d]) : s.previous \in DOMAIN utxos'}
      BY <1>3 DEF SpendsHere
    <2>2. SpendsHere(d)' = SpendsHere(d)
      BY <1>4, <1>8, <2>1 DEF SpendsHere
    <2> QED BY <1>3, <1>5, <1>6, <2>2
  <1>10. \A d \in DOMAIN chain : \A s \in Recorded(d) :
            SpendRow(d, s) /\ spends[SpendKey(s)].daa = d /\ SpendKey(s) \in DOMAIN spends
    BY DEF SpendInv, SpendRow
  <1>11. \A k : k \in DOMAIN spends' <=> \E d \in DOMAIN chain' : \E s \in Recorded(d)' : k = SpendKey(s)
    <2>1. \A k : k \in DOMAIN spends <=> \E d \in DOMAIN chain : \E s \in Recorded(d) : k = SpendKey(s)
      BY DEF SpendInv
    <2> QED BY <1>2, <1>3, <1>9, <1>10, <2>1
  <1>12. ASSUME NEW d \in DOMAIN chain', NEW s \in Recorded(d)'
         PROVE  SpendRow(d, s)'
    <2>1. d \in DOMAIN chain /\ d < from /\ s \in Recorded(d) /\ s \in SpendsHere(d)
      BY <1>3, <1>5, <1>9
    <2>2. SpendRow(d, s) /\ SpendKey(s) \in DOMAIN spends'
      BY <1>2, <1>10, <2>1
    <2>3. s \in SpendsAt(chain[d]) /\ s.previous \in DOMAIN utxos
      BY <2>1 DEF SpendsHere
    <2>4. utxos'[s.previous] = utxos[s.previous]
      BY <1>4, <1>8, <2>3
    <2>5. PICK c : c = utxos[s.previous].covenant
      OBVIOUS
    <2>6. ASSUME NEW o \in DOMAIN utxos, o[1] = s.spending
          PROVE  o \in DOMAIN utxos'
      <3>1. PICK e \in DOMAIN chain : \E g \in OnChainAt(e) : o = Outpoint(g)
        BY <1>7
      <3>2. PICK g \in OnChainAt(e) : o = Outpoint(g)
        BY <3>1
      <3>3. chain \in Seq(Blocks)
        BY DEF TypeInv
      <3>4. g.tx \in Range(chain[e]) /\ o[1] = g.tx
        BY <3>2, <3>3, HitFacts DEF Outpoint
      <3>5. s.spending \in Range(chain[d])
        BY <2>1, <2>3, <3>3, InputFacts
      <3>6. e = d
        BY <2>1, <2>6, <3>4, <3>5 DEF ChainInv
      <3>7. utxos[o].daa = d
        BY <1>7, <3>2, <3>6
      <3> QED BY <1>4, <2>1, <2>6, <3>7
    <2>7. (\E o \in DOMAIN utxos' : o[1] = s.spending /\ utxos'[o].covenant = c)
            <=> (\E o \in DOMAIN utxos : o[1] = s.spending /\ utxos[o].covenant = c)
      BY <1>4, <2>6
    <2>8. spends'[SpendKey(s)] = spends[SpendKey(s)]
      BY <1>2, <2>2
    <2> QED BY <2>2, <2>4, <2>5, <2>7, <2>8 DEF SpendRow, SpendKey, LineageContinues
  <1> QED BY <1>11, <1>12 DEF SpendInv, SpendKey

FollowInv ==
    /\ TypeInv
    /\ ChainInv
    /\ mapping # Unmapped => UtxoInv /\ SpendInv

LEMMA FollowInit == Init => FollowInv
  <1> SUFFICES ASSUME Init PROVE FollowInv
    OBVIOUS
  <1>1. DOMAIN chain = {} /\ DOMAIN utxos = {} /\ DOMAIN spends = {}
    BY DEF Init, Empty
  <1> QED BY <1>1, TypeInit DEF FollowInv, ChainInv, UtxoInv, SpendInv

LEMMA FollowStep ==
    ASSUME FollowInv, [Next]_vars
    PROVE  FollowInv'
  <1>1. TypeInv' /\ TypeInv /\ ChainInv
    BY TypeStep DEF FollowInv
  \* Steps that leave the chain, the tables and the place in the block alone.
  <1>2. ASSUME UNCHANGED <<mapping, chain, utxos, spends, at, guest>>,
               phase' = phase \/ (phase \in {"idle", "checkpoint"} /\ phase' \in {"idle", "stopped"})
        PROVE  FollowInv'
    <2>1. Hits' = Hits /\ Spends' = Spends /\ Daa' = Daa /\ Reached' = Reached
      BY <1>2 DEF Hits, Spends, Block, Daa, Reached
    <2>2. /\ phase = "hits" <=> phase' = "hits"
          /\ phase = "locked" <=> phase' = "locked"
          /\ phase = "spends" <=> phase' = "spends"
      BY <1>2
    <2>3. \A d \in DOMAIN chain : Handled(d)' = Handled(d) /\ Recorded(d)' = Recorded(d)
      BY <1>2, <2>1, <2>2 DEF Handled, Recorded, OnChainAt, SpendsHere
    <2>4. ChainInv'
      BY <1>1, <1>2, ChainFrame
    <2> QED BY <1>1, <1>2, <2>3, <2>4, UtxoFrame, SpendFrame DEF FollowInv
  \* Steps of the locked handlers.
  <1>3. ASSUME UNCHANGED <<mapping, chain, utxos, spends>>, phase = "locked", phase' = "locked"
        PROVE  FollowInv'
    <2>1. \A d \in DOMAIN chain : Handled(d)' = Handled(d) /\ Recorded(d)' = Recorded(d)
      BY <1>3 DEF Handled, Recorded, OnChainAt, SpendsHere, Daa
    <2>2. ChainInv'
      BY <1>1, <1>3, ChainFrame
    <2> QED BY <1>1, <1>3, <2>1, <2>2, UtxoFrame, SpendFrame DEF FollowInv
  <1>4. CASE \E block \in Blocks : Commit(block)
    <2>1. PICK block \in Blocks : Commit(block)
      BY <1>4
    <2>2. UNCHANGED mapping
      BY <2>1 DEF Commit
    <2> QED BY <1>1, <2>1, <2>2, CommitChain, CommitUtxos, CommitSpends DEF FollowInv
  <1>5. CASE HandleHit
    <2>1. UNCHANGED <<mapping, chain>>
      BY <1>5 DEF HandleHit
    <2> QED BY <1>1, <1>5, <2>1, ChainFrame, HandleHitUtxos, HandleHitSpends DEF FollowInv
  <1>6. CASE HitsHandled
    <2>1. UNCHANGED <<mapping, chain, utxos, spends, guest>> /\ phase = "hits" /\ ~guest.running
      BY <1>1, <1>6 DEF HitsHandled, TypeInv, PlaceInv
    <2>2. ASSUME mapping # Unmapped PROVE SpendInv'
      <3>1. CASE ToSpends
        BY <1>1, <2>1, <2>2, <3>1, ToSpendsRecorded DEF FollowInv
      <3>2. CASE phase' = "locked"
        <4>1. \A d \in DOMAIN chain : Recorded(d)' = Recorded(d)
          BY <2>1, <3>2 DEF Recorded, SpendsHere, Daa
        <4> QED BY <2>1, <2>2, <4>1, SpendFrame DEF FollowInv
      <3> QED BY <1>6, <3>1, <3>2 DEF HitsHandled
    <2> QED BY <1>1, <1>6, <2>1, <2>2, ChainFrame, HitsHandledUtxos DEF FollowInv
  <1>7. CASE StoreDispatched
    <2>1. /\ UNCHANGED <<mapping, chain, utxos, spends, guest>> /\ phase = "locked" /\ phase' # "hits"
          /\ ToSpends /\ ~guest.running
      <3>1. /\ UNCHANGED <<mapping, chain, utxos, spends, guest>> /\ phase = "locked"
            /\ ToSpends /\ at > Len(Hits) /\ phase' # "hits"
        BY <1>7 DEF StoreDispatched, ToSpends
      <3>2. at \in Nat /\ Len(Hits) \in Nat
        BY <1>1, <3>1, BlockFacts DEF Busy, TypeInv, PlaceInv
      <3>3. ~(at <= Len(Hits))
        BY <3>1, <3>2
      <3> QED BY <1>1, <3>1, <3>3 DEF TypeInv, PlaceInv
    <2>2. \A d \in DOMAIN chain : Handled(d)' = Handled(d)
      BY <2>1 DEF Handled, OnChainAt
    <2> QED BY <1>1, <2>1, <2>2, ChainFrame, UtxoFrame, ToSpendsRecorded DEF FollowInv
  <1>8. CASE DispatchSpend \/ SpendDispatched \/ SpendsHandled
    <2>1. UNCHANGED <<mapping, chain, utxos>> /\ phase = "spends" /\ phase' # "hits"
      BY <1>8 DEF DispatchSpend, SpendDispatched, SpendsHandled, tables
    <2>2. \A d \in DOMAIN chain : Handled(d)' = Handled(d)
      BY <2>1 DEF Handled, OnChainAt
    <2> QED BY <1>1, <1>8, <2>1, <2>2, ChainFrame, UtxoFrame, DispatchSpendSpends,
               SpendDispatchedSpends, SpendsHandledSpends DEF FollowInv
  <1>9. CASE \E from \in DOMAIN chain : Unwind(from)
    <2>1. PICK from \in DOMAIN chain : Unwind(from)
      BY <1>9
    <2>2. UNCHANGED mapping
      BY <2>1 DEF Unwind
    <2> QED BY <1>1, <2>1, <2>2, UnwindChain, UnwindUtxosRows, UnwindSpendsRows DEF FollowInv
  <1>10. CASE DispatchLocked \/ LockedDispatched
    BY <1>3, <1>10 DEF DispatchLocked, LockedDispatched, tables
  <1>11. CASE Return \/ \E call \in Calls : HostCall(call)
    <2>1. /\ UNCHANGED <<mapping, chain, utxos, spends, at, phase>> /\ guest.running
      BY <1>11 DEF Return, HostCall, Running, tables
    <2>2. phase = "locked" \/ phase = "spends"
      BY <1>1, <2>1 DEF TypeInv, PlaceInv
    <2>3. CASE phase = "locked"
      BY <1>3, <2>1, <2>3
    <2>4. CASE phase = "spends"
      <3>1. guest'.running
        <4>1. DOMAIN guest = GuestFields /\ guest.running = TRUE
          BY <1>1, <2>1 DEF TypeInv, GuestInv, NoGuest
        <4>2. GuestInv' /\ guest' # NoGuest
          <5>1. GuestInv'
            BY <1>1 DEF TypeInv
          <5>2. DOMAIN guest' = GuestFields
            BY <1>11, <4>1 DEF Return, HostCall, GuestFields
          <5>3. DOMAIN NoGuest = {"running"} /\ "fuel" \in GuestFields
            BY DEF NoGuest, GuestFields
          <5> QED BY <5>1, <5>2, <5>3
        <4> QED BY <4>2 DEF GuestInv
      <3>2. Reached' = Reached /\ Spends' = Spends /\ Daa' = Daa
        BY <2>1, <3>1 DEF Reached, Spends, Block, Daa
      <3>3. \A d \in DOMAIN chain : Handled(d)' = Handled(d) /\ Recorded(d)' = Recorded(d)
        BY <2>1, <2>4, <3>2 DEF Handled, Recorded, OnChainAt, SpendsHere
      <3>4. ChainInv'
        BY <1>1, <2>1, ChainFrame
      <3> QED BY <1>1, <2>1, <3>3, <3>4, UtxoFrame, SpendFrame DEF FollowInv
    <2> QED BY <2>2, <2>3, <2>4
  <1>12. CASE Checkpoint \/ Stop \/ Receive \/ ReceiveClosed \/ \E filters \in Filters : Subscribe(filters)
    BY <1>2, <1>12 DEF Checkpoint, Stop, Receive, ReceiveClosed, Subscribe, tables, handling
  <1>13. CASE UNCHANGED vars
    BY <1>2, <1>13 DEF vars, tables, handling
  <1> QED BY <1>4, <1>5, <1>6, <1>7, <1>8, <1>9, <1>10, <1>11, <1>12, <1>13 DEF Next, Step

LEMMA FollowImplies ==
    ASSUME OneKind, FollowInv
    PROVE  SpendsFollowChain
  <1> SUFFICES ASSUME Settled, mapping # Unmapped
               PROVE  SpendsFollowChain
    BY DEF SpendsFollowChain
  <1>1. TypeInv /\ ChainInv /\ UtxoInv /\ SpendInv /\ chain \in Seq(Blocks)
    BY DEF FollowInv, TypeInv
  <1>2. \A d \in DOMAIN chain : Handled(d) = OnChainAt(d) /\ Recorded(d) = SpendsHere(d)
    BY DEF Settled, Handled, Recorded
  <1>3. DOMAIN utxos = UNION {{Outpoint(h) : h \in OnChainAt(d)} : d \in DOMAIN chain}
    <2>1. \A o : o \in DOMAIN utxos <=> \E d \in DOMAIN chain : \E h \in OnChainAt(d) : o = Outpoint(h)
      BY <1>1, <1>2 DEF UtxoInv
    <2> QED BY <2>1
  <1>4. \A d \in DOMAIN chain : \A h \in OnChainAt(d) : HitRow(utxos, d, h)
    BY <1>1, <1>2 DEF UtxoInv
  <1>5. ASSUME NEW d \in DOMAIN chain
        PROVE  SpendsHere(d) = {j \in Range(InputsOf[chain[d]]) : j.previous \in DOMAIN utxos}
    <2>1. PICK block \in Blocks : block = chain[d]
      BY <1>1
    <2>2. Range(InputsOf[block]) = SpendsAt(block)
      BY BlockInputs
    <2> QED BY <2>1, <2>2 DEF SpendsHere
  <1>6. \A k : k \in DOMAIN spends <=> \E d \in DOMAIN chain : \E s \in SpendsHere(d) : k = <<s.spending, s.previous>>
    BY <1>1, <1>2 DEF SpendInv, SpendKey
  <1>7. DOMAIN spends =
            UNION {{<<i.spending, i.previous>> : i \in {j \in Range(InputsOf[chain[d]]) :
                j.previous \in DOMAIN utxos}} : d \in DOMAIN chain}
    <2>1. \A d \in DOMAIN chain :
            {<<i.spending, i.previous>> : i \in {j \in Range(InputsOf[chain[d]]) :
                j.previous \in DOMAIN utxos}} = {<<i.spending, i.previous>> : i \in SpendsHere(d)}
      BY <1>5
    <2> DEFINE keys(d) == {<<i.spending, i.previous>> : i \in SpendsHere(d)}
    <2>2. \A k : k \in DOMAIN spends <=> \E d \in DOMAIN chain : k \in keys(d)
      BY <1>6
    <2> HIDE DEF keys
    <2>3. DOMAIN spends = UNION {keys(d) : d \in DOMAIN chain}
      BY <2>2
    <2> USE DEF keys
    <2>4. DOMAIN spends = UNION {{<<i.spending, i.previous>> : i \in SpendsHere(d)} : d \in DOMAIN chain}
      BY <2>3
    <2> QED BY <2>1, <2>4
  <1>8. ASSUME NEW k \in DOMAIN spends
        PROVE  /\ k[1] \in Range(chain[spends[k].daa])
               /\ spends[k].covenant = utxos[k[2]].covenant
               /\ spends[k].continues <=>
                    \E o \in DOMAIN utxos : o[1] = k[1] /\ utxos[o].covenant = utxos[k[2]].covenant
    <2>1. PICK d \in DOMAIN chain : \E s \in SpendsHere(d) : k = <<s.spending, s.previous>>
      BY <1>6
    <2>2. PICK s \in SpendsHere(d) : k = <<s.spending, s.previous>>
      BY <2>1
    <2>3. k = SpendKey(s) /\ k[1] = s.spending /\ k[2] = s.previous
      BY <2>2 DEF SpendKey
    <2>4. SpendRow(d, s)
      BY <1>1, <1>2 DEF SpendInv
    <2>5. s.spending \in Range(chain[d])
      BY <1>1, InputFacts DEF SpendsHere
    <2> QED BY <2>3, <2>4, <2>5 DEF SpendRow, LineageContinues
  <1> QED BY <1>3, <1>4, <1>7, <1>8 DEF SpendsFollowChain, HitRow

\* The tracker and the spend rows are those of the selected chain, whatever
\* was tracked and unwound before: track_covenant_utxo, record_covenant_spend
\* and the two unwinds of the store, in the order in which main.rs calls them.
\* A row holds the payload of one hit, so it is that of every hit in the output
\* only if no two registered patterns match it.
THEOREM SpendsAlwaysFollowChain ==
    ASSUME OneKind
    PROVE  Spec => []SpendsFollowChain
  <1>1. FollowInv /\ [Next]_vars => FollowInv'
    BY FollowStep
  <1> QED BY <1>1, FollowInit, FollowImplies, PTL DEF Spec

-------------------------------------------------------------------------------
(* Lists that grow: the first k lists of a list of lists, one after another. *)

Joined(ss, k) == IF k = 0 THEN <<>> ELSE (CHOOSE f : Unrolls(ss, Len(ss), f))[k]

LEMMA ListRange ==
    ASSUME NEW s, IsList(s)
    PROVE  s \in Seq(Range(s)) /\ Len(s) \in Nat /\ DOMAIN s = 1..Len(s)
  <1>1. PICK S : s \in Seq(S)
    BY DEF IsList
  <1>2. PICK n \in Nat : s \in [1..n -> S]
    BY <1>1
  <1>3. s \in [1..n -> Range(s)]
    BY <1>2 DEF Range
  <1>4. PICK R : R = Range(s)
    OBVIOUS
  <1>5. s \in Seq(R)
    BY <1>2, <1>3, <1>4
  <1> QED BY <1>1, <1>4, <1>5

LEMMA NothingJoins ==
    ASSUME NEW s, IsList(s)
    PROVE  <<>> \o s = s /\ s \o <<>> = s
  <1>1. PICK S : s \in Seq(S)
    BY DEF IsList
  <1> QED BY <1>1

LEMMA JoinAssociates ==
    ASSUME NEW r, NEW s, NEW t, IsList(r), IsList(s), IsList(t)
    PROVE  (r \o s) \o t = r \o (s \o t)
  <1>1. PICK R, S, T : r \in Seq(R) /\ s \in Seq(S) /\ t \in Seq(T)
    BY DEF IsList
  <1>2. PICK U : U = R \cup S \cup T
    OBVIOUS
  <1>3. r \in Seq(U) /\ s \in Seq(U) /\ t \in Seq(U)
    BY <1>1, <1>2
  <1> QED BY <1>3

LEMMA EmptyIsList == IsList(<<>>)
  <1>1. <<>> \in Seq({})
    OBVIOUS
  <1> QED BY <1>1 DEF IsList

LEMMA JoinedIs ==
    ASSUME NEW n \in Nat, NEW ss, ss = [i \in 1..n |-> ss[i]], \A i \in 1..n : IsList(ss[i])
    PROVE  /\ Joined(ss, 0) = <<>>
           /\ \A k \in 1..n : Joined(ss, k) = Joined(ss, k - 1) \o ss[k]
           /\ \A k \in 0..n : IsList(Joined(ss, k))
           /\ FlattenSeq(ss) = Joined(ss, n)
  <1> DEFINE f == CHOOSE g : Unrolls(ss, n, g)
  <1>1. PICK T : T = {ss[i] : i \in 1..n}
    OBVIOUS
  <1>2. ss \in [1..n -> T]
    BY <1>1
  <1>3. ss \in Seq(T) /\ Len(ss) = n
    BY <1>2
  <1>4. Unrolls(ss, n, f)
    BY UnrollsExists
  <1>5. Joined(ss, 0) = <<>> /\ \A k \in 1..n : Joined(ss, k) = f[k]
    <2>1. \A k \in 1..n : k # 0
      OBVIOUS
    <2> QED BY <1>3, <2>1 DEF Joined
  <1> HIDE DEF f
  <1>6. \A k \in 1..n : f[k] = IF k = 1 THEN ss[k] ELSE f[k - 1] \o ss[k]
    BY <1>4 DEF Unrolls
  <1>7. ASSUME NEW k \in 1..n PROVE Joined(ss, k) = Joined(ss, k - 1) \o ss[k]
    <2>1. CASE k = 1
      <3>1. <<>> \o ss[k] = ss[k]
        BY NothingJoins
      <3>2. k - 1 = 0 /\ f[k] = ss[k]
        BY <1>6, <2>1
      <3> QED BY <1>5, <3>1, <3>2
    <2>2. CASE k # 1
      <3>1. k - 1 \in 1..n
        BY <2>2
      <3> QED BY <1>5, <1>6, <2>2, <3>1
    <2> QED BY <2>1, <2>2
  <1>8. \A k \in 0..n : IsList(Joined(ss, k))
    <2> DEFINE bad == {k \in 0..n : ~IsList(Joined(ss, k))}
    <2>1. ASSUME bad # {} PROVE FALSE
      <3>1. PICK m \in bad : \A k \in bad : m <= k
        <4> HIDE DEF bad
        <4>1. bad \subseteq Nat
          BY DEF bad
        <4> QED BY <2>1, <4>1, LeastNatural
      <3>2. CASE m = 0
        BY <1>5, <3>1, <3>2, EmptyIsList
      <3>3. CASE m # 0
        <4>1. m \in 1..n /\ m - 1 \in 0..n /\ ~(m <= m - 1)
          BY <3>1, <3>3
        <4>2. IsList(Joined(ss, m - 1))
          BY <3>1, <4>1
        <4>3. IsList(Joined(ss, m - 1) \o ss[m])
          BY <4>1, <4>2, ListExtends
        <4> QED BY <1>7, <3>1, <4>1, <4>3
      <3> QED BY <3>2, <3>3
    <2> QED BY <2>1
  <1>9. FlattenSeq(ss) = Joined(ss, n)
    <2>1. CASE n = 0
      <3>1. FlattenSeq(ss) = ss /\ ss = <<>>
        BY <1>3, <2>1 DEF FlattenSeq
      <3> QED BY <1>5, <2>1, <3>1
    <2>2. CASE n # 0
      <3>1. FlattenSeq(ss) = f[n]
        BY <1>3, <2>2 DEF FlattenSeq, Unrolls, f
      <3>2. n \in 1..n
        BY <2>2
      <3> QED BY <1>5, <3>1, <3>2
    <2> QED BY <2>1, <2>2
  <1> QED BY <1>5, <1>7, <1>8, <1>9

-------------------------------------------------------------------------------
(* Tables of versions.                                                       *)

IsTable(t) == t = [k \in DOMAIN t |-> t[k]]

LEMMA NothingWritten ==
    ASSUME NEW t, IsTable(t)
    PROVE  Upsert(t, <<>>) = t
  <1>1. Range(<<>>) = {}
    BY DEF Range
  <1>2. {<<r.entity, r.daa>> : r \in Range(<<>>)} = {}
    BY <1>1
  <1>3. Upsert(t, <<>>) = [k \in DOMAIN t |-> t[k]]
    BY <1>2 DEF Upsert
  <1> QED BY <1>3 DEF IsTable

KeyOf(r) == <<r.entity, r.daa>>
WritesTo(records, k) == {i \in DOMAIN records : KeyOf(records[i]) = k}

LEMMA UpsertIs ==
    ASSUME NEW t, NEW records
    PROVE  /\ IsTable(Upsert(t, records))
           /\ \A k : k \in DOMAIN Upsert(t, records) <=> k \in DOMAIN t \/ WritesTo(records, k) # {}
           /\ \A k \in DOMAIN Upsert(t, records) :
                Upsert(t, records)[k] = IF WritesTo(records, k) # {}
                                        THEN records[Max(WritesTo(records, k))].data ELSE t[k]
  <1> DEFINE keys == {<<r.entity, r.daa>> : r \in Range(records)}
  <1>1. \A k : k \in keys <=> WritesTo(records, k) # {}
    BY DEF WritesTo, KeyOf, Range
  <1>2. Upsert(t, records) = [k \in keys \cup DOMAIN t |->
                                IF k \in keys THEN records[Max(WritesTo(records, k))].data ELSE t[k]]
    BY DEF Upsert, WritesTo, KeyOf
  <1> HIDE DEF keys
  <1> QED BY <1>1, <1>2 DEF IsTable

\* Two tables with the same keys and rows are the same.
LEMMA SameTable ==
    ASSUME NEW t, NEW u, IsTable(t), IsTable(u), \A k : k \in DOMAIN t <=> k \in DOMAIN u,
           \A k \in DOMAIN t : t[k] = u[k]
    PROVE  t = u
  <1>1. DOMAIN t = DOMAIN u
    OBVIOUS
  <1> QED BY <1>1 DEF IsTable

\* The last record for a key decides, wherever the list is cut in two.
LEMMA UpsertTwice ==
    ASSUME NEW t, NEW r, NEW s, IsList(r), IsList(s)
    PROVE  Upsert(Upsert(t, r), s) = Upsert(t, r \o s)
  <1>1. /\ Len(r) \in Nat /\ Len(s) \in Nat /\ DOMAIN r = 1..Len(r) /\ DOMAIN s = 1..Len(s)
    BY ListRange, SMTT(30)
  <1>2. PICK m \in Nat, n \in Nat : m = Len(r) /\ n = Len(s)
    BY <1>1, ZenonT(60)
  <1>3. /\ DOMAIN (r \o s) = 1..(m + n)
        /\ \A i \in 1..m : (r \o s)[i] = r[i]
        /\ \A i \in 1..n : (r \o s)[m + i] = s[i]
    <2>1. PICK R, S : r \in Seq(R) /\ s \in Seq(S)
      BY DEF IsList
    <2>2. PICK U : U = R \cup S
      OBVIOUS
    <2>3. r \in Seq(U) /\ s \in Seq(U)
      BY <2>1, <2>2
    <2>4. /\ r \o s \in Seq(U) /\ Len(r \o s) = Len(r) + Len(s)
          /\ \A i \in 1..Len(r) : (r \o s)[i] = r[i]
          /\ \A i \in 1..Len(s) : (r \o s)[Len(r) + i] = s[i]
      BY <2>3, ConcatProperties
    <2> QED BY <1>2, <2>4
  <1>4. PICK c : c = r \o s
    OBVIOUS
  <1>5. ASSUME NEW k
        PROVE  /\ WritesTo(c, k) # {} <=> WritesTo(r, k) # {} \/ WritesTo(s, k) # {}
               /\ WritesTo(s, k) # {} => c[Max(WritesTo(c, k))] = s[Max(WritesTo(s, k))]
               /\ WritesTo(s, k) = {} => WritesTo(c, k) = WritesTo(r, k)
               /\ WritesTo(c, k) \subseteq 1..(m + n)
               /\ WritesTo(r, k) \subseteq 1..m
    <2>1. WritesTo(r, k) \subseteq 1..m /\ WritesTo(s, k) \subseteq 1..n
          /\ WritesTo(c, k) \subseteq 1..(m + n)
      BY <1>1, <1>2, <1>3, <1>4 DEF WritesTo
    <2>2. \A i \in 1..m : i \in WritesTo(c, k) <=> i \in WritesTo(r, k)
      BY <1>1, <1>2, <1>3, <1>4 DEF WritesTo
    <2>3. \A i \in 1..n : m + i \in WritesTo(c, k) <=> i \in WritesTo(s, k)
      BY <1>1, <1>2, <1>3, <1>4 DEF WritesTo
    <2>4. \A i \in 1..(m + n) : i \in 1..m \/ \E j \in 1..n : i = m + j
      <3> SUFFICES ASSUME NEW i \in 1..(m + n), i \notin 1..m PROVE \E j \in 1..n : i = m + j
        OBVIOUS
      <3>1. i - m \in 1..n /\ i = m + (i - m)
        OBVIOUS
      <3> QED BY <3>1
    <2>5. WritesTo(s, k) = {} => WritesTo(c, k) = WritesTo(r, k)
      BY <2>1, <2>2, <2>3, <2>4
    <2>6. WritesTo(c, k) # {} <=> WritesTo(r, k) # {} \/ WritesTo(s, k) # {}
      BY <2>1, <2>2, <2>3, <2>4
    <2>7. ASSUME WritesTo(s, k) # {}
          PROVE  c[Max(WritesTo(c, k))] = s[Max(WritesTo(s, k))]
      <3>1. PICK a : a = Max(WritesTo(c, k))
        OBVIOUS
      <3>2. PICK b : b = Max(WritesTo(s, k))
        OBVIOUS
      <3>3. b \in WritesTo(s, k) /\ \A i \in WritesTo(s, k) : i <= b
        <4>1. WritesTo(s, k) \subseteq Nat /\ \A i \in WritesTo(s, k) : i <= n
          BY <2>1
        <4> QED BY <2>7, <3>2, <4>1, MaxIs
      <3>4. a \in WritesTo(c, k) /\ \A i \in WritesTo(c, k) : i <= a
        <4>1. WritesTo(c, k) \subseteq Nat /\ (\A i \in WritesTo(c, k) : i <= m + n) /\ m + n \in Nat
          BY <2>1
        <4>2. WritesTo(c, k) # {}
          BY <2>6, <2>7
        <4> QED BY <3>1, <4>1, <4>2, MaxIs
      <3>5. b \in 1..n /\ a \in 1..(m + n)
        BY <2>1, <3>3, <3>4
      <3>6. m + b <= a
        BY <2>3, <3>3, <3>4, <3>5
      <3>7. PICK j \in 1..n : a = m + j
        <4>1. a \notin 1..m
          BY <3>5, <3>6
        <4> QED BY <2>4, <3>5, <4>1
      <3>8. j <= b
        BY <2>3, <3>3, <3>4, <3>7
      <3>9. j = b
        BY <3>5, <3>6, <3>7, <3>8
      <3> QED BY <1>3, <1>4, <3>1, <3>2, <3>5, <3>7, <3>9
    <2> QED BY <2>1, <2>5, <2>6, <2>7
  <1>6. PICK v : v = Upsert(t, r)
    OBVIOUS
  <1>7. PICK w : w = Upsert(v, s)
    OBVIOUS
  <1>8. PICK u : u = Upsert(t, c)
    OBVIOUS
  <1>9. /\ IsTable(w) /\ IsTable(u)
        /\ \A k : k \in DOMAIN v <=> k \in DOMAIN t \/ WritesTo(r, k) # {}
        /\ \A k : k \in DOMAIN w <=> k \in DOMAIN v \/ WritesTo(s, k) # {}
        /\ \A k : k \in DOMAIN u <=> k \in DOMAIN t \/ WritesTo(c, k) # {}
    BY <1>6, <1>7, <1>8, UpsertIs
  <1>10. ASSUME NEW k \in DOMAIN w PROVE w[k] = u[k]
    <2>1. k \in DOMAIN u
      BY <1>5, <1>9
    <2>2. CASE WritesTo(s, k) # {}
      <3>1. w[k] = s[Max(WritesTo(s, k))].data
        BY <1>7, <2>2, UpsertIs
      <3>2. u[k] = c[Max(WritesTo(c, k))].data
        BY <1>5, <1>8, <2>1, <2>2, UpsertIs
      <3> QED BY <1>5, <2>2, <3>1, <3>2
    <2>3. CASE WritesTo(s, k) = {}
      <3>1. k \in DOMAIN v /\ w[k] = v[k]
        BY <1>7, <1>9, <2>3, UpsertIs
      <3>2. v[k] = IF WritesTo(r, k) # {} THEN r[Max(WritesTo(r, k))].data ELSE t[k]
        BY <1>6, <3>1, UpsertIs
      <3>3. u[k] = IF WritesTo(c, k) # {} THEN c[Max(WritesTo(c, k))].data ELSE t[k]
        BY <1>8, <2>1, UpsertIs
      <3>4. WritesTo(c, k) = WritesTo(r, k)
        BY <1>5, <2>3
      <3>5. WritesTo(r, k) # {} => c[Max(WritesTo(r, k))] = r[Max(WritesTo(r, k))]
        <4> SUFFICES ASSUME WritesTo(r, k) # {}
                     PROVE  c[Max(WritesTo(r, k))] = r[Max(WritesTo(r, k))]
          OBVIOUS
        <4>1. WritesTo(r, k) \subseteq Nat /\ \A i \in WritesTo(r, k) : i <= m
          BY <1>5
        <4>2. Max(WritesTo(r, k)) \in 1..m
          BY <1>5, <4>1, MaxIs
        <4> QED BY <1>3, <1>4, <4>2
      <3> QED BY <3>1, <3>2, <3>3, <3>4, <3>5
    <2> QED BY <2>2, <2>3
  <1>11. w = u
    BY <1>5, <1>9, <1>10, SameTable
  <1> QED BY <1>4, <1>6, <1>7, <1>8, <1>11

\* The versions of the blocks before are what is left when those of one are
\* taken away.
LEMMA UpsertTakenBack ==
    ASSUME NEW t, NEW records, NEW d \in Nat, IsTable(t),
           \A k \in DOMAIN t : k[2] \in Nat /\ k[2] < d, \A i \in DOMAIN records : records[i].daa = d
    PROVE  Restrict(Upsert(t, records), {k \in DOMAIN Upsert(t, records) : k[2] < d}) = t
  <1>1. PICK u : u = Upsert(t, records)
    OBVIOUS
  <1>2. \A k : WritesTo(records, k) # {} => k[2] = d
    BY DEF WritesTo, KeyOf
  <1>3. \A k : k \in DOMAIN t <=> k \in DOMAIN u /\ k[2] < d
    BY <1>1, <1>2, UpsertIs
  <1>4. \A k \in DOMAIN t : u[k] = t[k]
    <2> SUFFICES ASSUME NEW k \in DOMAIN t PROVE u[k] = t[k]
      OBVIOUS
    <2>1. k[2] # d
      OBVIOUS
    <2>2. WritesTo(records, k) = {}
      BY <1>2, <2>1
    <2> QED BY <1>1, <1>3, <2>2, UpsertIs
  <1>5. {k \in DOMAIN u : k[2] < d} = DOMAIN t
    BY <1>3
  <1>6. Restrict(u, DOMAIN t) = [k \in DOMAIN t |-> t[k]]
    BY <1>4 DEF Restrict
  <1> QED BY <1>1, <1>5, <1>6 DEF IsTable

-------------------------------------------------------------------------------
(* What a handler does, told step by step and from its description.          *)

OpList(program, event, entities) ==
    [i \in DOMAIN program |->
        IF program[i].call = "set"
        THEN <<Op(program[i].entity, Append(SeenAt(program, entities, i), event))>>
        ELSE <<>>]

\* How far the handler that runs has come.
Progress(entities) ==
    /\ guest.handler \in DOMAIN mapping.exports
    /\ guest.step \in 1..(Len(Program) + 1)
    /\ \A j \in 1..(guest.step - 1) : Program[j].call = "get" \/ Program[j].call = "set"
    /\ \/ guest.fuel + (guest.step - 1) = Fuel
       \/ guest.step <= Len(Program) /\ Program[guest.step].call = "loop"
    /\ guest.seen = SeenAt(Program, entities, guest.step)
    /\ guest.ops = Joined(OpList(Program, guest.event, entities), guest.step - 1)

GuestRuns(handler, event, entities) ==
    /\ guest.running
    /\ guest.handler = handler /\ guest.event = event
    /\ \/ guest.outcome = "runs" /\ Progress(entities)
       \/ guest.outcome = "returned" /\ guest.ops = OpsOf(handler, event, entities)
       \/ guest.outcome = "failed" /\ OpsOf(handler, event, entities) = <<>>

LEMMA OpsOfIs ==
    ASSUME NEW handler, NEW event, NEW entities
    PROVE  OpsOf(handler, event, entities) =
                IF Completes(handler) THEN FlattenSeq(OpList(mapping.exports[handler], event, entities))
                ELSE <<>>
  BY DEF OpsOf, OpList

LEMMA ProgramIsList ==
    ASSUME mapping \in Mappings, mapping # Unmapped, NEW handler \in DOMAIN mapping.exports
    PROVE  IsList(mapping.exports[handler])
  BY PipelineAssumption DEF IsList

LEMMA OpListIs ==
    ASSUME NEW program, IsList(program), NEW event, NEW entities
    PROVE  LET ss == OpList(program, event, entities)
           IN  /\ Joined(ss, 0) = <<>>
               /\ \A k \in 1..Len(program) : Joined(ss, k) = Joined(ss, k - 1) \o ss[k]
               /\ \A k \in 0..Len(program) : IsList(Joined(ss, k))
               /\ FlattenSeq(ss) = Joined(ss, Len(program))
  <1>1. PICK n \in Nat : n = Len(program) /\ DOMAIN program = 1..n
    BY ListRange
  <1>2. PICK ss : ss = OpList(program, event, entities)
    OBVIOUS
  <1>3. ss = [i \in 1..n |-> ss[i]]
    BY <1>1, <1>2 DEF OpList
  <1>4. ASSUME NEW i \in 1..n PROVE IsList(ss[i])
    <2>1. PICK x : x = Op(program[i].entity, Append(SeenAt(program, entities, i), event))
      OBVIOUS
    <2>2. ss[i] = <<x>> \/ ss[i] = <<>>
      BY <1>1, <1>2, <2>1 DEF OpList
    <2>3. <<x>> \in Seq({x})
      OBVIOUS
    <2> QED BY <2>2, <2>3, EmptyIsList DEF IsList
  <1> QED BY <1>1, <1>2, <1>3, <1>4, JoinedIs

LEMMA OpsOfIsList ==
    ASSUME mapping \in Mappings, mapping # Unmapped, NEW handler, NEW event, NEW entities
    PROVE  IsList(OpsOf(handler, event, entities))
  <1>1. CASE Completes(handler)
    <2>1. PICK program : program = mapping.exports[handler]
      OBVIOUS
    <2>2. IsList(program) /\ Len(program) \in Nat
      BY <1>1, <2>1, ProgramIsList, ListRange DEF Completes
    <2>3. Len(program) \in 0..Len(program)
      BY <2>2
    <2>4. IsList(FlattenSeq(OpList(program, event, entities)))
      BY <2>2, <2>3, OpListIs
    <2> QED BY <1>1, <2>1, <2>4, OpsOfIs
  <1>2. CASE ~Completes(handler)
    BY <1>2, OpsOfIs, EmptyIsList
  <1> QED BY <1>1, <1>2

\* What a handler knows at a call is what it read last.
LEMMA SeenNext ==
    ASSUME NEW program, NEW entities, NEW i \in Nat \ {0}
    PROVE  SeenAt(program, entities, i + 1) =
                IF program[i].call = "get" THEN ReadEntity(entities, program[i].entity)
                ELSE SeenAt(program, entities, i)
  <1> DEFINE before == {j \in 1..(i - 1) : program[j].call = "get"}
             after == {j \in 1..((i + 1) - 1) : program[j].call = "get"}
  <1>1. /\ SeenAt(program, entities, i) =
                IF before = {} THEN <<>> ELSE ReadEntity(entities, program[Max(before)].entity)
        /\ SeenAt(program, entities, i + 1) =
                IF after = {} THEN <<>> ELSE ReadEntity(entities, program[Max(after)].entity)
    BY DEF SeenAt
  <1>2. CASE program[i].call = "get"
    <2>1. i \in after /\ after \subseteq Nat /\ \A j \in after : j <= i
      BY <1>2
    <2>2. PICK m : m = Max(after)
      OBVIOUS
    <2> HIDE DEF after
    <2>3. m \in after /\ \A j \in after : j <= m
      BY <2>1, <2>2, MaxIs
    <2>4. m = i
      BY <2>1, <2>3
    <2>5. after # {}
      BY <2>1
    <2> HIDE DEF before
    <2> QED BY <1>1, <1>2, <2>2, <2>4, <2>5
  <1>3. CASE program[i].call # "get"
    <2>1. before = after
      <3>1. \A j : j \in 1..((i + 1) - 1) <=> j \in 1..(i - 1) \/ j = i
        OBVIOUS
      <3>2. \A j : j \in before <=> j \in after
        BY <1>3, <3>1
      <3> QED BY <3>2
    <2> HIDE DEF before, after
    <2> QED BY <1>1, <1>3, <2>1
  <1> QED BY <1>2, <1>3

LEMMA InstanceRuns ==
    ASSUME mapping \in Mappings, mapping # Unmapped, NEW handler, NEW event, NEW entities,
           UNCHANGED mapping, guest' = Instantiate(handler, event)
    PROVE  GuestRuns(handler, event, entities)'
  <1>1. /\ guest'.running /\ guest'.handler = handler /\ guest'.event = event
        /\ guest'.step = 1 /\ guest'.seen = <<>> /\ guest'.ops = <<>> /\ guest'.fuel = Fuel
        /\ guest'.outcome = IF handler \in DOMAIN mapping.exports THEN "runs" ELSE "failed"
    BY DEF Instantiate
  <1>2. CASE handler \in DOMAIN mapping.exports
    <2>1. PICK program : program = mapping.exports[handler]
      OBVIOUS
    <2>2. IsList(program) /\ Len(program) \in Nat
      BY <1>2, <2>1, ProgramIsList, ListRange
    <2>3. Program' = program
      BY <1>1, <2>1 DEF Program
    <2>4. 1..(1 - 1) = {} /\ 1 \in 1..(Len(program) + 1)
      BY <2>2
    <2>5. SeenAt(program, entities, 1) = <<>>
      BY <2>4 DEF SeenAt
    <2>6. Joined(OpList(program, event, entities), 1 - 1) = <<>>
      <3>1. 1 - 1 = 0
        OBVIOUS
      <3> QED BY <3>1 DEF Joined
    <2>7. Fuel + (1 - 1) = Fuel
      BY PipelineAssumption
    <2>8. Progress(entities)'
      BY <1>1, <1>2, <2>3, <2>4, <2>5, <2>6, <2>7 DEF Progress
    <2> QED BY <1>1, <1>2, <2>8 DEF GuestRuns
  <1>3. CASE handler \notin DOMAIN mapping.exports
    <2>1. OpsOf(handler, event, entities)' = <<>>
      BY <1>3 DEF OpsOf, Completes
    <2> QED BY <1>1, <1>3, <2>1 DEF GuestRuns
  <1> QED BY <1>2, <1>3

\* A program that holds a call that traps or loops does not complete, and
\* neither does one that is longer than the fuel lasts.
LEMMA NotComplete ==
    ASSUME mapping \in Mappings, mapping # Unmapped, guest.handler \in DOMAIN mapping.exports,
           NEW i \in 1..Len(Program),
           (Program[i].call # "get" /\ Program[i].call # "set") \/ Fuel < i,
           NEW event, NEW entities
    PROVE  OpsOf(guest.handler, event, entities) = <<>>
  <1>1. IsList(Program) /\ DOMAIN Program = 1..Len(Program) /\ Len(Program) \in Nat
    BY ProgramIsList, ListRange DEF Program
  <1>2. Program[i] \in Range(Program)
    BY <1>1 DEF Range
  <1>3. Fuel < i => Fuel < Len(Program)
    BY <1>1, PipelineAssumption
  <1>4. ~(Len(Program) <= Fuel) \/ Program[i].call \notin {"get", "set"}
    <2>1. CASE Fuel < i
      BY <1>1, <1>3, <2>1, PipelineAssumption
    <2>2. CASE Program[i].call # "get" /\ Program[i].call # "set"
      BY <2>2
    <2> QED BY <2>1, <2>2
  <1>5. ~Completes(guest.handler)
    BY <1>2, <1>4 DEF Completes, Program
  <1> QED BY <1>5, OpsOfIs

LEMMA ReturnRuns ==
    ASSUME TypeInv, mapping # Unmapped, NEW handler, NEW event, NEW entities,
           GuestRuns(handler, event, entities), Return
    PROVE  GuestRuns(handler, event, entities)'
  <1>1. /\ UNCHANGED mapping /\ guest.outcome = "runs" /\ guest.step > Len(Program)
        /\ guest' = [guest EXCEPT !.outcome = "returned"]
        /\ Progress(entities) /\ mapping \in Mappings
    BY DEF Return, Running, GuestRuns, TypeInv
  <1>2. DOMAIN guest = GuestFields
    BY DEF TypeInv, GuestInv, GuestRuns, NoGuest
  <1>3. /\ guest'.outcome = "returned" /\ guest'.running = guest.running
        /\ guest'.handler = guest.handler /\ guest'.event = guest.event /\ guest'.ops = guest.ops
    BY <1>1, <1>2 DEF GuestFields
  <1>4. /\ IsList(Program) /\ Len(Program) \in Nat /\ DOMAIN Program = 1..Len(Program)
        /\ guest.step = Len(Program) + 1
    <2>1. IsList(Program)
      BY <1>1, ProgramIsList DEF Progress, Program
    <2> QED BY <1>1, <2>1, ListRange DEF Progress
  <1>5. guest.ops = FlattenSeq(OpList(Program, event, entities))
    <2>1. guest.step - 1 = Len(Program)
      BY <1>4
    <2>2. guest.ops = Joined(OpList(Program, event, entities), Len(Program))
      BY <1>1, <2>1 DEF Progress, GuestRuns
    <2>3. FlattenSeq(OpList(Program, event, entities))
            = Joined(OpList(Program, event, entities), Len(Program))
      BY <1>4, OpListIs
    <2> QED BY <2>2, <2>3
  <1>6. Completes(guest.handler)
    <2>1. guest.fuel + Len(Program) = Fuel /\ guest.fuel \in Nat
      <3>1. ~(guest.step <= Len(Program)) /\ guest.step - 1 = Len(Program)
        BY <1>4
      <3>2. guest.fuel \in 0..Fuel
        BY DEF TypeInv, GuestInv, GuestRuns, NoGuest
      <3> QED BY <1>1, <3>1, <3>2 DEF Progress
    <2>2. Len(Program) <= Fuel
      BY <1>4, <2>1, PipelineAssumption
    <2>3. \A call \in Range(Program) : call.call \in {"get", "set"}
      <3>1. \A j \in 1..(guest.step - 1) : Program[j].call = "get" \/ Program[j].call = "set"
        BY <1>1 DEF Progress
      <3>2. \A j \in 1..Len(Program) : Program[j].call = "get" \/ Program[j].call = "set"
        <4>1. guest.step - 1 = Len(Program)
          BY <1>4
        <4> QED BY <3>1, <4>1
      <3> QED BY <1>4, <3>2 DEF Range
    <2> QED BY <1>1, <2>2, <2>3 DEF Completes, Program, Progress
  <1>7. guest.ops = OpsOf(handler, event, entities)
    BY <1>5, <1>6, OpsOfIs DEF GuestRuns, Program
  <1>8. OpsOf(handler, event, entities)' = OpsOf(handler, event, entities)
    BY <1>1 DEF OpsOf, Completes
  <1> QED BY <1>3, <1>7, <1>8 DEF GuestRuns

LEMMA HostCallRuns ==
    ASSUME TypeInv, mapping # Unmapped, NEW handler, NEW event, NEW entities, snapshot = entities,
           GuestRuns(handler, event, entities), NEW call, HostCall(call)
    PROVE  GuestRuns(handler, event, entities)'
  <1>1. /\ UNCHANGED mapping /\ guest.outcome = "runs" /\ guest.step <= Len(Program)
        /\ Program[guest.step] = call /\ Progress(entities) /\ mapping \in Mappings
    BY DEF HostCall, Running, GuestRuns, TypeInv
  <1>2. DOMAIN guest = GuestFields /\ guest.fuel \in 0..Fuel /\ Fuel \in Nat
    BY PipelineAssumption DEF TypeInv, GuestInv, GuestRuns, NoGuest
  <1>3. IsList(Program) /\ Len(Program) \in Nat /\ guest.step \in 1..Len(Program)
    <2>1. IsList(Program)
      BY <1>1, ProgramIsList DEF Progress, Program
    <2>2. Len(Program) \in Nat /\ guest.step \in 1..(Len(Program) + 1)
      BY <1>1, <2>1, ListRange DEF Progress
    <2> QED BY <1>1, <2>1, <2>2
  <1>4. OpsOf(handler, event, entities)' = OpsOf(handler, event, entities)
    BY <1>1 DEF OpsOf, Completes
  \* it fails
  <1>5. ASSUME guest' = [guest EXCEPT !.outcome = "failed"] \/
               guest' = [[guest EXCEPT !.fuel = @ - 1] EXCEPT !.outcome = "failed"],
               (Program[guest.step].call # "get" /\ Program[guest.step].call # "set") \/ Fuel < guest.step
        PROVE  GuestRuns(handler, event, entities)'
    <2>1. /\ guest'.outcome = "failed" /\ guest'.running = guest.running
          /\ guest'.handler = guest.handler /\ guest'.event = guest.event
      BY <1>2, <1>5 DEF GuestFields
    <2>2. OpsOf(guest.handler, event, entities) = <<>>
      BY <1>1, <1>3, <1>5, NotComplete DEF Progress
    <2> QED BY <1>4, <2>1, <2>2 DEF GuestRuns
  <1>6. CASE guest.fuel = 0
    <2>1. guest' = [guest EXCEPT !.outcome = "failed"]
      BY <1>6 DEF HostCall
    <2>2. CASE Program[guest.step].call = "loop"
      BY <1>5, <2>1, <2>2
    <2>3. CASE guest.fuel + (guest.step - 1) = Fuel
      <3>1. Fuel < guest.step
        BY <1>2, <1>3, <1>6, <2>3
      <3> QED BY <1>5, <2>1, <3>1
    <2> QED BY <1>1, <2>2, <2>3 DEF Progress
  <1>7. CASE guest.fuel # 0
    <2> DEFINE g == [guest EXCEPT !.fuel = @ - 1]
    <2>1. guest' =
            CASE call.call = "get" ->
                    [g EXCEPT !.step = @ + 1, !.seen = ReadEntity(entities, call.entity)]
              [] call.call = "set" ->
                    [g EXCEPT !.step = @ + 1,
                              !.ops = Append(@, Op(call.entity, Append(g.seen, g.event)))]
              [] call.call = "loop" -> g
              [] OTHER -> [g EXCEPT !.outcome = "failed"]
      BY <1>7 DEF HostCall
    <2>2. /\ DOMAIN g = GuestFields /\ g.fuel = guest.fuel - 1 /\ g.step = guest.step
          /\ g.running = guest.running /\ g.outcome = "runs"
          /\ g.handler = guest.handler /\ g.event = guest.event
          /\ g.seen = guest.seen /\ g.ops = guest.ops
      BY <1>1, <1>2 DEF GuestFields
    <2>3. CASE call.call \notin {"get", "set", "loop"}
      <3>1. guest' = [g EXCEPT !.outcome = "failed"]
        BY <2>1, <2>3
      <3>2. Program[guest.step].call # "get" /\ Program[guest.step].call # "set"
        BY <1>1, <2>3
      <3> QED BY <1>5, <3>1, <3>2
    <2> HIDE DEF g
    <2>4. CASE call.call = "loop"
      <3>1. guest' = g
        BY <2>1, <2>4
      <3>2. Program' = Program
        BY <1>1, <2>2, <3>1 DEF Program
      <3>3. Progress(entities)'
        BY <1>1, <2>2, <2>4, <3>1, <3>2 DEF Progress
      <3> QED BY <2>2, <3>1, <3>3 DEF GuestRuns
    <2>5. ASSUME Program[guest.step].call = "get" \/ Program[guest.step].call = "set",
                 guest'.running = guest.running, guest'.outcome = "runs",
                 guest'.handler = guest.handler, guest'.event = guest.event,
                 guest'.step = guest.step + 1, guest'.fuel = guest.fuel - 1,
                 guest'.seen = SeenAt(Program, entities, guest.step + 1),
                 guest'.ops = Joined(OpList(Program, guest.event, entities), guest.step)
          PROVE  GuestRuns(handler, event, entities)'
      <3>1. Program' = Program
        BY <1>1, <2>5 DEF Program
      <3>2. guest'.step - 1 = guest.step /\ guest'.step \in 1..(Len(Program) + 1)
        BY <1>3, <2>5
      <3>3. guest'.fuel + guest.step = Fuel
        <4>1. Program[guest.step].call # "loop"
          BY <2>5
        <4>2. guest.fuel + (guest.step - 1) = Fuel
          BY <1>1, <4>1 DEF Progress
        <4> QED BY <1>2, <1>3, <2>5, <4>2
      <3>4. \A j \in 1..guest.step : Program[j].call = "get" \/ Program[j].call = "set"
        <4>1. \A j \in 1..guest.step : j \in 1..(guest.step - 1) \/ j = guest.step
          BY <1>3
        <4> QED BY <1>1, <2>5, <4>1 DEF Progress
      <3>5. Progress(entities)'
        BY <1>1, <2>5, <3>1, <3>2, <3>3, <3>4 DEF Progress
      <3> QED BY <2>5, <3>5 DEF GuestRuns
    <2>6. Joined(OpList(Program, guest.event, entities), guest.step)
            = Joined(OpList(Program, guest.event, entities), guest.step - 1)
                \o OpList(Program, guest.event, entities)[guest.step]
      BY <1>3, OpListIs
    <2>7. IsList(guest.ops) /\ guest.ops = Joined(OpList(Program, guest.event, entities), guest.step - 1)
      BY <1>1 DEF Progress, TypeInv, GuestInv, GuestRuns, NoGuest
    <2>8. guest.step \in DOMAIN Program /\ guest.step \in Nat \ {0}
      BY <1>3, ListRange
    <2>9. CASE call.call = "get"
      <3>1. guest' = [g EXCEPT !.step = @ + 1, !.seen = ReadEntity(entities, call.entity)]
        BY <2>1, <2>9
      <3>2. /\ guest'.running = guest.running /\ guest'.outcome = "runs"
            /\ guest'.handler = guest.handler /\ guest'.event = guest.event
            /\ guest'.step = guest.step + 1 /\ guest'.fuel = guest.fuel - 1
            /\ guest'.seen = ReadEntity(entities, call.entity) /\ guest'.ops = guest.ops
        BY <2>2, <3>1 DEF GuestFields
      <3>3. OpList(Program, guest.event, entities)[guest.step] = <<>>
        BY <1>1, <2>8, <2>9 DEF OpList
      <3>4. guest.ops \o <<>> = guest.ops
        BY <2>7, NothingJoins
      <3>5. guest'.seen = SeenAt(Program, entities, guest.step + 1)
        BY <1>1, <2>8, <2>9, <3>2, SeenNext
      <3> QED BY <1>1, <2>5, <2>6, <2>7, <2>9, <3>2, <3>3, <3>4, <3>5
    <2>10. CASE call.call = "set"
      <3> DEFINE x == Op(call.entity, Append(g.seen, g.event))
      <3>1. guest' = [g EXCEPT !.step = @ + 1, !.ops = Append(@, x)]
        BY <2>1, <2>10
      <3>2. /\ guest'.running = guest.running /\ guest'.outcome = "runs"
            /\ guest'.handler = guest.handler /\ guest'.event = guest.event
            /\ guest'.step = guest.step + 1 /\ guest'.fuel = guest.fuel - 1
            /\ guest'.seen = guest.seen /\ guest'.ops = Append(guest.ops, x)
        <4> HIDE DEF x
        <4> QED BY <2>2, <3>1 DEF GuestFields
      <3>3. OpList(Program, guest.event, entities)[guest.step] = <<x>>
        <4>1. g.seen = SeenAt(Program, entities, guest.step)
          BY <1>1, <2>2 DEF Progress
        <4> QED BY <1>1, <2>2, <2>8, <2>10, <4>1 DEF OpList
      <3> HIDE DEF x
      <3>4. guest.ops \o <<x>> = Append(guest.ops, x)
        <4>1. PICK S : guest.ops \in Seq(S)
          BY <2>7 DEF IsList
        <4>2. guest.ops \in Seq(S \cup {x}) /\ x \in S \cup {x}
          BY <4>1
        <4> QED BY <4>2
      <3>5. guest'.seen = SeenAt(Program, entities, guest.step + 1)
        <4>1. Program[guest.step].call # "get"
          BY <1>1, <2>10
        <4> QED BY <1>1, <2>8, <3>2, <4>1, SeenNext DEF Progress
      <3> QED BY <1>1, <2>5, <2>6, <2>7, <2>10, <3>2, <3>3, <3>4, <3>5
    <2> QED BY <2>3, <2>4, <2>9, <2>10
  <1> QED BY <1>6, <1>7

\* What a handler that is over emits is what its description says.
LEMMA EmittedIs ==
    ASSUME NEW handler, NEW event, NEW entities, GuestRuns(handler, event, entities),
           Returned \/ Failed
    PROVE  Emitted = OpsOf(handler, event, entities)
  BY DEF GuestRuns, Returned, Failed, Emitted

-------------------------------------------------------------------------------
(* What the handlers of a block emit, hit by hit and spend by spend.         *)

\* What a mapping writes on an event, as a function of the mapping.
OpsIn(m, handler, event, entities) ==
    IF /\ handler \in DOMAIN m.exports
       /\ Len(m.exports[handler]) <= Fuel
       /\ \A call \in Range(m.exports[handler]) : call.call \in {"get", "set"}
    THEN FlattenSeq(OpList(m.exports[handler], event, entities))
    ELSE <<>>

Writes(m, kind, name, event, entities, d) ==
    LET source == Resolve(m.sources, kind, name)
    IN  IF source # 0
        THEN Stamped(OpsIn(m, m.sources[source].handlers[name], event, entities), d)
        ELSE <<>>

LEMMA WritesAre ==
    ASSUME NEW kind, NEW name, NEW event, NEW entities, NEW d
    PROVE  Writes(mapping, kind, name, event, entities, d) =
                IF HasHandler(kind, name)
                THEN Stamped(OpsOf(Handler(kind, name), event, entities), d)
                ELSE <<>>
  <1>1. \A handler : OpsOf(handler, event, entities) = OpsIn(mapping, handler, event, entities)
    BY OpsOfIs DEF OpsIn, Completes
  <1> QED BY <1>1 DEF Writes, HasHandler, Handler

LockedAt(d, entities, h) ==
    Writes(mapping, h.kind, "CovenantLocked", LockedEvent(h, d), entities, d)

LockedLists(d, entities) ==
    [i \in DOMAIN HitsOf[chain[d]] |-> LockedAt(d, entities, HitsOf[chain[d]][i])]

SpentAt(d, entities, s) ==
    IF Operation(s.spending) # Undetermined
    THEN Writes(mapping, utxos[s.previous].kind, "CovenantSpent", SpendEvent(s, d), entities, d)
    ELSE <<>>

SpentLists(d, entities) ==
    [i \in DOMAIN SpendsOf(chain[d], DOMAIN utxos) |->
        SpentAt(d, entities, SpendsOf(chain[d], DOMAIN utxos)[i])]

\* An element of a flattened list is one of a list in it.
LEMMA FlattenOf ==
    ASSUME NEW n \in Nat, NEW ss, ss = [i \in 1..n |-> ss[i]], \A i \in 1..n : IsList(ss[i]),
           NEW x \in DOMAIN FlattenSeq(ss)
    PROVE  \E i \in 1..n : \E j \in DOMAIN ss[i] : FlattenSeq(ss)[x] = ss[i][j]
  <1>1. PICK T : T = UNION {Range(ss[i]) : i \in 1..n}
    OBVIOUS
  <1>2. ASSUME NEW i \in 1..n PROVE ss[i] \in Seq(T)
    <2>1. PICK s : s = ss[i]
      OBVIOUS
    <2>2. s \in Seq(Range(s)) /\ Range(s) \subseteq T
      BY <1>1, <2>1, ListRange
    <2> QED BY <2>1, <2>2
  <1>3. ss \in [1..n -> Seq(T)]
    BY <1>2
  <1>4. Range(FlattenSeq(ss)) = UNION {Range(ss[i]) : i \in 1..n}
    BY <1>3, FlattenHolds, ZenonT(60)
  <1>5. FlattenSeq(ss)[x] \in Range(FlattenSeq(ss))
    BY DEF Range
  <1>6. PICK i \in 1..n : FlattenSeq(ss)[x] \in Range(ss[i])
    BY <1>4, <1>5, SMTT(30)
  <1> QED BY <1>6 DEF Range

LEMMA StampedOps ==
    ASSUME mapping \in Mappings, mapping # Unmapped, NEW handler, NEW event, NEW entities, NEW d
    PROVE  LET s == Stamped(OpsOf(handler, event, entities), d)
           IN  IsList(s) /\ \A i \in DOMAIN s : s[i].daa = d
  BY OpsOfIsList, StampedTypes

LEMMA NoStamped == IsList(<<>>) /\ \A d : \A i \in DOMAIN <<>> : <<>>[i].daa = d
  BY EmptyIsList

LEMMA WritesList ==
    ASSUME mapping \in Mappings, mapping # Unmapped,
           NEW kind, NEW name, NEW event, NEW entities, NEW d
    PROVE  LET s == Writes(mapping, kind, name, event, entities, d)
           IN  IsList(s) /\ \A i \in DOMAIN s : s[i].daa = d
  BY WritesAre, StampedOps, NoStamped

LEMMA LockedFlat ==
    ASSUME NEW d, NEW entities
    PROVE  LockedRecords(d, entities) = FlattenSeq(LockedLists(d, entities))
  BY WritesAre DEF LockedRecords, LockedLists, LockedAt

LEMMA SpentFlat ==
    ASSUME NEW d, NEW entities
    PROVE  SpentRecords(d, entities) = FlattenSeq(SpentLists(d, entities))
  <1>1. \A s : SpentAt(d, entities, s) =
            IF /\ Operation(s.spending) # Undetermined
               /\ HasHandler(utxos[s.previous].kind, "CovenantSpent")
            THEN Stamped(OpsOf(Handler(utxos[s.previous].kind, "CovenantSpent"),
                               SpendEvent(s, d), entities), d)
            ELSE <<>>
    BY WritesAre DEF SpentAt
  <1> QED BY <1>1 DEF SpentRecords, SpentLists

LEMMA LockedIs ==
    ASSUME TypeInv, mapping # Unmapped, NEW d \in DOMAIN chain, NEW entities
    PROVE  LET n == Len(HitsOf[chain[d]])
               ss == LockedLists(d, entities)
           IN  /\ n \in Nat /\ DOMAIN HitsOf[chain[d]] = 1..n
               /\ Joined(ss, 0) = <<>>
               /\ \A k \in 1..n : /\ Joined(ss, k) = Joined(ss, k - 1) \o ss[k]
                                  /\ ss[k] = LockedAt(d, entities, HitsOf[chain[d]][k])
                                  /\ IsList(ss[k])
               /\ \A k \in 0..n : IsList(Joined(ss, k))
               /\ LockedRecords(d, entities) = Joined(ss, n)
               /\ \A i \in DOMAIN LockedRecords(d, entities) : LockedRecords(d, entities)[i].daa = d
  <1>1. mapping \in Mappings /\ chain \in Seq(Blocks)
    BY DEF TypeInv
  <1>2. PICK hits : hits = HitsOf[chain[d]]
    OBVIOUS
  <1>3. hits \in Seq(Detected)
    <2>1. chain[d] \in Blocks
      BY <1>1
    <2> QED BY <1>2, <2>1, BlockHits
  <1>4. PICK n \in Nat : n = Len(hits) /\ DOMAIN hits = 1..n
    BY <1>3
  <1>5. PICK ss : ss = LockedLists(d, entities)
    OBVIOUS
  <1>6. ss = [i \in 1..n |-> ss[i]] /\ \A i \in 1..n : ss[i] = LockedAt(d, entities, hits[i])
    BY <1>2, <1>4, <1>5 DEF LockedLists
  <1>7. ASSUME NEW i \in 1..n PROVE IsList(ss[i]) /\ \A j \in DOMAIN ss[i] : ss[i][j].daa = d
    <2>1. PICK h : h = hits[i]
      OBVIOUS
    <2>2. IsList(LockedAt(d, entities, h)) /\ \A j \in DOMAIN LockedAt(d, entities, h) : LockedAt(d, entities, h)[j].daa = d
      BY <1>1, WritesList DEF LockedAt
    <2> QED BY <1>6, <2>1, <2>2
  <1>8. /\ Joined(ss, 0) = <<>>
        /\ \A k \in 1..n : Joined(ss, k) = Joined(ss, k - 1) \o ss[k]
        /\ \A k \in 0..n : IsList(Joined(ss, k))
        /\ FlattenSeq(ss) = Joined(ss, n)
    BY <1>6, <1>7, JoinedIs
  <1>9. LockedRecords(d, entities) = FlattenSeq(ss)
    BY <1>5, LockedFlat
  <1>10. \A i \in DOMAIN FlattenSeq(ss) : FlattenSeq(ss)[i].daa = d
    BY <1>6, <1>7, FlattenOf
  <1> QED BY <1>2, <1>4, <1>5, <1>6, <1>7, <1>8, <1>9, <1>10

LEMMA SpentIs ==
    ASSUME TypeInv, mapping # Unmapped, NEW d \in DOMAIN chain, NEW entities
    PROVE  LET inputs == SpendsOf(chain[d], DOMAIN utxos)
               n == Len(inputs)
               ss == SpentLists(d, entities)
           IN  /\ n \in Nat /\ DOMAIN inputs = 1..n
               /\ Joined(ss, 0) = <<>>
               /\ \A k \in 1..n : /\ Joined(ss, k) = Joined(ss, k - 1) \o ss[k]
                                  /\ ss[k] = SpentAt(d, entities, inputs[k])
                                  /\ IsList(ss[k])
               /\ \A k \in 0..n : IsList(Joined(ss, k))
               /\ SpentRecords(d, entities) = Joined(ss, n)
               /\ \A i \in DOMAIN SpentRecords(d, entities) : SpentRecords(d, entities)[i].daa = d
  <1>1. mapping \in Mappings /\ chain \in Seq(Blocks)
    BY DEF TypeInv
  <1>2. PICK inputs : inputs = SpendsOf(chain[d], DOMAIN utxos)
    OBVIOUS
  <1>3. inputs \in Seq(InputRecords)
    <2>1. chain[d] \in Blocks
      BY <1>1
    <2> QED BY <1>2, <2>1, SpendsAre
  <1>4. PICK n \in Nat : n = Len(inputs) /\ DOMAIN inputs = 1..n
    BY <1>3
  <1>5. PICK ss : ss = SpentLists(d, entities)
    OBVIOUS
  <1>6. ss = [i \in 1..n |-> ss[i]] /\ \A i \in 1..n : ss[i] = SpentAt(d, entities, inputs[i])
    BY <1>2, <1>4, <1>5 DEF SpentLists
  <1>7. ASSUME NEW i \in 1..n PROVE IsList(ss[i]) /\ \A j \in DOMAIN ss[i] : ss[i][j].daa = d
    <2>1. PICK s : s = inputs[i]
      OBVIOUS
    <2>2. IsList(SpentAt(d, entities, s)) /\ \A j \in DOMAIN SpentAt(d, entities, s) : SpentAt(d, entities, s)[j].daa = d
      BY <1>1, WritesList, NoStamped DEF SpentAt
    <2> QED BY <1>6, <2>1, <2>2
  <1>8. /\ Joined(ss, 0) = <<>>
        /\ \A k \in 1..n : Joined(ss, k) = Joined(ss, k - 1) \o ss[k]
        /\ \A k \in 0..n : IsList(Joined(ss, k))
        /\ FlattenSeq(ss) = Joined(ss, n)
    BY <1>6, <1>7, JoinedIs
  <1>9. SpentRecords(d, entities) = FlattenSeq(ss)
    BY <1>5, SpentFlat
  <1>10. \A i \in DOMAIN FlattenSeq(ss) : FlattenSeq(ss)[i].daa = d
    BY <1>6, <1>7, FlattenOf
  <1> QED BY <1>2, <1>4, <1>5, <1>6, <1>7, <1>8, <1>9, <1>10

-------------------------------------------------------------------------------
(* The records of a block stay what they are.                                *)

\* What is tracked of the inputs and the outputs of a block does not change.
Agree(d) ==
    \A tx \in Range(chain[d]) : \A o :
        o[1] = tx \/ o \in Range(Inputs[tx]) =>
            /\ o \in DOMAIN utxos <=> o \in DOMAIN utxos'
            /\ o \in DOMAIN utxos => utxos'[o] = utxos[o]

LEMMA OperationStays ==
    ASSUME NEW d, NEW tx \in Range(chain[d]), Agree(d)
    PROVE  Operation(tx)' = Operation(tx)
  <1>1. ASSUME NEW S, NEW T, S \cap DOMAIN utxos = T \cap DOMAIN utxos',
               \A o \in S \cap DOMAIN utxos : utxos'[o] = utxos[o]
        PROVE  Restrict(utxos, S \cap DOMAIN utxos) = Restrict(utxos', T \cap DOMAIN utxos')
    BY <1>1 DEF Restrict
  <1>2. CreatedBy(tx)' = CreatedBy(tx)
    <2>1. PICK S, T : S = {o \in DOMAIN utxos : o[1] = tx} /\ T = {o \in DOMAIN utxos' : o[1] = tx}
      OBVIOUS
    <2>2. S \cap DOMAIN utxos = T \cap DOMAIN utxos'
      BY <2>1 DEF Agree
    <2>3. \A o \in S \cap DOMAIN utxos : utxos'[o] = utxos[o]
      BY <2>1 DEF Agree
    <2>4. Restrict(utxos, S \cap DOMAIN utxos) = Restrict(utxos', T \cap DOMAIN utxos')
      BY <1>1, <2>2, <2>3
    <2> QED BY <2>1, <2>4 DEF CreatedBy, RowsOf
  <1>3. ConsumedBy(tx)' = ConsumedBy(tx)
    <2>1. PICK S : S = Range(Inputs[tx])
      OBVIOUS
    <2>2. S \cap DOMAIN utxos = S \cap DOMAIN utxos'
      BY <2>1 DEF Agree
    <2>3. \A o \in S \cap DOMAIN utxos : utxos'[o] = utxos[o]
      BY <2>1 DEF Agree
    <2>4. Restrict(utxos, S \cap DOMAIN utxos) = Restrict(utxos', S \cap DOMAIN utxos')
      BY <1>1, <2>2, <2>3
    <2> QED BY <2>1, <2>4 DEF ConsumedBy, RowsOf
  <1> QED BY <1>2, <1>3 DEF Operation

LEMMA FlatNext ==
    /\ \A d, entities : LockedRecords(d, entities)' = FlattenSeq(LockedLists(d, entities)')
    /\ \A d, entities : SpentRecords(d, entities)' = FlattenSeq(SpentLists(d, entities)')
  <1>1. \A d, entities : LockedRecords(d, entities) = FlattenSeq(LockedLists(d, entities))
    BY LockedFlat
  <1>2. \A d, entities : SpentRecords(d, entities) = FlattenSeq(SpentLists(d, entities))
    BY SpentFlat
  <1>3. (\A d, entities : LockedRecords(d, entities) = FlattenSeq(LockedLists(d, entities)))'
    BY <1>1, PTL
  <1>4. (\A d, entities : SpentRecords(d, entities) = FlattenSeq(SpentLists(d, entities)))'
    BY <1>2, PTL
  <1> QED BY <1>3, <1>4

LEMMA RecordsStay ==
    ASSUME TypeInv, NEW d \in DOMAIN chain, chain'[d] = chain[d], UNCHANGED mapping, Agree(d),
           NEW entities
    PROVE  /\ LockedRecords(d, entities)' = LockedRecords(d, entities)
           /\ SpentRecords(d, entities)' = SpentRecords(d, entities)
  <1>1. chain \in Seq(Blocks) /\ chain[d] \in Blocks
    BY DEF TypeInv
  <1>3. LockedRecords(d, entities)' = LockedRecords(d, entities)
    <2>1. LockedLists(d, entities)' = LockedLists(d, entities)
      BY DEF LockedLists, LockedAt, LockedEvent
    <2>2. LockedRecords(d, entities)' = FlattenSeq(LockedLists(d, entities)')
      BY FlatNext
    <2> QED BY <2>1, <2>2, LockedFlat
  <1>4. \A s \in SpendsAt(chain[d]) :
            /\ s.spending \in Range(chain[d]) /\ s.previous \in Range(Inputs[s.spending])
    BY <1>1, InputFacts
  <1>5. SpendsOf(chain[d], DOMAIN utxos') = SpendsOf(chain[d], DOMAIN utxos)
    <2>1. PICK inputs : inputs = ByTransaction[chain[d]]
      OBVIOUS
    <2>2. inputs \in Seq(InputRecords) /\ Range(inputs) = SpendsAt(chain[d])
      <3>1. PICK block \in Blocks : block = chain[d]
        BY <1>1
      <3> QED BY <2>1, <3>1, OrderedInputs
    <2>3. \A i \in DOMAIN inputs : inputs[i] \in SpendsAt(chain[d])
      BY <2>2 DEF Range
    <2>4. \A i \in DOMAIN inputs : inputs[i].previous \in DOMAIN utxos' <=> inputs[i].previous \in DOMAIN utxos
      BY <1>4, <2>3 DEF Agree
    <2>5. PICK a : a = [i \in DOMAIN inputs |-> IF inputs[i].previous \in DOMAIN utxos' THEN <<inputs[i]>> ELSE <<>>]
      OBVIOUS
    <2>6. PICK b : b = [i \in DOMAIN inputs |-> IF inputs[i].previous \in DOMAIN utxos THEN <<inputs[i]>> ELSE <<>>]
      OBVIOUS
    <2>7. a = b
      BY <2>4, <2>5, <2>6
    <2>8. SpendsOf(chain[d], DOMAIN utxos') = FlattenSeq(a) /\ SpendsOf(chain[d], DOMAIN utxos) = FlattenSeq(b)
      BY <2>1, <2>5, <2>6 DEF SpendsOf
    <2> QED BY <2>7, <2>8
  <1>6. ASSUME NEW s \in SpendsAt(chain[d]), s.previous \in DOMAIN utxos
        PROVE  SpentAt(d, entities, s)' = SpentAt(d, entities, s)
    <2>1. s.spending \in Range(chain[d]) /\ utxos'[s.previous] = utxos[s.previous]
      BY <1>4, <1>6 DEF Agree
    <2>2. PICK tx : tx = s.spending
      OBVIOUS
    <2>3. Operation(tx)' = Operation(tx)
      BY <2>1, <2>2, OperationStays
    <2>4. \A c : (\E o \in DOMAIN utxos' : o[1] = tx /\ utxos'[o].covenant = c)
                    <=> (\E o \in DOMAIN utxos : o[1] = tx /\ utxos[o].covenant = c)
      BY <2>1, <2>2 DEF Agree
    <2>5. \A c : LineageContinues(tx, c)' = LineageContinues(tx, c)
      BY <2>4 DEF LineageContinues
    <2>6. PICK row : row = utxos[s.previous]
      OBVIOUS
    <2>7. SpendEvent(s, d) = [event |-> "CovenantSpent", covenant |-> row.covenant,
                              operation |-> Operation(tx), continues |-> LineageContinues(tx, row.covenant),
                              state |-> row.state, daa |-> d]
      BY <2>2, <2>6 DEF SpendEvent
    <2>8. SpendEvent(s, d)' = [event |-> "CovenantSpent", covenant |-> row.covenant,
                              operation |-> Operation(tx)', continues |-> LineageContinues(tx, row.covenant)',
                              state |-> row.state, daa |-> d]
      BY <2>1, <2>2, <2>6 DEF SpendEvent, LineageContinues
    <2>9. SpendEvent(s, d)' = SpendEvent(s, d)
      BY <2>3, <2>5, <2>7, <2>8
    <2>10. SpentAt(d, entities, s)' =
            IF Operation(tx)' # Undetermined
            THEN Writes(mapping, row.kind, "CovenantSpent", SpendEvent(s, d)', entities, d)
            ELSE <<>>
      BY <2>1, <2>2, <2>6 DEF SpentAt
    <2> QED BY <2>2, <2>3, <2>6, <2>9, <2>10 DEF SpentAt
  <1>7. SpentRecords(d, entities)' = SpentRecords(d, entities)
    <2>1. PICK inputs : inputs = SpendsOf(chain[d], DOMAIN utxos)
      OBVIOUS
    <2>2. \A i \in DOMAIN inputs : inputs[i] \in SpendsAt(chain[d]) /\ inputs[i].previous \in DOMAIN utxos
      <3>1. PICK block \in Blocks : block = chain[d]
        BY <1>1
      <3>2. Range(inputs) = {s \in SpendsAt(block) : s.previous \in DOMAIN utxos}
        BY <2>1, <3>1, SpendsAre
      <3> QED BY <3>1, <3>2 DEF Range
    <2>3. SpentLists(d, entities)' = [i \in DOMAIN inputs |-> SpentAt(d, entities, inputs[i])']
      BY <1>5, <2>1 DEF SpentLists
    <2>4. SpentLists(d, entities)' = SpentLists(d, entities)
      BY <1>6, <2>1, <2>2, <2>3 DEF SpentLists
    <2>5. SpentRecords(d, entities)' = FlattenSeq(SpentLists(d, entities)')
      BY FlatNext
    <2> QED BY <2>4, <2>5, SpentFlat
  <1> QED BY <1>3, <1>7

-------------------------------------------------------------------------------
(* The versions as they were after a block, and how they came about.         *)

Until(table, d) == Restrict(table, {k \in DOMAIN table : k[2] <= d})

Done == Len(checkpoints)

\* The versions t are those before block d, m those after its locked handlers.
Follows(d, t, m) ==
    /\ m = AfterLocked(t, d)
    /\ Until(versions, d) = AfterSpends(m, d)
    /\ checkpoints[d] = CanonicalEntities(LockedRecords(d, Latest(t)))

HistoryInv ==
    \A d \in 1..Done : \E t, m : t = Until(versions, d - 1) /\ Follows(d, t, m)

\* Where the handlers of the last block are; t are the versions before it.
LockedRun(h, n, entities) ==
    /\ HasHandler(h.kind, "CovenantLocked")
    /\ \E handler, event :
        /\ handler = Handler(h.kind, "CovenantLocked") /\ event = LockedEvent(h, n)
        /\ GuestRuns(handler, event, entities)

SpentRun(s, n, entities) ==
    /\ Operation(s.spending) # Undetermined
    /\ \E kind, handler, event :
        /\ kind = utxos[s.previous].kind /\ HasHandler(kind, "CovenantSpent")
        /\ handler = Handler(kind, "CovenantSpent") /\ event = SpendEvent(s, n)
        /\ GuestRuns(handler, event, entities)

InHits(t) == versions = t /\ dispatched = <<>>

InLocked(t, n) ==
    /\ versions = t
    /\ snapshot = Latest(t)
    /\ dispatched = Joined(LockedLists(n, Latest(t)), at - 1)
    /\ guest.running => \E h : h = Hits[at] /\ LockedRun(h, n, Latest(t))

InSpends(t, n, m) ==
    /\ m = AfterLocked(t, n)
    /\ snapshot = Latest(m)
    /\ dispatched = LockedRecords(n, Latest(t))
    /\ versions = Upsert(m, Joined(SpentLists(n, Latest(m)), at - 1))
    /\ guest.running => \E s : s = Spends[at] /\ SpentRun(s, n, Latest(m))

InCheckpoint(t, n, m) ==
    /\ m = AfterLocked(t, n)
    /\ dispatched = LockedRecords(n, Latest(t))
    /\ versions = AfterSpends(m, n)

Present(t, n) ==
    /\ phase = "hits" => InHits(t)
    /\ phase = "locked" => InLocked(t, n)
    /\ phase = "spends" => \E m : InSpends(t, n, m)
    /\ phase = "checkpoint" => \E m : InCheckpoint(t, n, m)

EntitiesInv ==
    /\ mapping = Unmapped =>
        /\ versions = Empty
        /\ phase # "locked" /\ phase # "spends"
        /\ \A d \in 1..Done : checkpoints[d] = CanonicalBlock(chain[d])
    /\ mapping # Unmapped =>
        /\ IsTable(versions)
        /\ HistoryInv
        /\ Busy => \E n, t : n = Daa /\ t = Until(versions, n - 1) /\ Present(t, n)

LEMMA UntilIs ==
    ASSUME NEW t, NEW d
    PROVE  /\ IsTable(Until(t, d))
           /\ \A k : k \in DOMAIN Until(t, d) <=> k \in DOMAIN t /\ k[2] <= d
           /\ \A k \in DOMAIN Until(t, d) : Until(t, d)[k] = t[k]
  <1>1. PICK D : D = {k \in DOMAIN t : k[2] <= d}
    OBVIOUS
  <1>2. Until(t, d) = [k \in D |-> t[k]]
    BY <1>1 DEF Until, Restrict
  <1> QED BY <1>1, <1>2 DEF IsTable

LEMMA UntilAll ==
    ASSUME NEW t, NEW d, IsTable(t), \A k \in DOMAIN t : k[2] <= d
    PROVE  Until(t, d) = t
  <1>1. PICK u : u = Until(t, d)
    OBVIOUS
  <1> QED BY <1>1, UntilIs, SameTable

LEMMA UntilUntil ==
    ASSUME NEW t, NEW d \in Nat, NEW e \in Nat, d <= e, \A k \in DOMAIN t : k[2] \in Nat
    PROVE  Until(Until(t, e), d) = Until(t, d)
  <1>1. PICK u : u = Until(t, e)
    OBVIOUS
  <1>2. PICK v : v = Until(u, d)
    OBVIOUS
  <1>3. PICK w : w = Until(t, d)
    OBVIOUS
  <1>4. \A k \in DOMAIN t : k[2] <= d => k[2] <= e
    OBVIOUS
  <1>5. \A k : k \in DOMAIN v <=> k \in DOMAIN w
    BY <1>1, <1>2, <1>3, <1>4, UntilIs
  <1>6. \A k \in DOMAIN v : v[k] = w[k]
    <2>1. \A k \in DOMAIN v : k \in DOMAIN u /\ v[k] = u[k]
      BY <1>2, UntilIs
    <2>2. \A k \in DOMAIN u : u[k] = t[k]
      BY <1>1, UntilIs
    <2>3. \A k \in DOMAIN w : w[k] = t[k]
      BY <1>3, UntilIs
    <2> QED BY <1>5, <2>1, <2>2, <2>3
  <1> QED BY <1>1, <1>2, <1>3, <1>5, <1>6, UntilIs, SameTable

\* Records of a block leave the versions of those before it alone.
LEMMA UntilUpsert ==
    ASSUME NEW t, NEW records, NEW n \in Nat, NEW d \in Nat, d < n,
           \A i \in DOMAIN records : records[i].daa = n
    PROVE  Until(Upsert(t, records), d) = Until(t, d)
  <1>1. PICK u : u = Upsert(t, records)
    OBVIOUS
  <1>2. PICK v : v = Until(u, d)
    OBVIOUS
  <1>3. PICK w : w = Until(t, d)
    OBVIOUS
  <1>4. \A k : WritesTo(records, k) # {} => k[2] = n
    BY DEF WritesTo, KeyOf
  <1>5. \A k : k[2] <= d => WritesTo(records, k) = {}
    <2>1. ~(n <= d)
      OBVIOUS
    <2> QED BY <1>4, <2>1
  <1>6. \A k : k \in DOMAIN v <=> k \in DOMAIN w
    BY <1>1, <1>2, <1>3, <1>5, UntilIs, UpsertIs
  <1>7. ASSUME NEW k \in DOMAIN v PROVE v[k] = w[k]
    <2>1. k \in DOMAIN u /\ k[2] <= d /\ v[k] = u[k]
      BY <1>2, UntilIs
    <2>2. WritesTo(records, k) = {}
      BY <1>5, <2>1
    <2>3. u[k] = t[k]
      BY <1>1, <2>1, <2>2, UpsertIs
    <2>4. k \in DOMAIN w /\ w[k] = t[k]
      BY <1>3, <1>6, UntilIs
    <2> QED BY <2>1, <2>3, <2>4
  <1> QED BY <1>1, <1>2, <1>3, <1>6, <1>7, UntilIs, SameTable

\* What a block does to the versions stays what it is with its records.
LEMMA AdvanceStays ==
    ASSUME TypeInv, NEW d \in DOMAIN chain, chain'[d] = chain[d], UNCHANGED mapping, Agree(d),
           NEW t
    PROVE  AfterLocked(t, d)' = AfterLocked(t, d) /\ AfterSpends(t, d)' = AfterSpends(t, d)
  <1>1. PICK e : e = Latest(t)
    OBVIOUS
  <1>2. /\ LockedRecords(d, e)' = LockedRecords(d, e)
        /\ SpentRecords(d, e)' = SpentRecords(d, e)
    BY RecordsStay
  <1>3. AfterLocked(t, d) = Upsert(t, LockedRecords(d, e)) /\ AfterSpends(t, d) = Upsert(t, SpentRecords(d, e))
    BY <1>1 DEF AfterLocked, AfterSpends
  <1>4. AfterLocked(t, d)' = Upsert(t, LockedRecords(d, e)') /\ AfterSpends(t, d)' = Upsert(t, SpentRecords(d, e)')
    BY <1>1 DEF AfterLocked, AfterSpends
  <1> QED BY <1>2, <1>3, <1>4

LEMMA HistoryFrame ==
    ASSUME TypeInv, HistoryInv, UNCHANGED mapping, Done' \in Nat, Done' <= Done,
           \A d \in 1..Done' : chain'[d] = chain[d] /\ Agree(d) /\ checkpoints'[d] = checkpoints[d],
           \A d \in 0..Done' : Until(versions', d) = Until(versions, d)
    PROVE  HistoryInv'
  <1>1. PICK n \in Nat : n = Done'
    OBVIOUS
  <1>2. Done \in Nat /\ \A d \in 1..Done : d \in DOMAIN chain
    <2>1. Len(checkpoints) \in Nat /\ Len(chain) \in Nat /\ DOMAIN chain = 1..Len(chain)
          /\ Len(checkpoints) <= Len(chain)
      BY DEF TypeInv, IsList
    <2> QED BY <2>1 DEF Done
  <1>3. ASSUME NEW d \in 1..n
        PROVE  \E t, m : t = Until(versions', d - 1) /\ Follows(d, t, m)'
    <2>1. d \in 1..Done /\ d \in DOMAIN chain /\ d \in 0..n /\ d - 1 \in 0..n
      BY <1>1, <1>2
    <2>2. PICK t, m : t = Until(versions, d - 1) /\ Follows(d, t, m)
      BY <2>1 DEF HistoryInv
    <2>3. AfterLocked(t, d)' = AfterLocked(t, d) /\ AfterSpends(m, d)' = AfterSpends(m, d)
      BY <1>1, <2>1, AdvanceStays
    <2>4. PICK e : e = Latest(t)
      OBVIOUS
    <2>5. LockedRecords(d, e)' = LockedRecords(d, e)
      BY <1>1, <2>1, RecordsStay
    <2>6. Until(versions', d) = Until(versions, d) /\ Until(versions', d - 1) = Until(versions, d - 1)
          /\ checkpoints'[d] = checkpoints[d]
      BY <1>1, <2>1
    <2>7. Follows(d, t, m)'
      BY <2>2, <2>3, <2>4, <2>5, <2>6 DEF Follows
    <2> QED BY <2>2, <2>6, <2>7
  <1> QED BY <1>1, <1>3 DEF HistoryInv

\* A step that leaves the mapping, the chain and the tracker alone.
BlockFrame == UNCHANGED <<mapping, chain, utxos>>

LEMMA FrameStays ==
    ASSUME BlockFrame
    PROVE  /\ \A d : Agree(d)
           /\ \A kind, name : /\ HasHandler(kind, name)' <=> HasHandler(kind, name)
                              /\ Handler(kind, name)' = Handler(kind, name)
           /\ \A tx : Operation(tx)' = Operation(tx)
           /\ \A s, d : SpendEvent(s, d)' = SpendEvent(s, d)
           /\ \A d, e : LockedLists(d, e)' = LockedLists(d, e)
           /\ \A d, e : SpentLists(d, e)' = SpentLists(d, e)
           /\ \A d, e : LockedRecords(d, e)' = LockedRecords(d, e)
           /\ \A d, e : SpentRecords(d, e)' = SpentRecords(d, e)
           /\ \A d, t : AfterLocked(t, d)' = AfterLocked(t, d)
           /\ \A d, t : AfterSpends(t, d)' = AfterSpends(t, d)
  <1>1. mapping' = mapping /\ chain' = chain /\ utxos' = utxos
    BY DEF BlockFrame
  <1>2. \A d : Agree(d)
    BY <1>1 DEF Agree
  <1>3. \A kind, name : /\ HasHandler(kind, name)' <=> HasHandler(kind, name)
                        /\ Handler(kind, name)' = Handler(kind, name)
    BY <1>1 DEF HasHandler, Handler
  <1>4. \A tx : Operation(tx)' = Operation(tx)
    BY <1>1 DEF Operation, ConsumedBy, CreatedBy, RowsOf
  <1>5. ASSUME NEW s, NEW d PROVE SpendEvent(s, d)' = SpendEvent(s, d)
    <2>1. PICK tx, row : tx = s.spending /\ row = utxos[s.previous]
      OBVIOUS
    <2>2. LineageContinues(tx, row.covenant)' = LineageContinues(tx, row.covenant)
      BY <1>1 DEF LineageContinues
    <2>3. SpendEvent(s, d) = [event |-> "CovenantSpent", covenant |-> row.covenant,
                              operation |-> Operation(tx), continues |-> LineageContinues(tx, row.covenant),
                              state |-> row.state, daa |-> d]
      BY <2>1 DEF SpendEvent
    <2>4. SpendEvent(s, d)' = [event |-> "CovenantSpent", covenant |-> row.covenant,
                              operation |-> Operation(tx)', continues |-> LineageContinues(tx, row.covenant)',
                              state |-> row.state, daa |-> d]
      BY <1>1, <2>1 DEF SpendEvent, LineageContinues
    <2> QED BY <1>4, <2>2, <2>3, <2>4
  <1>6. \A d, e : LockedLists(d, e)' = LockedLists(d, e)
    BY <1>1 DEF LockedLists, LockedAt, LockedEvent
  <1>7. ASSUME NEW d, NEW e PROVE SpentLists(d, e)' = SpentLists(d, e)
    <2>1. ASSUME NEW s PROVE SpentAt(d, e, s)' = SpentAt(d, e, s)
      <3>1. PICK tx, event : tx = s.spending /\ event = SpendEvent(s, d)
        OBVIOUS
      <3>2. SpentAt(d, e, s) =
                IF Operation(tx) # Undetermined
                THEN Writes(mapping, utxos[s.previous].kind, "CovenantSpent", event, e, d) ELSE <<>>
        BY <3>1 DEF SpentAt
      <3>3. SpentAt(d, e, s)' =
                IF Operation(tx)' # Undetermined
                THEN Writes(mapping, utxos[s.previous].kind, "CovenantSpent", event, e, d) ELSE <<>>
        BY <1>1, <1>5, <3>1 DEF SpentAt
      <3> QED BY <1>4, <3>2, <3>3
    <2>2. PICK inputs : inputs = SpendsOf(chain[d], DOMAIN utxos)
      OBVIOUS
    <2>3. SpentLists(d, e) = [i \in DOMAIN inputs |-> SpentAt(d, e, inputs[i])]
      BY <2>2 DEF SpentLists
    <2>4. SpentLists(d, e)' = [i \in DOMAIN inputs |-> SpentAt(d, e, inputs[i])']
      BY <1>1, <2>2 DEF SpentLists
    <2> QED BY <2>1, <2>3, <2>4
  <1>8. \A d, e : LockedRecords(d, e)' = LockedRecords(d, e)
    BY <1>6, LockedFlat, FlatNext
  <1>9. \A d, e : SpentRecords(d, e)' = SpentRecords(d, e)
    BY <1>7, SpentFlat, FlatNext
  <1>10. \A d, t : AfterLocked(t, d)' = AfterLocked(t, d)
    BY <1>8 DEF AfterLocked
  <1>11. \A d, t : AfterSpends(t, d)' = AfterSpends(t, d)
    BY <1>9 DEF AfterSpends
  <1> QED BY <1>2, <1>3, <1>4, <1>5, <1>6, <1>7, <1>8, <1>9, <1>10, <1>11

LEMMA GuestStays ==
    ASSUME UNCHANGED <<mapping, guest>>, NEW handler, NEW event, NEW entities
    PROVE  GuestRuns(handler, event, entities)' <=> GuestRuns(handler, event, entities)
  <1>1. OpsOf(handler, event, entities)' = OpsOf(handler, event, entities)
    BY DEF OpsOf, Completes
  <1>2. Progress(entities)' <=> Progress(entities)
    BY DEF Progress, Program
  <1> QED BY <1>1, <1>2 DEF GuestRuns

\* The block the loop is at.
LEMMA BlockOf ==
    ASSUME TypeInv, Busy
    PROVE  /\ Daa \in Nat /\ Daa \in DOMAIN chain /\ Done \in Nat /\ Done = Daa - 1
           /\ Hits = HitsOf[chain[Daa]] /\ Spends = SpendsOf(chain[Daa], DOMAIN utxos)
           /\ \A k \in DOMAIN versions : k[2] \in Nat /\ k[2] <= Daa
  <1>1. /\ Daa \in Nat /\ Daa \in DOMAIN chain
    BY BlockFacts
  <1>2. Len(checkpoints) = Len(chain) - 1 /\ Len(checkpoints) \in Nat /\ Len(chain) \in Nat
        /\ DOMAIN chain = 1..Len(chain)
    BY DEF TypeInv, Busy, IsList
  <1>3. Hits = HitsOf[chain[Daa]] /\ Spends = SpendsOf(chain[Daa], DOMAIN utxos)
    BY DEF Hits, Spends, Block
  <1>4. \A k \in DOMAIN versions : k[2] \in Nat /\ k[2] <= Daa
    BY <1>2 DEF TypeInv, RecordsInv, Daa
  <1> QED BY <1>1, <1>2, <1>3, <1>4 DEF Done, Daa

\* Steps of the loop change nothing of the blocks before.
LEMMA LoopStep ==
    ASSUME TypeInv, EntitiesInv, mapping # Unmapped, Busy, Busy', BlockFrame, UNCHANGED checkpoints,
           NEW n, n = Daa, NEW t, t = Until(versions, n - 1), Present(t, n)',
           versions' = versions \/
                \E records : versions' = Upsert(versions, records) /\ \A i \in DOMAIN records : records[i].daa = n
    PROVE  EntitiesInv'
  <1>1. mapping' = mapping /\ chain' = chain /\ Daa' = Daa /\ Done' = Done
    BY DEF BlockFrame, Daa, Done
  <1>2. n \in Nat /\ n \in DOMAIN chain /\ Done = n - 1 /\ Done \in Nat
    BY BlockOf
  <1>3. \A d \in 0..Done : Until(versions', d) = Until(versions, d)
    <2>1. CASE versions' = versions
      BY <2>1
    <2>2. ASSUME NEW records, versions' = Upsert(versions, records), \A i \in DOMAIN records : records[i].daa = n,
                 NEW d \in 0..Done
          PROVE  Until(versions', d) = Until(versions, d)
      <3>1. d \in Nat /\ d < n
        BY <1>2
      <3> QED BY <1>2, <2>2, <3>1, UntilUpsert
    <2> QED BY <2>1, <2>2
  <1>4. IsTable(versions')
    BY UpsertIs DEF EntitiesInv
  <1>5. HistoryInv'
    <2>1. \A d \in 1..Done' : chain'[d] = chain[d] /\ Agree(d) /\ checkpoints'[d] = checkpoints[d]
      BY <1>1, FrameStays
    <2> QED BY <1>1, <1>2, <1>3, <2>1, HistoryFrame DEF EntitiesInv
  <1>6. t = Until(versions', n - 1)
    BY <1>2, <1>3
  <1>7. \E m, u : m = Daa' /\ u = Until(versions', m - 1) /\ Present(u, m)'
    BY <1>1, <1>6
  <1> QED BY <1>1, <1>4, <1>5, <1>7 DEF EntitiesInv

LEMMA PresentHere ==
    ASSUME TypeInv, EntitiesInv, mapping # Unmapped, Busy
    PROVE  \E n, t : /\ n = Daa /\ t = Until(versions, n - 1) /\ Present(t, n)
                     /\ n \in Nat /\ n \in DOMAIN chain /\ IsTable(t)
  BY BlockOf, UntilIs DEF EntitiesInv

-------------------------------------------------------------------------------
(* The locked handlers.                                                      *)

\* What the hit at which the loop is adds to the records.
LEMMA NextLocked ==
    ASSUME TypeInv, mapping # Unmapped, phase = "locked", at <= Len(Hits), NEW n, n = Daa, NEW entities,
           NEW h, h = Hits[at]
    PROVE  /\ Joined(LockedLists(n, entities), at)
                = Joined(LockedLists(n, entities), at - 1) \o LockedAt(n, entities, h)
           /\ IsList(Joined(LockedLists(n, entities), at - 1))
           /\ at \in Nat
  <1>1. Busy /\ at \in Nat \ {0}
    BY DEF Busy, TypeInv, PlaceInv
  <1>2. n \in DOMAIN chain /\ Hits = HitsOf[chain[n]]
    BY <1>1, BlockOf
  <1>3. Len(Hits) \in Nat
    BY <1>1, BlockFacts
  <1>4. at \in 1..Len(Hits) /\ at - 1 \in 0..Len(Hits)
    BY <1>1, <1>3
  <1>5. PICK k : k = at
    OBVIOUS
  <1>6. PICK ss : ss = LockedLists(n, entities)
    OBVIOUS
  <1>7. /\ \A i \in 1..Len(HitsOf[chain[n]]) : /\ Joined(ss, i) = Joined(ss, i - 1) \o ss[i]
                                             /\ ss[i] = LockedAt(n, entities, HitsOf[chain[n]][i])
        /\ \A i \in 0..Len(HitsOf[chain[n]]) : IsList(Joined(ss, i))
    <2>1. LET m == Len(HitsOf[chain[n]])
              lists == LockedLists(n, entities)
          IN  /\ \A i \in 1..m : /\ Joined(lists, i) = Joined(lists, i - 1) \o lists[i]
                                 /\ lists[i] = LockedAt(n, entities, HitsOf[chain[n]][i])
              /\ \A i \in 0..m : IsList(Joined(lists, i))
      <3> HIDE <1>5, <1>6
      <3> QED BY ONLY TypeInv, mapping # Unmapped, <1>2, LockedIs, ZenonT(60)
    <2> QED BY <1>6, <2>1
  <1>8. k \in 1..Len(HitsOf[chain[n]]) /\ k - 1 \in 0..Len(HitsOf[chain[n]]) /\ h = HitsOf[chain[n]][k]
    BY <1>2, <1>4, <1>5
  <1>9. /\ Joined(ss, k) = Joined(ss, k - 1) \o LockedAt(n, entities, h)
        /\ IsList(Joined(ss, k - 1))
    BY <1>7, <1>8
  <1> QED BY <1>1, <1>5, <1>6, <1>9

LEMMA DispatchLockedEntities ==
    ASSUME TypeInv, EntitiesInv, mapping # Unmapped, DispatchLocked
    PROVE  EntitiesInv'
  <1>1. /\ Busy /\ Busy' /\ BlockFrame /\ UNCHANGED <<checkpoints, versions, snapshot, dispatched>>
        /\ phase = "locked" /\ phase' = "locked" /\ at <= Len(Hits) /\ ~guest.running
        /\ mapping \in Mappings
    BY DEF DispatchLocked, Busy, BlockFrame, tables, TypeInv
  <1>2. PICK n, t : /\ n = Daa /\ t = Until(versions, n - 1) /\ Present(t, n)
                    /\ n \in Nat /\ n \in DOMAIN chain /\ IsTable(t)
    BY <1>1, PresentHere
  <1>3. PICK h : h = Hits[at]
    OBVIOUS
  <1>4. PICK e : e = Latest(t)
    OBVIOUS
  <1>5. versions = t /\ snapshot = e /\ dispatched = Joined(LockedLists(n, e), at - 1)
    BY <1>1, <1>2, <1>4 DEF Present, InLocked
  <1>6. Hits' = Hits
    BY <1>1 DEF BlockFrame, Hits, Block, Daa
  <1>7. LockedLists(n, e)' = LockedLists(n, e)
    BY <1>1, FrameStays
  <1>8. CASE HasHandler(h.kind, "CovenantLocked")
    <2>1. PICK handler, event : handler = Handler(h.kind, "CovenantLocked") /\ event = LockedEvent(h, n)
      OBVIOUS
    <2>2. guest' = Instantiate(handler, event) /\ at' = at
      BY <1>2, <1>3, <1>8, <2>1 DEF DispatchLocked
    <2>3. GuestRuns(handler, event, e)'
      BY <1>1, <2>2, InstanceRuns DEF BlockFrame
    <2>4. HasHandler(h.kind, "CovenantLocked")' /\ Handler(h.kind, "CovenantLocked")' = handler
      BY <1>1, <1>8, <2>1, FrameStays
    <2>5. LockedRun(h, n, e)'
      BY <2>1, <2>3, <2>4 DEF LockedRun, LockedEvent
    <2>6. InLocked(t, n)'
      BY <1>1, <1>3, <1>4, <1>5, <1>6, <1>7, <2>2, <2>5 DEF InLocked
    <2>7. Present(t, n)'
      BY <1>1, <2>6 DEF Present
    <2> QED BY <1>1, <1>2, <2>7, LoopStep
  <1>9. CASE ~HasHandler(h.kind, "CovenantLocked")
    <2>1. guest' = guest /\ at' = at + 1
      BY <1>3, <1>9 DEF DispatchLocked
    <2>2. LockedAt(n, e, h) = <<>>
      BY <1>9, WritesAre DEF LockedAt
    <2>3. /\ Joined(LockedLists(n, e), at) = Joined(LockedLists(n, e), at - 1) \o <<>>
          /\ IsList(Joined(LockedLists(n, e), at - 1)) /\ at \in Nat
      BY <1>1, <1>2, <1>3, <2>2, NextLocked
    <2>4. dispatched = Joined(LockedLists(n, e), at)
      BY <1>5, <2>3, NothingJoins
    <2>5. at' - 1 = at
      BY <2>1, <2>3
    <2>6. InLocked(t, n)'
      BY <1>1, <1>4, <1>5, <1>7, <2>1, <2>4, <2>5 DEF InLocked
    <2>7. Present(t, n)'
      BY <1>1, <2>6 DEF Present
    <2> QED BY <1>1, <1>2, <2>7, LoopStep
  <1> QED BY <1>8, <1>9

LEMMA LockedDispatchedEntities ==
    ASSUME TypeInv, EntitiesInv, mapping # Unmapped, LockedDispatched
    PROVE  EntitiesInv'
  <1>1. /\ Busy /\ Busy' /\ BlockFrame /\ UNCHANGED <<checkpoints, versions, snapshot>>
        /\ phase = "locked" /\ phase' = "locked" /\ guest.running /\ (Returned \/ Failed)
        /\ at' = at + 1 /\ guest' = NoGuest /\ mapping \in Mappings
        /\ at <= Len(Hits)
    BY DEF LockedDispatched, Busy, BlockFrame, tables, TypeInv, PlaceInv, Returned, Failed
  <1>2. PICK n, t : /\ n = Daa /\ t = Until(versions, n - 1) /\ Present(t, n)
                    /\ n \in Nat /\ n \in DOMAIN chain /\ IsTable(t)
    BY <1>1, PresentHere
  <1>3. PICK e : e = Latest(t)
    OBVIOUS
  <1>4. PICK h : /\ h = Hits[at] /\ LockedRun(h, n, e)
                 /\ versions = t /\ snapshot = e /\ dispatched = Joined(LockedLists(n, e), at - 1)
    BY <1>1, <1>2, <1>3 DEF Present, InLocked
  <1>5. PICK handler, event : /\ handler = Handler(h.kind, "CovenantLocked") /\ event = LockedEvent(h, n)
                              /\ GuestRuns(handler, event, e)
    BY <1>4 DEF LockedRun
  <1>6. Emitted = OpsOf(handler, event, e)
    BY <1>1, <1>5, EmittedIs
  <1>7. LockedAt(n, e, h) = Stamped(Emitted, n)
    BY <1>4, <1>5, <1>6, WritesAre DEF LockedAt, LockedRun
  <1>8. dispatched' = dispatched \o LockedAt(n, e, h)
    BY <1>2, <1>7 DEF LockedDispatched
  <1>9. dispatched' = Joined(LockedLists(n, e), at) /\ at \in Nat
    BY <1>1, <1>2, <1>4, <1>8, NextLocked
  <1>10. at' - 1 = at /\ ~guest'.running
    BY <1>1, <1>9 DEF NoGuest
  <1>11. LockedLists(n, e)' = LockedLists(n, e)
    BY <1>1, FrameStays
  <1>12. InLocked(t, n)'
    BY <1>1, <1>3, <1>4, <1>9, <1>10, <1>11 DEF InLocked
  <1>13. Present(t, n)'
    BY <1>1, <1>12 DEF Present
  <1> QED BY <1>1, <1>2, <1>13, LoopStep

LEMMA GuestEntities ==
    ASSUME TypeInv, EntitiesInv, mapping # Unmapped, Return \/ \E call \in Calls : HostCall(call)
    PROVE  EntitiesInv'
  <1>1. /\ BlockFrame /\ UNCHANGED <<checkpoints, versions, snapshot, dispatched, phase, at>>
        /\ guest.running /\ mapping \in Mappings
    BY DEF Return, HostCall, Running, BlockFrame, tables, TypeInv
  <1>2. Busy /\ Busy' /\ (phase = "locked" \/ phase = "spends")
    BY <1>1 DEF TypeInv, PlaceInv, Busy
  <1>3. PICK n, t : /\ n = Daa /\ t = Until(versions, n - 1) /\ Present(t, n)
                    /\ n \in Nat /\ n \in DOMAIN chain /\ IsTable(t)
    BY <1>2, PresentHere
  <1>4. ASSUME NEW handler, NEW event, NEW entities, snapshot = entities,
               GuestRuns(handler, event, entities)
        PROVE  GuestRuns(handler, event, entities)' /\ guest'.running
    <2>1. GuestRuns(handler, event, entities)'
      BY <1>4, ReturnRuns, HostCallRuns
    <2> QED BY <2>1 DEF GuestRuns
  <1>5. Hits' = Hits /\ Spends' = Spends
    BY <1>1 DEF BlockFrame, Hits, Spends, Block, Daa
  <1>6. CASE phase = "locked"
    <2>1. PICK e : e = Latest(t)
      OBVIOUS
    <2>2. PICK h : /\ h = Hits[at] /\ LockedRun(h, n, e)
                   /\ versions = t /\ snapshot = e /\ dispatched = Joined(LockedLists(n, e), at - 1)
      BY <1>1, <1>3, <1>6, <2>1 DEF Present, InLocked
    <2>3. PICK handler, event : /\ handler = Handler(h.kind, "CovenantLocked") /\ event = LockedEvent(h, n)
                                /\ GuestRuns(handler, event, e)
      BY <2>2 DEF LockedRun
    <2>4. HasHandler(h.kind, "CovenantLocked")' /\ Handler(h.kind, "CovenantLocked")' = handler
      BY <1>1, <2>2, <2>3, FrameStays DEF LockedRun
    <2>5. LockedRun(h, n, e)'
      BY <1>4, <2>2, <2>3, <2>4 DEF LockedRun, LockedEvent
    <2>6. LockedLists(n, e)' = LockedLists(n, e)
      BY <1>1, FrameStays
    <2>7. InLocked(t, n)'
      BY <1>1, <1>5, <2>1, <2>2, <2>5, <2>6 DEF InLocked
    <2>8. Present(t, n)'
      BY <1>1, <1>6, <2>7 DEF Present
    <2> QED BY <1>1, <1>2, <1>3, <2>8, LoopStep
  <1>7. CASE phase = "spends"
    <2>1. PICK m : InSpends(t, n, m)
      BY <1>3, <1>7 DEF Present
    <2>2. PICK e : e = Latest(m)
      OBVIOUS
    <2>3. PICK d : d = Latest(t)
      OBVIOUS
    <2>4. PICK s : /\ s = Spends[at] /\ SpentRun(s, n, e)
                   /\ m = AfterLocked(t, n) /\ snapshot = e
                   /\ dispatched = LockedRecords(n, d)
                   /\ versions = Upsert(m, Joined(SpentLists(n, e), at - 1))
      BY <1>1, <2>1, <2>2, <2>3 DEF InSpends
    <2>5. PICK kind, handler, event :
              /\ kind = utxos[s.previous].kind /\ HasHandler(kind, "CovenantSpent")
              /\ handler = Handler(kind, "CovenantSpent") /\ event = SpendEvent(s, n)
              /\ GuestRuns(handler, event, e) /\ Operation(s.spending) # Undetermined
      BY <2>4 DEF SpentRun
    <2>6. PICK tx : tx = s.spending
      OBVIOUS
    <2>7. /\ HasHandler(kind, "CovenantSpent")' /\ Handler(kind, "CovenantSpent")' = handler
          /\ SpendEvent(s, n)' = event /\ Operation(tx)' # Undetermined
          /\ kind = utxos'[s.previous].kind
      BY <1>1, <2>5, <2>6, FrameStays DEF BlockFrame
    <2>8. GuestRuns(handler, event, e)' /\ guest'.running
      BY <1>4, <2>4, <2>5
    <2>9. SpentRun(s, n, e)'
      BY <2>6, <2>7, <2>8 DEF SpentRun
    <2>10. /\ SpentLists(n, e)' = SpentLists(n, e) /\ LockedRecords(n, d)' = LockedRecords(n, d)
           /\ AfterLocked(t, n)' = AfterLocked(t, n)
      BY <1>1, FrameStays
    <2>11. InSpends(t, n, m)'
      BY <1>1, <1>5, <2>2, <2>3, <2>4, <2>9, <2>10 DEF InSpends
    <2>12. Present(t, n)'
      BY <1>1, <1>7, <2>11 DEF Present
    <2> QED BY <1>1, <1>2, <1>3, <2>12, LoopStep
  <1> QED BY <1>2, <1>6, <1>7

\* The step from the locked part: its records are written, no spend was handled.
LEMMA ToSpendsPresent ==
    ASSUME TypeInv, mapping # Unmapped, Busy, BlockFrame, UNCHANGED guest, ~guest.running, ToSpends,
           NEW n, n = Daa, NEW t, NEW m, m = AfterLocked(t, n), versions' = m,
           dispatched' = LockedRecords(n, Latest(t))
    PROVE  Present(t, n)' /\ Busy'
  <1>1. n \in DOMAIN chain /\ Block \in Blocks /\ Block = chain[n] /\ IsTable(m)
    BY BlockOf, BlockFacts, UpsertIs DEF Block, AfterLocked
  <1>2. PICK e : e = Latest(m)
    OBVIOUS
  <1>3. PICK d : d = Latest(t)
    OBVIOUS
  <1>4. /\ SpentLists(n, e)' = SpentLists(n, e) /\ LockedRecords(n, d)' = LockedRecords(n, d)
        /\ AfterLocked(t, n)' = AfterLocked(t, n) /\ AfterSpends(m, n)' = AfterSpends(m, n)
    BY FrameStays
  <1>5. CASE mapping # Unmapped /\ InputsOf[Block] # <<>>
    <2>1. phase' = "spends" /\ snapshot' = e /\ at' = 1
      BY <1>2, <1>5 DEF ToSpends
    <2>2. Joined(SpentLists(n, e), 1 - 1) = <<>>
      <3>1. 1 - 1 = 0
        OBVIOUS
      <3> QED BY <3>1 DEF Joined
    <2>3. Upsert(m, <<>>) = m
      BY <1>1, NothingWritten
    <2>4. InSpends(t, n, m)'
      BY <1>2, <1>3, <1>4, <2>1, <2>2, <2>3 DEF InSpends
    <2> QED BY <2>1, <2>4 DEF Present, Busy
  <1>6. CASE InputsOf[Block] = <<>>
    <2>1. phase' = "checkpoint"
      BY <1>6 DEF ToSpends
    <2>2. SpendsAt(Block) = {}
      <3>1. Range(<<>>) = {}
        BY DEF Range
      <3> QED BY <1>1, <1>6, <3>1, BlockInputs
    <2>3. PICK inputs : inputs = SpendsOf(chain[n], DOMAIN utxos)
      OBVIOUS
    <2>4. Len(inputs) = 0
      <3>1. inputs \in Seq(InputRecords) /\ Range(inputs) = {}
        <4>1. PICK block \in Blocks : block = chain[n] /\ SpendsAt(block) = {}
          BY <1>1, <2>2
        <4> QED BY <2>3, <4>1, SpendsAre
      <3>2. DOMAIN inputs = {}
        BY <3>1 DEF Range
      <3> QED BY <3>1, <3>2
    <2>5. SpentRecords(n, e) = <<>>
      <3>1. PICK ss : ss = SpentLists(n, e)
        OBVIOUS
      <3>2. SpentRecords(n, e) = Joined(ss, 0) /\ Joined(ss, 0) = <<>>
        BY <1>1, <2>3, <2>4, <3>1, SpentIs
      <3> QED BY <3>2
    <2>6. AfterSpends(m, n) = m
      BY <1>1, <1>2, <2>5, NothingWritten DEF AfterSpends
    <2>7. InCheckpoint(t, n, m)'
      BY <1>3, <1>4, <2>6 DEF InCheckpoint
    <2> QED BY <2>1, <2>7 DEF Present, Busy
  <1> QED BY <1>5, <1>6

LEMMA HitsHandledEntities ==
    ASSUME TypeInv, EntitiesInv, mapping # Unmapped, HitsHandled
    PROVE  EntitiesInv'
  <1>1. /\ Busy /\ BlockFrame /\ UNCHANGED <<checkpoints, versions, dispatched, guest>>
        /\ phase = "hits" /\ ~guest.running
    BY DEF HitsHandled, Busy, BlockFrame, tables, TypeInv, PlaceInv, ToSpends
  <1>2. PICK n, t : /\ n = Daa /\ t = Until(versions, n - 1) /\ Present(t, n)
                    /\ n \in Nat /\ n \in DOMAIN chain /\ IsTable(t)
    BY <1>1, PresentHere
  <1>3. versions = t /\ dispatched = <<>>
    BY <1>1, <1>2 DEF Present, InHits
  <1>4. PICK e : e = Latest(t)
    OBVIOUS
  <1>5. Hits = HitsOf[chain[n]]
    BY <1>1, <1>2, BlockOf
  <1>6. CASE Hits # <<>>
    <2>1. phase' = "locked" /\ at' = 1 /\ snapshot' = e
      BY <1>3, <1>4, <1>6 DEF HitsHandled
    <2>2. Joined(LockedLists(n, e), 1 - 1)' = <<>>
      <3>1. 1 - 1 = 0
        OBVIOUS
      <3> QED BY <3>1 DEF Joined
    <2>3. InLocked(t, n)'
      BY <1>1, <1>3, <1>4, <2>1, <2>2 DEF InLocked
    <2>4. Present(t, n)' /\ Busy'
      BY <2>1, <2>3 DEF Present, Busy
    <2> QED BY <1>1, <1>2, <2>4, LoopStep
  <1>7. CASE Hits = <<>>
    <2>1. ToSpends
      BY <1>7 DEF HitsHandled
    <2>2. LockedRecords(n, e) = <<>>
      <3>1. PICK ss : ss = LockedLists(n, e)
        OBVIOUS
      <3>2. Len(HitsOf[chain[n]]) = 0
        BY <1>5, <1>7
      <3>3. LockedRecords(n, e) = Joined(ss, 0) /\ Joined(ss, 0) = <<>>
        BY <1>2, <3>1, <3>2, LockedIs
      <3> QED BY <3>3
    <2>3. PICK m : m = AfterLocked(t, n)
      OBVIOUS
    <2>4. m = t
      BY <1>2, <1>4, <2>2, <2>3, NothingWritten DEF AfterLocked
    <2>5. versions' = m /\ dispatched' = LockedRecords(n, e)
      BY <1>1, <1>3, <2>2, <2>4
    <2>6. Present(t, n)' /\ Busy'
      BY <1>1, <1>2, <1>4, <2>1, <2>3, <2>5, ToSpendsPresent
    <2> QED BY <1>1, <1>2, <2>6, LoopStep
  <1> QED BY <1>6, <1>7

LEMMA StoreDispatchedEntities ==
    ASSUME TypeInv, EntitiesInv, mapping # Unmapped, StoreDispatched
    PROVE  EntitiesInv'
  <1>1. /\ Busy /\ BlockFrame /\ UNCHANGED <<checkpoints, dispatched, guest>>
        /\ phase = "locked" /\ at > Len(Hits) /\ ToSpends /\ versions' = Upsert(versions, dispatched)
        /\ at \in Nat \ {0} /\ at <= Len(Hits) + 1
    BY DEF StoreDispatched, Busy, BlockFrame, tables, TypeInv, PlaceInv, ToSpends
  <1>2. PICK n, t : /\ n = Daa /\ t = Until(versions, n - 1) /\ Present(t, n)
                    /\ n \in Nat /\ n \in DOMAIN chain /\ IsTable(t)
    BY <1>1, PresentHere
  <1>3. PICK e : e = Latest(t)
    OBVIOUS
  <1>4. versions = t /\ dispatched = Joined(LockedLists(n, e), at - 1)
    BY <1>1, <1>2, <1>3 DEF Present, InLocked
  <1>5. Len(Hits) \in Nat /\ Hits = HitsOf[chain[n]]
    BY <1>1, <1>2, BlockOf, BlockFacts
  <1>6. at - 1 = Len(HitsOf[chain[n]]) /\ ~(at <= Len(Hits))
    BY <1>1, <1>5
  <1>7. dispatched = LockedRecords(n, e)
    <2>1. PICK ss : ss = LockedLists(n, e)
      OBVIOUS
    <2>2. LockedRecords(n, e) = Joined(ss, Len(HitsOf[chain[n]]))
      BY <1>2, <2>1, LockedIs
    <2> QED BY <1>4, <1>6, <2>1, <2>2
  <1>8. PICK m : m = AfterLocked(t, n)
    OBVIOUS
  <1>9. versions' = m
    BY <1>1, <1>3, <1>4, <1>7, <1>8 DEF AfterLocked
  <1>10. ~guest.running
    BY <1>1, <1>6 DEF TypeInv, PlaceInv
  <1>11. Present(t, n)' /\ Busy'
    BY <1>1, <1>2, <1>3, <1>7, <1>8, <1>9, <1>10, ToSpendsPresent
  <1>12. \A i \in DOMAIN dispatched : dispatched[i].daa = n
    BY <1>1, <1>2 DEF TypeInv, RecordsInv
  <1> QED BY <1>1, <1>2, <1>11, <1>12, LoopStep

-------------------------------------------------------------------------------
(* The spend handlers.                                                       *)

LEMMA NextSpent ==
    ASSUME TypeInv, mapping # Unmapped, phase = "spends", at <= Len(Spends), NEW n, n = Daa, NEW entities,
           NEW s, s = Spends[at]
    PROVE  /\ Joined(SpentLists(n, entities), at)
                = Joined(SpentLists(n, entities), at - 1) \o SpentAt(n, entities, s)
           /\ IsList(Joined(SpentLists(n, entities), at - 1))
           /\ IsList(SpentAt(n, entities, s))
           /\ \A i \in DOMAIN SpentAt(n, entities, s) : SpentAt(n, entities, s)[i].daa = n
           /\ at \in Nat
  <1>1. Busy /\ at \in Nat \ {0}
    BY DEF Busy, TypeInv, PlaceInv
  <1>2. PICK inputs : inputs = SpendsOf(chain[n], DOMAIN utxos)
    OBVIOUS
  <1>3. n \in DOMAIN chain /\ Spends = inputs /\ Len(Spends) \in Nat
    BY <1>1, <1>2, BlockOf, BlockFacts
  <1>4. at \in 1..Len(inputs) /\ at - 1 \in 0..Len(inputs)
    BY <1>1, <1>3
  <1>5. PICK k : k = at
    OBVIOUS
  <1>6. PICK ss : ss = SpentLists(n, entities)
    OBVIOUS
  <1>7. /\ \A i \in 1..Len(inputs) : /\ Joined(ss, i) = Joined(ss, i - 1) \o ss[i]
                                     /\ ss[i] = SpentAt(n, entities, inputs[i])
                                     /\ IsList(ss[i])
        /\ \A i \in 0..Len(inputs) : IsList(Joined(ss, i))
    BY ONLY TypeInv, mapping # Unmapped, <1>2, <1>3, <1>6, SpentIs, ZenonT(60)
  <1>8. k \in 1..Len(inputs) /\ k - 1 \in 0..Len(inputs) /\ s = inputs[k]
    BY <1>3, <1>4, <1>5
  <1>9. /\ Joined(ss, k) = Joined(ss, k - 1) \o SpentAt(n, entities, s)
        /\ IsList(Joined(ss, k - 1)) /\ IsList(SpentAt(n, entities, s))
    BY <1>7, <1>8
  <1>10. \A i \in DOMAIN SpentAt(n, entities, s) : SpentAt(n, entities, s)[i].daa = n
    BY WritesList, NoStamped DEF SpentAt, TypeInv
  <1> QED BY <1>1, <1>5, <1>6, <1>9, <1>10

LEMMA DispatchSpendEntities ==
    ASSUME TypeInv, EntitiesInv, mapping # Unmapped, DispatchSpend
    PROVE  EntitiesInv'
  <1>1. /\ Busy /\ Busy' /\ BlockFrame /\ UNCHANGED <<checkpoints, versions, snapshot, dispatched>>
        /\ phase = "spends" /\ phase' = "spends" /\ at <= Len(Spends) /\ ~guest.running
        /\ mapping \in Mappings
    BY DEF DispatchSpend, Busy, BlockFrame, TypeInv
  <1>2. PICK n, t : /\ n = Daa /\ t = Until(versions, n - 1) /\ Present(t, n)
                    /\ n \in Nat /\ n \in DOMAIN chain /\ IsTable(t)
    BY <1>1, PresentHere
  <1>3. PICK m : InSpends(t, n, m)
    BY <1>1, <1>2 DEF Present
  <1>4. PICK e, d : e = Latest(m) /\ d = Latest(t)
    OBVIOUS
  <1>5. /\ m = AfterLocked(t, n) /\ snapshot = e /\ dispatched = LockedRecords(n, d)
        /\ versions = Upsert(m, Joined(SpentLists(n, e), at - 1))
    BY <1>3, <1>4 DEF InSpends
  <1>6. PICK s : s = Spends[at]
    OBVIOUS
  <1>7. PICK kind, tx, event : kind = utxos[s.previous].kind /\ tx = s.spending /\ event = SpendEvent(s, n)
    OBVIOUS
  <1>8. IF Operation(tx) # Undetermined /\ HasHandler(kind, "CovenantSpent")
        THEN guest' = Instantiate(Handler(kind, "CovenantSpent"), event) /\ at' = at
        ELSE at' = at + 1 /\ guest' = guest
    BY <1>2, <1>6, <1>7 DEF DispatchSpend
  <1>9. Spends' = Spends /\ kind = utxos'[s.previous].kind
    BY <1>1, <1>7 DEF BlockFrame, Spends, Block, Daa
  <1>10. /\ SpentLists(n, e)' = SpentLists(n, e) /\ LockedRecords(n, d)' = LockedRecords(n, d)
         /\ AfterLocked(t, n)' = AfterLocked(t, n)
    BY <1>1, FrameStays
  <1>11. CASE Operation(tx) # Undetermined /\ HasHandler(kind, "CovenantSpent")
    <2>1. PICK handler : handler = Handler(kind, "CovenantSpent")
      OBVIOUS
    <2>2. guest' = Instantiate(handler, event) /\ at' = at
      BY <1>8, <1>11, <2>1
    <2>3. GuestRuns(handler, event, e)'
      BY <1>1, <2>2, InstanceRuns DEF BlockFrame
    <2>4. /\ HasHandler(kind, "CovenantSpent")' /\ Handler(kind, "CovenantSpent")' = handler
          /\ SpendEvent(s, n)' = event /\ Operation(tx)' # Undetermined
      BY <1>1, <1>7, <1>11, <2>1, FrameStays
    <2>5. SpentRun(s, n, e)'
      BY <1>7, <1>9, <2>3, <2>4 DEF SpentRun
    <2>6. InSpends(t, n, m)'
      BY <1>1, <1>4, <1>5, <1>6, <1>9, <1>10, <2>2, <2>5 DEF InSpends
    <2>7. Present(t, n)'
      BY <1>1, <2>6 DEF Present
    <2> QED BY <1>1, <1>2, <2>7, LoopStep
  <1>12. CASE ~(Operation(tx) # Undetermined /\ HasHandler(kind, "CovenantSpent"))
    <2>1. guest' = guest /\ at' = at + 1
      BY <1>8, <1>12
    <2>2. SpentAt(n, e, s) = <<>>
      BY <1>7, <1>12, WritesAre DEF SpentAt
    <2>3. /\ Joined(SpentLists(n, e), at) = Joined(SpentLists(n, e), at - 1) \o <<>>
          /\ IsList(Joined(SpentLists(n, e), at - 1)) /\ at \in Nat
      BY <1>1, <1>2, <1>6, <2>2, NextSpent, ZenonT(60)
    <2>4. Joined(SpentLists(n, e), at) = Joined(SpentLists(n, e), at - 1)
      BY <2>3, NothingJoins
    <2>5. at' - 1 = at
      BY <2>1, <2>3
    <2>6. InSpends(t, n, m)'
      BY <1>1, <1>4, <1>5, <1>10, <2>1, <2>4, <2>5 DEF InSpends
    <2>7. Present(t, n)'
      BY <1>1, <2>6 DEF Present
    <2> QED BY <1>1, <1>2, <2>7, LoopStep
  <1> QED BY <1>11, <1>12

LEMMA SpendDispatchedEntities ==
    ASSUME TypeInv, EntitiesInv, mapping # Unmapped, SpendDispatched
    PROVE  EntitiesInv'
  <1>1. /\ Busy /\ Busy' /\ BlockFrame /\ UNCHANGED <<checkpoints, snapshot, dispatched>>
        /\ phase = "spends" /\ phase' = "spends" /\ guest.running /\ (Returned \/ Failed)
        /\ at' = at + 1 /\ guest' = NoGuest /\ mapping \in Mappings
        /\ at <= Len(Spends)
    BY DEF SpendDispatched, Busy, BlockFrame, TypeInv, PlaceInv, Returned, Failed
  <1>2. PICK n, t : /\ n = Daa /\ t = Until(versions, n - 1) /\ Present(t, n)
                    /\ n \in Nat /\ n \in DOMAIN chain /\ IsTable(t)
    BY <1>1, PresentHere
  <1>3. PICK m : InSpends(t, n, m)
    BY <1>1, <1>2 DEF Present
  <1>4. PICK e, d : e = Latest(m) /\ d = Latest(t)
    OBVIOUS
  <1>5. PICK s : /\ s = Spends[at] /\ SpentRun(s, n, e)
                 /\ m = AfterLocked(t, n) /\ snapshot = e /\ dispatched = LockedRecords(n, d)
                 /\ versions = Upsert(m, Joined(SpentLists(n, e), at - 1))
    BY <1>1, <1>3, <1>4 DEF InSpends
  <1>6. PICK kind, handler, event :
            /\ kind = utxos[s.previous].kind /\ HasHandler(kind, "CovenantSpent")
            /\ handler = Handler(kind, "CovenantSpent") /\ event = SpendEvent(s, n)
            /\ GuestRuns(handler, event, e) /\ Operation(s.spending) # Undetermined
    BY <1>5 DEF SpentRun
  <1>7. Emitted = OpsOf(handler, event, e)
    BY <1>1, <1>6, EmittedIs
  <1>8. PICK stamped : stamped = SpentAt(n, e, s)
    OBVIOUS
  <1>9. stamped = Stamped(Emitted, n)
    BY <1>6, <1>7, <1>8, WritesAre DEF SpentAt
  <1>10. versions' = Upsert(versions, stamped)
    BY <1>2, <1>9 DEF SpendDispatched
  <1>11. /\ Joined(SpentLists(n, e), at) = Joined(SpentLists(n, e), at - 1) \o stamped
         /\ IsList(Joined(SpentLists(n, e), at - 1)) /\ IsList(stamped)
         /\ \A i \in DOMAIN stamped : stamped[i].daa = n
         /\ at \in Nat
    <2>1. phase = "spends" /\ at <= Len(Spends) /\ n = Daa /\ s = Spends[at]
      BY <1>1, <1>2, <1>5
    <2>2. /\ Joined(SpentLists(n, e), at) = Joined(SpentLists(n, e), at - 1) \o SpentAt(n, e, s)
          /\ IsList(Joined(SpentLists(n, e), at - 1))
          /\ IsList(SpentAt(n, e, s))
          /\ \A i \in DOMAIN SpentAt(n, e, s) : SpentAt(n, e, s)[i].daa = n
          /\ at \in Nat
      BY <2>1, NextSpent
    <2> QED BY <1>8, <2>2
  <1>12. versions' = Upsert(m, Joined(SpentLists(n, e), at))
    <2>1. PICK r : r = Joined(SpentLists(n, e), at - 1)
      OBVIOUS
    <2>2. versions' = Upsert(Upsert(m, r), stamped)
      BY <1>5, <1>10, <2>1
    <2>3. Upsert(Upsert(m, r), stamped) = Upsert(m, r \o stamped)
      BY <1>11, <2>1, UpsertTwice
    <2> QED BY <1>11, <2>1, <2>2, <2>3
  <1>13. at' - 1 = at /\ ~guest'.running
    BY <1>1, <1>11 DEF NoGuest
  <1>14. /\ SpentLists(n, e)' = SpentLists(n, e) /\ LockedRecords(n, d)' = LockedRecords(n, d)
         /\ AfterLocked(t, n)' = AfterLocked(t, n)
    BY <1>1, FrameStays
  <1>15. InSpends(t, n, m)'
    BY <1>1, <1>4, <1>5, <1>12, <1>13, <1>14 DEF InSpends
  <1>16. Present(t, n)'
    BY <1>1, <1>15 DEF Present
  <1> QED BY <1>1, <1>2, <1>10, <1>11, <1>16, LoopStep

LEMMA SpendsHandledEntities ==
    ASSUME TypeInv, EntitiesInv, mapping # Unmapped, SpendsHandled
    PROVE  EntitiesInv'
  <1>1. /\ Busy /\ Busy' /\ BlockFrame /\ UNCHANGED <<checkpoints, versions, dispatched>>
        /\ phase = "spends" /\ phase' = "checkpoint" /\ at > Len(Spends)
        /\ at \in Nat \ {0} /\ at <= Len(Spends) + 1
    BY DEF SpendsHandled, Busy, BlockFrame, tables, handling, TypeInv, PlaceInv
  <1>2. PICK n, t : /\ n = Daa /\ t = Until(versions, n - 1) /\ Present(t, n)
                    /\ n \in Nat /\ n \in DOMAIN chain /\ IsTable(t)
    BY <1>1, PresentHere
  <1>3. PICK m : InSpends(t, n, m)
    BY <1>1, <1>2 DEF Present
  <1>4. PICK e, d : e = Latest(m) /\ d = Latest(t)
    OBVIOUS
  <1>5. /\ m = AfterLocked(t, n) /\ dispatched = LockedRecords(n, d)
        /\ versions = Upsert(m, Joined(SpentLists(n, e), at - 1))
    BY <1>3, <1>4 DEF InSpends
  <1>6. PICK inputs : inputs = SpendsOf(chain[n], DOMAIN utxos)
    OBVIOUS
  <1>7. Spends = inputs /\ Len(Spends) \in Nat
    BY <1>1, <1>2, <1>6, BlockOf, BlockFacts
  <1>8. at - 1 = Len(inputs)
    BY <1>1, <1>7
  <1>9. versions = AfterSpends(m, n)
    <2>1. PICK ss : ss = SpentLists(n, e)
      OBVIOUS
    <2>2. SpentRecords(n, e) = Joined(ss, Len(inputs))
      BY <1>2, <1>6, <2>1, SpentIs
    <2>3. versions = Upsert(m, SpentRecords(n, e))
      BY <1>5, <1>8, <2>1, <2>2
    <2> QED BY <1>4, <2>3 DEF AfterSpends
  <1>10. /\ LockedRecords(n, d)' = LockedRecords(n, d)
         /\ AfterLocked(t, n)' = AfterLocked(t, n) /\ AfterSpends(m, n)' = AfterSpends(m, n)
    BY <1>1, FrameStays
  <1>11. InCheckpoint(t, n, m)'
    BY <1>1, <1>4, <1>5, <1>9, <1>10 DEF InCheckpoint
  <1>12. Present(t, n)'
    BY <1>1, <1>11 DEF Present
  <1> QED BY <1>1, <1>2, <1>12, LoopStep

LEMMA CheckpointEntities ==
    ASSUME TypeInv, EntitiesInv, mapping # Unmapped, Checkpoint
    PROVE  EntitiesInv'
  <1>1. /\ Busy /\ ~Busy' /\ BlockFrame /\ UNCHANGED <<versions, dispatched>>
        /\ phase = "checkpoint"
        /\ checkpoints' = Append(checkpoints, CanonicalEntities(dispatched))
    BY DEF Checkpoint, Busy, BlockFrame, tables, handling, PoiInput
  <1>2. PICK n, t : /\ n = Daa /\ t = Until(versions, n - 1) /\ Present(t, n)
                    /\ n \in Nat /\ n \in DOMAIN chain /\ IsTable(t)
    BY <1>1, PresentHere
  <1>3. PICK m : InCheckpoint(t, n, m)
    BY <1>1, <1>2 DEF Present
  <1>4. PICK d : d = Latest(t)
    OBVIOUS
  <1>5. m = AfterLocked(t, n) /\ dispatched = LockedRecords(n, d) /\ versions = AfterSpends(m, n)
    BY <1>3, <1>4 DEF InCheckpoint
  <1>6. Done = n - 1 /\ Done \in Nat /\ \A k \in DOMAIN versions : k[2] <= n
    BY <1>1, <1>2, BlockOf
  <1>7. Done' = n /\ checkpoints'[n] = CanonicalEntities(dispatched)
        /\ \A i \in 1..Done : checkpoints'[i] = checkpoints[i]
    <2>1. PICK S : checkpoints \in Seq(S)
      BY DEF TypeInv, IsList
    <2>2. PICK x : x = CanonicalEntities(dispatched)
      OBVIOUS
    <2>3. checkpoints \in Seq(S \cup {x}) /\ checkpoints' = Append(checkpoints, x)
      BY <1>1, <2>1, <2>2
    <2>4. /\ Len(checkpoints') = Len(checkpoints) + 1
          /\ checkpoints'[Len(checkpoints) + 1] = x
          /\ \A i \in 1..Len(checkpoints) : checkpoints'[i] = checkpoints[i]
      BY <2>3
    <2> QED BY <1>2, <1>6, <2>2, <2>4 DEF Done
  <1>8. Until(versions, n) = versions
    BY <1>6, UntilAll DEF EntitiesInv
  <1>9. chain' = chain /\ mapping' = mapping
    BY <1>1 DEF BlockFrame
  <1>10. ASSUME NEW i \in 1..n
         PROVE  \E u, v : u = Until(versions', i - 1) /\ Follows(i, u, v)'
    <2>1. CASE i = n
      <3>1. /\ LockedRecords(n, d)' = LockedRecords(n, d)
            /\ AfterLocked(t, n)' = AfterLocked(t, n) /\ AfterSpends(m, n)' = AfterSpends(m, n)
        BY <1>1, FrameStays
      <3>2. Follows(n, t, m)'
        BY <1>1, <1>4, <1>5, <1>7, <1>8, <3>1 DEF Follows
      <3> QED BY <1>1, <1>2, <2>1, <3>2
    <2>2. CASE i # n
      <3>1. i \in 1..Done
        BY <1>2, <1>6, <2>2
      <3>2. PICK u, v : u = Until(versions, i - 1) /\ Follows(i, u, v)
        BY <3>1 DEF EntitiesInv, HistoryInv
      <3>3. PICK e : e = Latest(u)
        OBVIOUS
      <3>4. /\ LockedRecords(i, e)' = LockedRecords(i, e)
            /\ AfterLocked(u, i)' = AfterLocked(u, i) /\ AfterSpends(v, i)' = AfterSpends(v, i)
        BY <1>1, FrameStays
      <3>5. Follows(i, u, v)'
        BY <1>1, <1>7, <3>1, <3>2, <3>3, <3>4 DEF Follows
      <3> QED BY <1>1, <3>2, <3>5
    <2> QED BY <2>1, <2>2
  <1>11. HistoryInv'
    BY <1>7, <1>10 DEF HistoryInv
  <1>12. IsTable(versions')
    BY <1>1 DEF EntitiesInv
  <1> QED BY <1>1, <1>9, <1>11, <1>12 DEF EntitiesInv

LEMMA SettledIs ==
    ASSUME TypeInv, phase = "idle"
    PROVE  /\ Done \in Nat /\ Done = Daa /\ DOMAIN chain = 1..Done
           /\ \A k \in DOMAIN versions : k[2] \in Nat /\ k[2] <= Done
  <1>1. Len(checkpoints) = Len(chain) /\ Len(chain) \in Nat /\ DOMAIN chain = 1..Len(chain)
    BY DEF TypeInv
  <1>2. \A k \in DOMAIN versions : k[2] \in 1..Len(chain)
    BY <1>1 DEF TypeInv, RecordsInv
  <1> QED BY <1>1, <1>2 DEF Done, Daa

LEMMA CommitEntities ==
    ASSUME TypeInv, ChainInv, EntitiesInv, mapping # Unmapped, NEW block \in Blocks, Commit(block)
    PROVE  EntitiesInv'
  <1>1. /\ phase = "idle" /\ phase' = "hits" /\ UNCHANGED <<mapping, utxos, versions, checkpoints>>
        /\ dispatched' = <<>>
    BY DEF Commit, tables
  <1>2. /\ Done \in Nat /\ Done = Daa /\ DOMAIN chain = 1..Done
        /\ \A k \in DOMAIN versions : k[2] \in Nat /\ k[2] <= Done
    BY <1>1, SettledIs
  <1>3. PICK n : n = Daa'
    OBVIOUS
  <1>4. n = Done + 1 /\ \A d \in 1..Done : chain'[d] = chain[d]
    BY <1>2, <1>3, CommitChain
  <1>5. n - 1 = Done
    BY <1>2, <1>4
  <1>6. Until(versions', n - 1) = versions /\ IsTable(versions)
    BY <1>1, <1>2, <1>5, UntilAll DEF EntitiesInv
  <1>7. Done' = Done
    BY <1>1 DEF Done
  <1>8. HistoryInv'
    <2>1. \A d \in 1..Done' : chain'[d] = chain[d] /\ Agree(d) /\ checkpoints'[d] = checkpoints[d]
      BY <1>1, <1>4, <1>7 DEF Agree
    <2>2. \A d \in 0..Done' : Until(versions', d) = Until(versions, d)
      BY <1>1
    <2> QED BY <1>1, <1>2, <1>7, <2>1, <2>2, HistoryFrame DEF EntitiesInv
  <1>9. PICK t : t = versions
    OBVIOUS
  <1>10. Present(t, n)'
    BY <1>1, <1>9 DEF Present, InHits
  <1>11. \E m, u : m = Daa' /\ u = Until(versions', m - 1) /\ Present(u, m)'
    BY <1>3, <1>6, <1>9, <1>10
  <1> QED BY <1>1, <1>6, <1>8, <1>11 DEF EntitiesInv

\* The next hit concerns no operation of a block before.
LEMMA HandleHitAgrees ==
    ASSUME TypeInv, ChainInv, HandleHit, mapping # Unmapped, NEW d \in DOMAIN chain, d # Daa
    PROVE  Agree(d)
  <1>0. PICK n : n = Daa
    OBVIOUS
  <1>1. PICK new : new = Outpoint(Hits[at])
    OBVIOUS
  <1>2. n \in DOMAIN chain /\ Hits[at] \in OnChainAt(n)
    BY <1>0, HandledNext
  <1>3. /\ DOMAIN utxos' = {new} \cup DOMAIN utxos
        /\ \A o \in DOMAIN utxos : o # new => utxos'[o] = utxos[o]
    BY <1>1, HitTracked
  <1>4. new[1] \in Range(chain[n])
    <2>1. PICK h : h = Hits[at]
      OBVIOUS
    <2>2. h.tx \in Range(chain[n]) /\ new = <<h.tx, h.index>>
      BY <1>1, <1>2, <2>1, HitFacts DEF TypeInv
    <2> QED BY <2>2
  <1>5. ASSUME NEW tx \in Range(chain[d]), NEW o, o[1] = tx \/ o \in Range(Inputs[tx])
        PROVE  o # new
    <2>1. new \notin Range(Inputs[tx])
      BY <1>1, <1>5, TrackedIsNew
    <2>2. new[1] # tx
      BY <1>0, <1>2, <1>4, <1>5 DEF ChainInv
    <2> QED BY <1>5, <2>1, <2>2
  <1> QED BY <1>3, <1>5 DEF Agree

LEMMA HandleHitEntities ==
    ASSUME TypeInv, ChainInv, EntitiesInv, mapping # Unmapped, HandleHit
    PROVE  EntitiesInv'
  <1>1. /\ phase = "hits" /\ phase' = "hits" /\ Busy
        /\ UNCHANGED <<mapping, chain, versions, checkpoints, dispatched>>
    BY DEF HandleHit, Busy
  <1>2. PICK n, t : /\ n = Daa /\ t = Until(versions, n - 1) /\ Present(t, n)
                    /\ n \in Nat /\ n \in DOMAIN chain /\ IsTable(t)
    BY <1>1, PresentHere
  <1>3. Done \in Nat /\ Done = n - 1 /\ Done' = Done /\ Daa' = n
    BY <1>1, <1>2, BlockOf DEF Done, Daa
  <1>4. \A d \in 1..Done : d \in DOMAIN chain /\ d # n
    <2>1. n \in DOMAIN chain /\ DOMAIN chain = 1..Len(chain) /\ Len(chain) \in Nat
      BY <1>2 DEF TypeInv
    <2> QED BY <1>2, <1>3, <2>1
  <1>5. HistoryInv'
    <2>1. \A d \in 1..Done' : chain'[d] = chain[d] /\ Agree(d) /\ checkpoints'[d] = checkpoints[d]
      BY <1>1, <1>2, <1>3, <1>4, HandleHitAgrees
    <2>2. \A d \in 0..Done' : Until(versions', d) = Until(versions, d)
      BY <1>1
    <2> QED BY <1>1, <1>3, <2>1, <2>2, HistoryFrame DEF EntitiesInv
  <1>6. Present(t, n)'
    BY <1>1, <1>2 DEF Present, InHits
  <1>7. \E m, u : m = Daa' /\ u = Until(versions', m - 1) /\ Present(u, m)'
    BY <1>1, <1>2, <1>3, <1>6
  <1> QED BY <1>1, <1>5, <1>7 DEF EntitiesInv

\* What a reorganization leaves of the tracker is all the blocks below need.
LEMMA UnwindAgrees ==
    ASSUME TypeInv, ChainInv, UtxoInv, NEW from \in DOMAIN chain, Unwind(from),
           NEW d \in DOMAIN chain, d < from
    PROVE  Agree(d)
  <1>1. /\ \A o : o \in DOMAIN utxos' <=> o \in DOMAIN utxos /\ utxos[o].daa < from
        /\ \A o \in DOMAIN utxos' : utxos'[o] = utxos[o]
    BY UnwindUtxosRows
  <1>2. chain \in Seq(Blocks) /\ phase = "idle"
    BY DEF TypeInv, Unwind
  <1>3. /\ \A o : o \in DOMAIN utxos <=> \E e \in DOMAIN chain : \E h \in OnChainAt(e) : o = Outpoint(h)
        /\ \A e \in DOMAIN chain : \A h \in OnChainAt(e) : utxos[Outpoint(h)].daa = e
    <2>1. \A e \in DOMAIN chain : Handled(e) = OnChainAt(e)
      BY <1>2 DEF Handled
    <2> QED BY <2>1 DEF UtxoInv, HitRow
  <1>4. \A e \in DOMAIN chain : e \in Nat
    BY <1>2
  <1>5. ASSUME NEW tx \in Range(chain[d]), NEW o \in DOMAIN utxos, o[1] = tx \/ o \in Range(Inputs[tx])
        PROVE  o \in DOMAIN utxos'
    <2>1. PICK e \in DOMAIN chain : \E h \in OnChainAt(e) : o = Outpoint(h)
      BY <1>3
    <2>2. PICK h \in OnChainAt(e) : o = Outpoint(h)
      BY <2>1
    <2>3. utxos[o].daa = e
      BY <1>3, <2>2
    <2>4. h.tx \in Range(chain[e]) /\ o[1] = h.tx
      BY <1>2, <2>2, HitFacts DEF Outpoint
    <2>5. CASE o[1] = tx
      <3>1. e = d
        BY <1>5, <2>4, <2>5 DEF ChainInv
      <3> QED BY <1>1, <2>3, <3>1
    <2>6. CASE o \in Range(Inputs[tx])
      <3>1. e < d
        BY <1>2, <2>2, <2>6, Elsewhere
      <3>2. e < from
        BY <1>4, <3>1
      <3> QED BY <1>1, <2>3, <3>2
    <2> QED BY <1>5, <2>5, <2>6
  <1> QED BY <1>1, <1>5 DEF Agree

LEMMA UnwindEntities ==
    ASSUME TypeInv, ChainInv, UtxoInv, EntitiesInv, mapping # Unmapped,
           NEW from \in DOMAIN chain, Unwind(from)
    PROVE  EntitiesInv'
  <1>1. /\ phase = "idle" /\ phase' = "idle" /\ UNCHANGED mapping
        /\ versions' = Restrict(versions, {k \in DOMAIN versions : k[2] < from})
        /\ checkpoints' = SubSeq(checkpoints, 1, from - 1)
    BY DEF Unwind, UnwindVersions
  <1>2. /\ Done \in Nat /\ Done = Daa /\ DOMAIN chain = 1..Done
        /\ \A k \in DOMAIN versions : k[2] \in Nat /\ k[2] <= Done
    BY <1>1, SettledIs
  <1>3. from \in 1..Done /\ from - 1 \in Nat
    BY <1>2
  <1>4. Done' = from - 1 /\ \A d \in 1..(from - 1) : checkpoints'[d] = checkpoints[d]
    <2>1. PICK S : checkpoints \in Seq(S)
      BY DEF TypeInv, IsList
    <2>2. from - 1 <= Len(checkpoints) /\ from \in Nat
      BY <1>3 DEF Done
    <2> QED BY <1>1, <1>3, <2>1, <2>2 DEF Done
  <1>5. versions' = Until(versions, from - 1)
    <2>1. \A k \in DOMAIN versions : k[2] < from <=> k[2] <= from - 1
      BY <1>2, <1>3
    <2>2. {k \in DOMAIN versions : k[2] < from} = {k \in DOMAIN versions : k[2] <= from - 1}
      BY <2>1
    <2> QED BY <1>1, <2>2 DEF Until
  <1>6. \A d \in 0..(from - 1) : Until(versions', d) = Until(versions, d)
    BY <1>2, <1>3, <1>5, UntilUntil
  <1>7. \A d \in 1..(from - 1) : chain'[d] = chain[d] /\ Agree(d)
    <2>1. \A d \in 1..(from - 1) : d \in DOMAIN chain /\ d < from
      BY <1>2, <1>3
    <2>2. \A d \in 1..(from - 1) : chain'[d] = chain[d]
      BY <2>1, UnwindChain
    <2> QED BY <2>1, <2>2, UnwindAgrees
  <1>8. HistoryInv'
    BY <1>1, <1>2, <1>3, <1>4, <1>6, <1>7, HistoryFrame DEF EntitiesInv
  <1>9. IsTable(versions')
    BY <1>5, UntilIs
  <1> QED BY <1>1, <1>8, <1>9 DEF EntitiesInv, Busy

\* Without a mapping nothing is written, and a checkpoint hashes the hits.
LEMMA UnmappedStep ==
    ASSUME TypeInv, EntitiesInv, mapping = Unmapped, [Next]_vars
    PROVE  EntitiesInv'
  <1>1. /\ versions = Empty /\ phase # "locked" /\ phase # "spends" /\ ~guest.running
        /\ \A d \in 1..Done : checkpoints[d] = CanonicalBlock(chain[d])
    BY DEF EntitiesInv, TypeInv, PlaceInv
  <1>2. Len(checkpoints) \in Nat /\ Len(chain) \in Nat /\ Done \in Nat /\ Done <= Len(chain)
        /\ DOMAIN chain = 1..Len(chain) /\ chain \in Seq(Blocks)
    BY DEF TypeInv, Done, IsList
  <1>3. ASSUME UNCHANGED <<mapping, versions, checkpoints>>, phase' # "locked", phase' # "spends",
               \A d \in 1..Done : chain'[d] = chain[d]
        PROVE  EntitiesInv'
    BY <1>1, <1>3 DEF EntitiesInv, Done
  <1>4. ASSUME NEW block \in Blocks, Commit(block) PROVE EntitiesInv'
    <2>1. \A d \in 1..Done : chain'[d] = chain[d]
      BY <1>2, <1>4 DEF Commit
    <2> QED BY <1>3, <1>4, <2>1 DEF Commit, tables
  <1>5. CASE HandleHit
    BY <1>1, <1>3, <1>5 DEF HandleHit
  <1>6. CASE HitsHandled
    BY <1>1, <1>3, <1>6 DEF HitsHandled, ToSpends
  <1>7. CASE Checkpoint
    <2>1. /\ UNCHANGED <<mapping, versions, chain>> /\ phase = "checkpoint" /\ phase' = "idle"
          /\ checkpoints' = Append(checkpoints, CanonicalBlock(Block))
      BY <1>7 DEF Checkpoint, tables, PoiInput
    <2>2. PICK S, x : checkpoints \in Seq(S) /\ x = CanonicalBlock(Block)
      BY DEF TypeInv, IsList
    <2>3. checkpoints \in Seq(S \cup {x}) /\ checkpoints' = Append(checkpoints, x)
      BY <2>1, <2>2
    <2>4. /\ Len(checkpoints') = Len(checkpoints) + 1
          /\ checkpoints'[Len(checkpoints) + 1] = x
          /\ \A i \in 1..Len(checkpoints) : checkpoints'[i] = checkpoints[i]
      BY <2>3
    <2>5. Len(checkpoints) = Len(chain) - 1
      BY <2>1 DEF TypeInv
    <2>6. PICK n : n = Len(chain)
      OBVIOUS
    <2>7. Done' = n /\ n = Done + 1 /\ x = CanonicalBlock(chain[n]) /\ n \in Nat
      BY <1>2, <2>2, <2>4, <2>5, <2>6 DEF Done, Block, Daa
    <2>8. \A d \in 1..n : checkpoints'[d] = CanonicalBlock(chain[d])
      <3> SUFFICES ASSUME NEW d \in 1..n PROVE checkpoints'[d] = CanonicalBlock(chain[d])
        OBVIOUS
      <3>1. CASE d = n
        BY <2>4, <2>7, <3>1 DEF Done
      <3>2. CASE d # n
        <4>1. d \in 1..Len(checkpoints) /\ d \in 1..Done
          BY <1>2, <2>7, <3>2 DEF Done
        <4> QED BY <1>1, <2>4, <4>1
      <3> QED BY <3>1, <3>2
    <2> QED BY <1>1, <2>1, <2>7, <2>8 DEF EntitiesInv
  <1>8. ASSUME NEW from \in DOMAIN chain, Unwind(from) PROVE EntitiesInv'
    <2>1. /\ phase = "idle" /\ phase' = "idle" /\ UNCHANGED mapping
          /\ versions' = Restrict(versions, {k \in DOMAIN versions : k[2] < from})
          /\ checkpoints' = SubSeq(checkpoints, 1, from - 1)
          /\ chain' = SubSeq(chain, 1, from - 1)
      BY <1>8 DEF Unwind, UnwindVersions
    <2>2. Done = Len(chain) /\ from \in 1..Done /\ from - 1 \in Nat
      BY <1>2, <2>1 DEF TypeInv, Done
    <2>3. PICK S : checkpoints \in Seq(S)
      BY DEF TypeInv, IsList
    <2>4. /\ Done' = from - 1
          /\ \A d \in 1..(from - 1) : checkpoints'[d] = checkpoints[d] /\ chain'[d] = chain[d]
      <3>1. from - 1 <= Len(checkpoints) /\ from - 1 <= Len(chain) /\ from \in Nat
        BY <2>2 DEF Done
      <3> QED BY <1>2, <2>1, <2>2, <2>3, <3>1 DEF Done
    <2>5. \A d \in 1..(from - 1) : checkpoints'[d] = CanonicalBlock(chain'[d])
      <3>1. \A d \in 1..(from - 1) : d \in 1..Done
        BY <1>2, <2>2
      <3> QED BY <1>1, <2>4, <3>1
    <2>6. versions' = Empty
      BY <1>1, <2>1 DEF Restrict, Empty
    <2> QED BY <2>1, <2>4, <2>5, <2>6 DEF EntitiesInv
  <1>9. CASE \/ DispatchLocked \/ LockedDispatched \/ StoreDispatched
             \/ DispatchSpend \/ SpendDispatched \/ SpendsHandled
    BY <1>1, <1>9 DEF DispatchLocked, LockedDispatched, StoreDispatched, DispatchSpend,
                      SpendDispatched, SpendsHandled
  <1>10. CASE Return \/ \E call \in Calls : HostCall(call)
    BY <1>1, <1>10 DEF Return, HostCall, Running
  <1>11. CASE Stop \/ Receive \/ ReceiveClosed \/ \E filters \in Filters : Subscribe(filters)
    BY <1>1, <1>3, <1>11 DEF Stop, Receive, ReceiveClosed, Subscribe, tables
  <1>12. CASE UNCHANGED vars
    BY <1>1, <1>3, <1>12 DEF vars, tables
  <1> QED BY <1>4, <1>5, <1>6, <1>7, <1>8, <1>9, <1>10, <1>11, <1>12 DEF Next, Step

LEMMA EntitiesInit == Init => EntitiesInv
  <1> SUFFICES ASSUME Init PROVE EntitiesInv
    OBVIOUS
  <1>1. Done = 0 /\ ~Busy
    BY DEF Init, Done, Busy
  <1>2. 1..Done = {}
    BY <1>1
  <1>3. IsTable(versions)
    BY DEF Init, Empty, IsTable
  <1> QED BY <1>1, <1>2, <1>3 DEF EntitiesInv, HistoryInv, Init

LEMMA EntitiesStep ==
    ASSUME FollowInv, EntitiesInv, [Next]_vars
    PROVE  EntitiesInv'
  <1>1. TypeInv /\ ChainInv /\ (mapping # Unmapped => UtxoInv)
    BY DEF FollowInv
  <1>2. CASE mapping = Unmapped
    BY <1>1, <1>2, UnmappedStep
  <1>3. CASE mapping # Unmapped
    \* Steps of the subscriber, and the stop.
    <2>1. ASSUME UNCHANGED <<mapping, chain, tables, checkpoints, handling>>,
                 phase' = phase \/ (phase = "idle" /\ phase' = "stopped")
          PROVE  EntitiesInv'
      <3>1. /\ UNCHANGED <<versions, snapshot, dispatched, at, guest>> /\ BlockFrame
            /\ Hits' = Hits /\ Spends' = Spends /\ Done' = Done /\ Daa' = Daa
        BY <2>1 DEF tables, handling, BlockFrame, Hits, Spends, Block, Daa, Done
      <3>2. Done \in Nat
        BY <1>1 DEF TypeInv, IsList, Done
      <3>3. HistoryInv'
        <4>1. \A d \in 1..Done' : chain'[d] = chain[d] /\ Agree(d) /\ checkpoints'[d] = checkpoints[d]
          BY <2>1, <3>1, FrameStays
        <4>2. \A d \in 0..Done' : Until(versions', d) = Until(versions, d)
          BY <3>1
        <4> QED BY <1>1, <1>3, <2>1, <3>1, <3>2, <4>1, <4>2, HistoryFrame DEF EntitiesInv
      <3>4. CASE Busy
        <4>1. phase' = phase /\ Busy'
          BY <2>1, <3>4 DEF Busy
        <4>2. PICK n, t : /\ n = Daa /\ t = Until(versions, n - 1) /\ Present(t, n)
                          /\ n \in Nat /\ n \in DOMAIN chain /\ IsTable(t)
          BY <1>1, <1>3, <3>4, PresentHere
        <4>3. phase = "hits" => InHits(t)'
          BY <3>1, <4>2 DEF Present, InHits
        <4>4. ASSUME phase = "locked" PROVE InLocked(t, n)'
          <5>1. PICK e : e = Latest(t)
            OBVIOUS
          <5>2. LockedLists(n, e)' = LockedLists(n, e)
            BY <3>1, FrameStays
          <5>3. ASSUME NEW h, LockedRun(h, n, e) PROVE LockedRun(h, n, e)'
            <6>1. PICK handler, event :
                      /\ handler = Handler(h.kind, "CovenantLocked") /\ event = LockedEvent(h, n)
                      /\ GuestRuns(handler, event, e) /\ HasHandler(h.kind, "CovenantLocked")
              BY <5>3 DEF LockedRun
            <6>2. HasHandler(h.kind, "CovenantLocked")' /\ Handler(h.kind, "CovenantLocked")' = handler
              BY <3>1, <6>1, FrameStays
            <6>3. GuestRuns(handler, event, e)'
              BY <3>1, <6>1, GuestStays DEF BlockFrame
            <6> QED BY <6>1, <6>2, <6>3 DEF LockedRun, LockedEvent
          <5>4. InLocked(t, n)
            BY <4>2, <4>4 DEF Present
          <5> QED BY <3>1, <5>1, <5>2, <5>3, <5>4 DEF InLocked
        <4>5. ASSUME NEW m, InSpends(t, n, m) PROVE InSpends(t, n, m)'
          <5>1. PICK e, d : e = Latest(m) /\ d = Latest(t)
            OBVIOUS
          <5>2. /\ SpentLists(n, e)' = SpentLists(n, e) /\ LockedRecords(n, d)' = LockedRecords(n, d)
                /\ AfterLocked(t, n)' = AfterLocked(t, n)
            BY <3>1, FrameStays
          <5>3. ASSUME NEW s, SpentRun(s, n, e) PROVE SpentRun(s, n, e)'
            <6>1. PICK kind, handler, event :
                      /\ kind = utxos[s.previous].kind /\ HasHandler(kind, "CovenantSpent")
                      /\ handler = Handler(kind, "CovenantSpent") /\ event = SpendEvent(s, n)
                      /\ GuestRuns(handler, event, e) /\ Operation(s.spending) # Undetermined
              BY <5>3 DEF SpentRun
            <6>2. PICK tx : tx = s.spending
              OBVIOUS
            <6>3. /\ HasHandler(kind, "CovenantSpent")' /\ Handler(kind, "CovenantSpent")' = handler
                  /\ SpendEvent(s, n)' = event /\ Operation(tx)' # Undetermined
                  /\ kind = utxos'[s.previous].kind
              BY <3>1, <6>1, <6>2, FrameStays DEF BlockFrame
            <6>4. GuestRuns(handler, event, e)'
              BY <3>1, <6>1, GuestStays DEF BlockFrame
            <6> QED BY <6>2, <6>3, <6>4 DEF SpentRun
          <5> QED BY <3>1, <4>5, <5>1, <5>2, <5>3 DEF InSpends
        <4>6. ASSUME NEW m, InCheckpoint(t, n, m) PROVE InCheckpoint(t, n, m)'
          <5>1. PICK d : d = Latest(t)
            OBVIOUS
          <5>2. /\ LockedRecords(n, d)' = LockedRecords(n, d)
                /\ AfterLocked(t, n)' = AfterLocked(t, n) /\ AfterSpends(m, n)' = AfterSpends(m, n)
            BY <3>1, FrameStays
          <5> QED BY <3>1, <4>6, <5>1, <5>2 DEF InCheckpoint
        <4>7. Present(t, n)'
          BY <4>1, <4>2, <4>3, <4>4, <4>5, <4>6 DEF Present
        <4>8. \E i, u : i = Daa' /\ u = Until(versions', i - 1) /\ Present(u, i)'
          BY <3>1, <4>2, <4>7
        <4>9. mapping' # Unmapped /\ IsTable(versions')
          BY <1>3, <2>1, <3>1 DEF EntitiesInv
        <4> QED BY <3>3, <4>8, <4>9 DEF EntitiesInv
      <3>5. CASE ~Busy
        <4>1. ~Busy'
          BY <2>1, <3>5 DEF Busy
        <4> QED BY <1>3, <2>1, <3>1, <3>3, <4>1 DEF EntitiesInv
      <3> QED BY <3>4, <3>5
    <2>2. CASE \E filters \in Filters : Subscribe(filters)
      BY <2>1, <2>2 DEF Subscribe
    <2>3. CASE Receive \/ ReceiveClosed
      BY <2>1, <2>3 DEF Receive, ReceiveClosed
    <2>4. CASE Stop
      BY <2>1, <2>4 DEF Stop
    <2>5. CASE UNCHANGED vars
      BY <2>1, <2>5 DEF vars
    <2>6. CASE \E block \in Blocks : Commit(block)
      BY <1>1, <1>3, <2>6, CommitEntities
    <2>7. CASE \E from \in DOMAIN chain : Unwind(from)
      BY <1>1, <1>3, <2>7, UnwindEntities
    <2>8. CASE Step
      BY <1>1, <1>3, <2>8, HandleHitEntities, HitsHandledEntities, DispatchLockedEntities,
         GuestEntities, LockedDispatchedEntities, StoreDispatchedEntities, DispatchSpendEntities,
         SpendDispatchedEntities, SpendsHandledEntities, CheckpointEntities DEF Step
    <2> QED BY <2>2, <2>3, <2>4, <2>5, <2>6, <2>7, <2>8 DEF Next
  <1> QED BY <1>2, <1>3

-------------------------------------------------------------------------------
(* The recursion of VersionsAfter has a solution.                            *)

Advances(n, f) ==
    f = [d \in 0..n |-> IF d = 0 THEN Empty ELSE AfterSpends(AfterLocked(f[d - 1], d), d)]

LEMMA AdvancesExists ==
    ASSUME NEW n \in Nat
    PROVE  \E f : Advances(n, f)
  <1> DEFINE bad == {m \in Nat : ~\E f : Advances(m, f)}
  <1>1. ASSUME bad # {} PROVE FALSE
    <2>1. PICK m \in bad : \A k \in bad : m <= k
      <3> HIDE DEF bad
      <3>1. bad \subseteq Nat
        BY DEF bad
      <3> QED BY <1>1, <3>1, LeastNatural
    <2>2. CASE m = 0
      <3> DEFINE f == [d \in 0..0 |-> Empty]
      <3>1. \A d \in 0..0 : d = 0
        OBVIOUS
      <3>2. Advances(0, f)
        BY <3>1 DEF Advances
      <3> QED BY <2>1, <2>2, <3>2
    <2>3. CASE m # 0
      <3>1. m - 1 \in Nat /\ m - 1 \notin bad
        BY <2>1, <2>3
      <3>2. PICK f : Advances(m - 1, f)
        BY <3>1
      <3> DEFINE g == [d \in 0..m |-> IF d = 0 THEN Empty ELSE AfterSpends(AfterLocked(f[d - 1], d), d)]
      <3>3. \A d \in 0..(m - 1) : g[d] = f[d]
        <4>1. \A d \in 0..(m - 1) : f[d] = IF d = 0 THEN Empty ELSE AfterSpends(AfterLocked(f[d - 1], d), d)
          BY <3>2 DEF Advances
        <4>2. \A d \in 0..(m - 1) : d \in 0..m
          BY <3>1
        <4> QED BY <4>1, <4>2
      <3>4. \A d \in 0..m : d # 0 => d - 1 \in 0..(m - 1)
        BY <3>1
      <3>5. g = [d \in 0..m |-> IF d = 0 THEN Empty ELSE AfterSpends(AfterLocked(g[d - 1], d), d)]
        BY <3>3, <3>4
      <3> HIDE DEF g
      <3>6. Advances(m, g)
        BY <3>5 DEF Advances
      <3> QED BY <2>1, <3>6
    <2> QED BY <2>2, <2>3
  <1> QED BY <1>1

LEMMA VersionsAfterIs ==
    /\ VersionsAfter[0] = Empty
    /\ \A d \in 1..MaxBlocks : VersionsAfter[d] = AfterSpends(AfterLocked(VersionsAfter[d - 1], d), d)
  <1>1. MaxBlocks \in Nat
    BY PipelineAssumption
  <1>2. VersionsAfter = CHOOSE f : Advances(MaxBlocks, f)
    BY DEF VersionsAfter, Advances
  <1>3. PICK f : f = VersionsAfter /\ Advances(MaxBlocks, f)
    BY <1>1, <1>2, AdvancesExists
  <1>4. \A d \in 0..MaxBlocks : f[d] = IF d = 0 THEN Empty ELSE AfterSpends(AfterLocked(f[d - 1], d), d)
    BY <1>3 DEF Advances
  <1>5. 0 \in 0..MaxBlocks /\ \A d \in 1..MaxBlocks : d \in 0..MaxBlocks /\ d # 0
    BY <1>1
  <1> QED BY <1>3, <1>4, <1>5

LEMMA EntitiesImplies ==
    ASSUME TypeInv, EntitiesInv
    PROVE  EntitiesFollowChain
  <1> SUFFICES ASSUME Settled PROVE EntitiesFollowChain
    BY DEF EntitiesFollowChain
  <1>1. /\ Done = Len(chain) /\ Done \in Nat /\ DOMAIN chain = 1..Done /\ Done <= MaxBlocks
        /\ MaxBlocks \in Nat /\ IsList(checkpoints)
    BY PipelineAssumption DEF TypeInv, Settled, Done
  <1>2. DOMAIN checkpoints = 1..Done /\ checkpoints = [d \in 1..Done |-> checkpoints[d]]
    <2>1. PICK S : checkpoints \in Seq(S)
      BY <1>1 DEF IsList
    <2> QED BY <2>1 DEF Done
  <1>3. \A k \in DOMAIN versions : k[2] \in 1..Done
    BY <1>1 DEF TypeInv, RecordsInv
  <1>4. CASE mapping = Unmapped
    BY <1>1, <1>2, <1>4 DEF EntitiesInv, EntitiesFollowChain
  <1>5. CASE mapping # Unmapped
    <2>1. IsTable(versions) /\ HistoryInv
      BY <1>5 DEF EntitiesInv
    <2>2. Until(versions, 0) = Empty
      <3>1. PICK u : u = Until(versions, 0)
        OBVIOUS
      <3>2. \A k : k \notin DOMAIN u
        <4>1. \A k \in DOMAIN versions : ~(k[2] <= 0)
          BY <1>1, <1>3
        <4> QED BY <3>1, <4>1, UntilIs
      <3>3. IsTable(u) /\ IsTable(Empty) /\ \A k : k \notin DOMAIN Empty
        BY <3>1, UntilIs DEF IsTable, Empty
      <3> QED BY <3>1, <3>2, <3>3, SameTable
    <2>3. \A d \in 0..Done : Until(versions, d) = VersionsAfter[d]
      <3> DEFINE bad == {d \in 0..Done : Until(versions, d) # VersionsAfter[d]}
      <3>1. ASSUME bad # {} PROVE FALSE
        <4>1. PICK m \in bad : \A k \in bad : m <= k
          <5> HIDE DEF bad
          <5>1. bad \subseteq Nat
            BY <1>1 DEF bad
          <5> QED BY <3>1, <5>1, LeastNatural
        <4>2. CASE m = 0
          BY <2>2, <4>1, <4>2, VersionsAfterIs
        <4>3. CASE m # 0
          <5>1. m \in 1..Done /\ m \in 1..MaxBlocks /\ m - 1 \in 0..Done /\ ~(m <= m - 1)
            BY <1>1, <4>1, <4>3
          <5>2. Until(versions, m - 1) = VersionsAfter[m - 1]
            BY <4>1, <5>1
          <5>3. PICK t, u : t = Until(versions, m - 1) /\ Follows(m, t, u)
            BY <2>1, <5>1 DEF HistoryInv
          <5>4. VersionsAfter[m] = AfterSpends(AfterLocked(VersionsAfter[m - 1], m), m)
            BY <5>1, VersionsAfterIs
          <5>5. Until(versions, m) = AfterSpends(AfterLocked(t, m), m)
            BY <5>3 DEF Follows
          <5> QED BY <4>1, <5>2, <5>3, <5>4, <5>5
        <4> QED BY <4>2, <4>3
      <3> QED BY <3>1
    <2>4. versions = VersionsAfter[Len(chain)]
      <3>1. Until(versions, Done) = versions
        <4>1. \A k \in DOMAIN versions : k[2] <= Done
          BY <1>1, <1>3
        <4> QED BY <2>1, <4>1, UntilAll
      <3>2. Done \in 0..Done
        BY <1>1
      <3> QED BY <1>1, <2>3, <3>1, <3>2
    <2>5. \A d \in 1..Done : checkpoints[d] = CanonicalEntities(LockedRecords(d, Latest(VersionsAfter[d - 1])))
      <3> SUFFICES ASSUME NEW d \in 1..Done
                   PROVE  checkpoints[d] = CanonicalEntities(LockedRecords(d, Latest(VersionsAfter[d - 1])))
        OBVIOUS
      <3>1. d - 1 \in 0..Done
        BY <1>1
      <3>2. PICK t, u : t = Until(versions, d - 1) /\ Follows(d, t, u)
        BY <2>1 DEF HistoryInv
      <3> QED BY <2>3, <3>1, <3>2 DEF Follows
    <2>6. checkpoints = [d \in DOMAIN chain |->
                            CanonicalEntities(LockedRecords(d, Latest(VersionsAfter[d - 1])))]
      BY <1>1, <1>2, <2>5
    <2> QED BY <1>5, <2>4, <2>6 DEF EntitiesFollowChain
  <1> QED BY <1>4, <1>5

\* What a subgraph stores (dispatch in main.rs, the host's calls in
\* mapping_host.rs) is what its mapping makes of the selected chain:
\* whatever was indexed and unwound before, whatever a handler reads, writes
\* or fails at, the entity versions and the POI inputs of a block are those of
\* a run over the chain.
THEOREM EntitiesAlwaysFollowChain == Spec => []EntitiesFollowChain
  <1>1. Init => FollowInv /\ EntitiesInv
    BY FollowInit, EntitiesInit
  <1>2. FollowInv /\ EntitiesInv /\ [Next]_vars => (FollowInv /\ EntitiesInv)'
    BY FollowStep, EntitiesStep
  <1>3. FollowInv /\ EntitiesInv => EntitiesFollowChain
    BY EntitiesImplies DEF FollowInv
  <1> QED BY <1>1, <1>2, <1>3, PTL DEF Spec

-------------------------------------------------------------------------------
(* Sums: SumFunction adds in an order that CHOOSE fixes; none matters.       *)

\* Of sets of sets, one that holds a set holds one without more elements than
\* any other.
LEMMA SmallestSet ==
    ASSUME NEW D, IsFiniteSet(D), NEW bad, bad \subseteq SUBSET D, bad # {}
    PROVE  \E s \in bad : \A t \in bad : Cardinality(s) <= Cardinality(t)
  <1>1. \A s \in bad : Cardinality(s) \in Nat
    <2> SUFFICES ASSUME NEW s \in bad PROVE Cardinality(s) \in Nat
      OBVIOUS
    <2>1. s \in SUBSET D
      OBVIOUS
    <2>2. IsFiniteSet(s)
      BY <2>1, FS_Subset
    <2> QED BY <2>2, FS_CardinalityType
  <1> DEFINE sizes == {Cardinality(s) : s \in bad}
  <1>2. sizes \subseteq Nat /\ sizes # {}
    BY <1>1
  <1>3. PICK m \in sizes : \A n \in sizes : m <= n
    <2> HIDE DEF sizes
    <2> QED BY <1>2, LeastNatural
  <1> QED BY <1>3

\* A set that loses an element has one element less.
LEMMA Smaller ==
    ASSUME NEW D, IsFiniteSet(D), NEW s \in SUBSET D, NEW x \in s
    PROVE  /\ s \ {x} \in SUBSET D
           /\ Cardinality(s) \in Nat /\ Cardinality(s \ {x}) \in Nat
           /\ Cardinality(s \ {x}) = Cardinality(s) - 1
  <1>1. IsFiniteSet(s)
    BY FS_Subset
  <1> QED BY <1>1, FS_RemoveElement, FS_CardinalityType

Chosen(s) == CHOOSE x \in s : TRUE

Adds(g, D, f) ==
    f = [s \in D |-> IF s = {} THEN 0 ELSE g[Chosen(s)] + f[s \ {Chosen(s)}]]

\* The recursion of SumFunction has a solution.
LEMMA AddsExists ==
    ASSUME NEW g, NEW D, IsFiniteSet(D)
    PROVE  \E f : Adds(g, SUBSET D, f)
  <1> DEFINE upto(m) == {s \in SUBSET D : Cardinality(s) <= m}
             bad == {m \in Nat : ~\E f : Adds(g, upto(m), f)}
  <1>1. \A s \in SUBSET D : Cardinality(s) \in Nat /\ Cardinality(s) <= Cardinality(D)
    BY FS_Subset, FS_CardinalityType
  <1>2. \A s \in SUBSET D : s # {} => Chosen(s) \in s
    BY DEF Chosen
  <1>3. \A s \in SUBSET D : s # {} =>
            /\ s \ {Chosen(s)} \in SUBSET D
            /\ Cardinality(s \ {Chosen(s)}) = Cardinality(s) - 1
    BY <1>2, Smaller
  <1>4. ASSUME bad # {} PROVE FALSE
    <2>1. PICK m \in bad : \A k \in bad : m <= k
      <3> HIDE DEF bad
      <3>1. bad \subseteq Nat
        BY DEF bad
      <3> QED BY <1>4, <3>1, LeastNatural
    <2>2. CASE m = 0
      <3> DEFINE f == [s \in upto(0) |-> 0]
      <3>1. \A s \in upto(0) : s = {}
        <4>1. \A s \in SUBSET D : IsFiniteSet(s)
          BY FS_Subset
        <4> QED BY <1>1, <4>1, FS_EmptySet
      <3>2. Adds(g, upto(0), f)
        BY <3>1 DEF Adds
      <3> QED BY <2>1, <2>2, <3>2
    <2>3. CASE m # 0
      <3>1. m - 1 \in Nat /\ m - 1 \notin bad /\ m \in Nat
        BY <2>1, <2>3, SMTT(30)
      <3>2. PICK f : Adds(g, upto(m - 1), f)
        BY <3>1
      <3> DEFINE h == [s \in upto(m) |-> IF s = {} THEN 0 ELSE g[Chosen(s)] + f[s \ {Chosen(s)}]]
      <3>3. \A s \in upto(m - 1) : h[s] = f[s]
        <4>1. \A s \in upto(m - 1) : f[s] = IF s = {} THEN 0 ELSE g[Chosen(s)] + f[s \ {Chosen(s)}]
          BY <3>2 DEF Adds
        <4>2. \A s \in upto(m - 1) : s \in upto(m)
          BY <3>1, <1>1
        <4> QED BY <4>1, <4>2
      <3>4. \A s \in upto(m) : s # {} => s \ {Chosen(s)} \in upto(m - 1)
        BY <3>1, <1>1, <1>3
      <3>5. h = [s \in upto(m) |-> IF s = {} THEN 0 ELSE g[Chosen(s)] + h[s \ {Chosen(s)}]]
        <4> DEFINE r == [s \in upto(m) |-> IF s = {} THEN 0 ELSE g[Chosen(s)] + h[s \ {Chosen(s)}]]
        <4>1. \A s \in upto(m) : h[s] = r[s]
          BY <3>3, <3>4
        <4> QED BY <4>1
      <3> HIDE DEF h
      <3>6. Adds(g, upto(m), h)
        BY <3>5 DEF Adds
      <3> QED BY <2>1, <3>6
    <2> QED BY <2>2, <2>3
  <1>5. Cardinality(D) \in Nat /\ Cardinality(D) \notin bad
    BY <1>4, FS_CardinalityType
  <1>6. upto(Cardinality(D)) = SUBSET D
    BY <1>1
  <1> HIDE DEF upto
  <1> QED BY <1>5, <1>6

\* The sum over a set of indices.
Total(g, T) == (CHOOSE f : Adds(g, SUBSET DOMAIN g, f))[T]

LEMMA SumIs ==
    ASSUME NEW g
    PROVE  SumFunction(g) = Total(g, DOMAIN g)
  BY DEF SumFunction, SumFunctionOnSet, FoldFunctionOnSet, MapThenFoldSet, Total, Adds, Chosen

LEMMA TotalIs ==
    ASSUME NEW g, IsFiniteSet(DOMAIN g), \A x \in DOMAIN g : g[x] \in Int
    PROVE  /\ Total(g, {}) = 0
           /\ \A T \in SUBSET DOMAIN g : T # {} =>
                /\ Chosen(T) \in T
                /\ Total(g, T) = g[Chosen(T)] + Total(g, T \ {Chosen(T)})
  <1>1. PICK f : Adds(g, SUBSET DOMAIN g, f) /\ f = CHOOSE q : Adds(g, SUBSET DOMAIN g, q)
    BY AddsExists
  <1>2. \A T \in SUBSET DOMAIN g : f[T] = IF T = {} THEN 0 ELSE g[Chosen(T)] + f[T \ {Chosen(T)}]
    BY <1>1 DEF Adds
  <1>3. \A T : Total(g, T) = f[T]
    BY <1>1 DEF Total
  <1>4. \A T \in SUBSET DOMAIN g : T # {} => Chosen(T) \in T
    BY DEF Chosen
  <1> QED BY <1>2, <1>3, <1>4

LEMMA TotalInt ==
    ASSUME NEW g, IsFiniteSet(DOMAIN g), \A x \in DOMAIN g : g[x] \in Int,
           NEW T \in SUBSET DOMAIN g
    PROVE  Total(g, T) \in Int
  <1> DEFINE bad == {s \in SUBSET DOMAIN g : Total(g, s) \notin Int}
  <1>1. ASSUME bad # {} PROVE FALSE
    <2>1. PICK s \in bad : \A t \in bad : Cardinality(s) <= Cardinality(t)
      BY <1>1, SmallestSet
    <2>2. s # {}
      <3>1. Total(g, {}) \in Int
        BY TotalIs
      <3> QED BY <2>1, <3>1
    <2>3. Chosen(s) \in s /\ Total(g, s) = g[Chosen(s)] + Total(g, s \ {Chosen(s)})
      BY <2>1, <2>2, TotalIs
    <2>4. s \ {Chosen(s)} \notin bad /\ s \ {Chosen(s)} \in SUBSET DOMAIN g
      <3> HIDE DEF bad
      <3>1. s \in SUBSET DOMAIN g
        BY <2>1 DEF bad
      <3>2. Cardinality(s) \in Nat /\ Cardinality(s \ {Chosen(s)}) = Cardinality(s) - 1
        BY <2>3, <3>1, Smaller
      <3> QED BY <2>1, <3>1, <3>2
    <2> QED BY <2>1, <2>3, <2>4
  <1> QED BY <1>1

\* The order in which elements are added does not matter.
LEMMA TotalRemove ==
    ASSUME NEW g, IsFiniteSet(DOMAIN g), \A x \in DOMAIN g : g[x] \in Int,
           NEW T \in SUBSET DOMAIN g, NEW x \in T
    PROVE  Total(g, T) = g[x] + Total(g, T \ {x})
  <1> DEFINE bad == {s \in SUBSET DOMAIN g : \E y \in s : Total(g, s) # g[y] + Total(g, s \ {y})}
  <1>1. ASSUME bad # {} PROVE FALSE
    <2>1. PICK s \in bad : \A t \in bad : Cardinality(s) <= Cardinality(t)
      BY <1>1, SmallestSet
    <2>2. PICK y \in s : Total(g, s) # g[y] + Total(g, s \ {y})
      BY <2>1
    <2>3. PICK z : z = Chosen(s)
      OBVIOUS
    <2>4. z \in s /\ Total(g, s) = g[z] + Total(g, s \ {z})
      BY <2>1, <2>2, <2>3, TotalIs
    <2>5. y # z
      BY <2>2, <2>4
    <2>6. s \in SUBSET DOMAIN g
      BY <2>1
    <2>7. ASSUME NEW v \in s PROVE s \ {v} \notin bad
      <3> HIDE DEF bad
      <3>1. Cardinality(s) \in Nat /\ Cardinality(s \ {v}) = Cardinality(s) - 1
        BY <2>6, Smaller
      <3> QED BY <2>1, <3>1
    <2>8. Total(g, s \ {z}) = g[y] + Total(g, (s \ {z}) \ {y})
      BY <2>4, <2>5, <2>6, <2>7
    <2>9. Total(g, s \ {y}) = g[z] + Total(g, (s \ {y}) \ {z})
      BY <2>4, <2>5, <2>6, <2>7
    <2>10. (s \ {z}) \ {y} = (s \ {y}) \ {z}
      OBVIOUS
    <2>11. Total(g, (s \ {y}) \ {z}) \in Int /\ g[y] \in Int /\ g[z] \in Int
      <3>1. (s \ {y}) \ {z} \in SUBSET DOMAIN g
        BY <2>6
      <3> QED BY <2>4, <2>6, <3>1, TotalInt
    <2>12. PICK c : c = Total(g, (s \ {y}) \ {z})
      OBVIOUS
    <2>13. Total(g, s \ {z}) = g[y] + c /\ Total(g, s \ {y}) = g[z] + c /\ c \in Int
      BY <2>8, <2>9, <2>10, <2>11, <2>12
    <2>14. g[z] + (g[y] + c) = g[y] + (g[z] + c)
      BY <2>11, <2>13
    <2> QED BY <2>2, <2>4, <2>13, <2>14
  <1> QED BY <1>1

\* Two sums are equal if their terms can be matched up.
LEMMA SumReindex ==
    ASSUME NEW g, IsFiniteSet(DOMAIN g), \A x \in DOMAIN g : g[x] \in Int,
           NEW h, NEW b \in Bijection(DOMAIN g, DOMAIN h), \A x \in DOMAIN g : h[b[x]] = g[x]
    PROVE  /\ SumFunction(h) = SumFunction(g)
           /\ SumFunction(g) \in Int
  <1> DEFINE image(s) == {b[x] : x \in s}
             bad == {s \in SUBSET DOMAIN g : Total(h, image(s)) # Total(g, s)}
  <1>1. /\ b \in [DOMAIN g -> DOMAIN h]
        /\ \A x, y \in DOMAIN g : b[x] = b[y] => x = y
        /\ \A y \in DOMAIN h : \E x \in DOMAIN g : b[x] = y
    BY Fun_BijectionProperties
  <1>2. IsFiniteSet(DOMAIN h) /\ \A y \in DOMAIN h : h[y] \in Int
    <2>1. IsFiniteSet(DOMAIN h)
      BY FS_Bijection DEF ExistsBijection
    <2> QED BY <1>1, <2>1
  <1>3. ASSUME bad # {} PROVE FALSE
    <2>1. PICK s \in bad : \A t \in bad : Cardinality(s) <= Cardinality(t)
      BY <1>3, SmallestSet
    <2>2. s \in SUBSET DOMAIN g
      BY <2>1
    <2>3. CASE s = {}
      <3>1. image(s) = {}
        BY <2>3
      <3> QED BY <1>2, <2>1, <2>3, <3>1, TotalIs
    <2>4. CASE s # {}
      <3>1. PICK x \in s : TRUE
        BY <2>4
      <3>2. s \ {x} \notin bad /\ s \ {x} \in SUBSET DOMAIN g
        <4> HIDE DEF bad
        <4>1. Cardinality(s) \in Nat /\ Cardinality(s \ {x}) = Cardinality(s) - 1
          BY <2>2, Smaller
        <4> QED BY <2>1, <2>2, <4>1
      <3>3. image(s) \ {b[x]} = image(s \ {x})
        BY <1>1, <2>2, <3>1
      <3>4. image(s) \in SUBSET DOMAIN h /\ b[x] \in image(s)
        BY <1>1, <2>2, <3>1
      <3>5. Total(h, image(s)) = h[b[x]] + Total(h, image(s) \ {b[x]})
        <4> HIDE DEF image, bad
        <4> QED BY <1>2, <3>4, TotalRemove
      <3>6. Total(g, s) = g[x] + Total(g, s \ {x})
        <4> HIDE DEF image, bad
        <4> QED BY <2>2, <3>1, TotalRemove
      <3>7. Total(h, image(s \ {x})) = Total(g, s \ {x})
        BY <3>2
      <3>8. h[b[x]] = g[x]
        BY <2>2, <3>1
      <3>9. Total(h, image(s)) = Total(g, s)
        <4> HIDE DEF image, bad
        <4> QED BY <3>3, <3>5, <3>6, <3>7, <3>8
      <3> QED BY <2>1, <3>9
    <2> QED BY <2>3, <2>4
  <1>4. image(DOMAIN g) = DOMAIN h
    BY <1>1
  <1>5. Total(h, DOMAIN h) = Total(g, DOMAIN g)
    <2>1. DOMAIN g \notin bad
      BY <1>3
    <2> QED BY <1>4, <2>1
  <1> HIDE DEF image, bad
  <1>6. Total(g, DOMAIN g) \in Int
    BY TotalInt
  <1> QED BY <1>5, <1>6, SumIs

-------------------------------------------------------------------------------
(* Numbers.                                                                  *)

Reads(bytes, n, f) ==
    f = [k \in 0..n |-> IF k = 0 THEN 0 ELSE bytes[Len(bytes) - k + 1] + 256 * f[k - 1]]

LEMMA ReadsExists ==
    ASSUME NEW bytes \in Seq(Nat), NEW n \in 0..Len(bytes)
    PROVE  \E f : Reads(bytes, n, f)
  <1> DEFINE bad == {m \in 0..Len(bytes) : ~\E f : Reads(bytes, m, f)}
  <1>0. Len(bytes) \in Nat
    BY LenProperties
  <1>1. ASSUME bad # {} PROVE FALSE
    <2>1. PICK m \in bad : \A k \in bad : m <= k
      <3> HIDE DEF bad
      <3>1. bad \subseteq Nat
        BY <1>0 DEF bad
      <3> QED BY <1>1, <3>1, LeastNatural
    <2>2. CASE m = 0
      <3> DEFINE f == [k \in 0..0 |-> 0]
      <3>1. \A k \in 0..0 : k = 0
        OBVIOUS
      <3>2. Reads(bytes, 0, f)
        BY <3>1 DEF Reads
      <3> QED BY <2>1, <2>2, <3>2
    <2>3. CASE m # 0
      <3>1. m - 1 \in 0..Len(bytes) /\ m - 1 \notin bad /\ m \in 0..Len(bytes) /\ m \in Nat
        BY <1>0, <2>1, <2>3
      <3>2. PICK f : Reads(bytes, m - 1, f)
        BY <3>1
      <3> DEFINE g == [k \in 0..m |->
                        IF k = 0 THEN 0 ELSE bytes[Len(bytes) - k + 1] + 256 * f[k - 1]]
      <3>3. \A k \in 0..(m - 1) : g[k] = f[k]
        <4>1. \A k \in 0..(m - 1) :
                f[k] = IF k = 0 THEN 0 ELSE bytes[Len(bytes) - k + 1] + 256 * f[k - 1]
          BY <3>2 DEF Reads
        <4>2. \A k \in 0..(m - 1) : k \in 0..m
          BY <3>1
        <4> QED BY <4>1, <4>2
      <3>4. \A k \in 0..m : k # 0 => k - 1 \in 0..(m - 1)
        BY <3>1
      <3>5. g = [k \in 0..m |-> IF k = 0 THEN 0 ELSE bytes[Len(bytes) - k + 1] + 256 * g[k - 1]]
        BY <3>3, <3>4, ZenonT(60)
      <3> HIDE DEF g
      <3>6. Reads(bytes, m, g)
        BY <3>5 DEF Reads
      <3> QED BY <2>1, <3>6
    <2> QED BY <2>2, <2>3
  <1> QED BY <1>1

\* An amount is a number.
LEMMA LittleEndianIs ==
    ASSUME NEW bytes \in Seq(Nat)
    PROVE  LittleEndian(bytes) \in Nat
  <1> DEFINE n == Len(bytes)
  <1>1. n \in 0..n
    BY LenProperties
  <1>2. PICK f : Reads(bytes, n, f)
    BY <1>1, ReadsExists
  <1>3. ASSUME NEW g, Reads(bytes, n, g) PROVE g[n] \in Nat
    <2> DEFINE bad == {k \in 0..n : g[k] \notin Nat}
    <2>1. ASSUME bad # {} PROVE FALSE
      <3>1. PICK k \in bad : \A j \in bad : k <= j
        <4> HIDE DEF bad
        <4>1. bad \subseteq Nat
          BY <1>1 DEF bad
        <4> QED BY <2>1, <4>1, LeastNatural
      <3> HIDE DEF n
      <3>2. \A j \in 0..n : g[j] = IF j = 0 THEN 0 ELSE bytes[n - j + 1] + 256 * g[j - 1]
        BY <1>3 DEF Reads, n
      <3>3. k # 0 /\ k \in 1..n /\ k - 1 \in 0..n
        BY <1>1, <3>1, <3>2
      <3>4. g[k - 1] \in Nat /\ k \in 0..n
        BY <3>1, <3>3
      <3>5. bytes[n - k + 1] \in Nat
        BY <1>1, <3>3, ElementOfSeq DEF n
      <3>6. g[k] = bytes[n - k + 1] + 256 * g[k - 1]
        BY <3>2, <3>3, <3>4
      <3>7. g[k] \in Nat
        BY <3>4, <3>5, <3>6, SMTT(30)
      <3> QED BY <3>1, <3>7
    <2> QED BY <1>1, <2>1
  <1> DEFINE value == CHOOSE g : Reads(bytes, n, g)
  <1>4. LittleEndian(bytes) = value[n]
    BY DEF LittleEndian, Reads
  <1>5. Reads(bytes, n, value)
    BY <1>2
  <1> QED BY <1>3, <1>4, <1>5

-------------------------------------------------------------------------------
(* Operations and the supply.                                                *)

AmountOf(payload) == LittleEndian(payload["amount"])

\* What is extracted as an amount is one.
LEMMA AmountIs ==
    ASSUME NEW tx \in Tx, NEW h \in HitsIn(tx), "amount" \in DOMAIN h.payload
    PROVE  AmountOf(h.payload) \in Nat
  <1>1. PICK i \in DOMAIN Outputs[tx], k \in DOMAIN Registry :
            h = HitAt(tx, i, k) /\ Matches(Registry[k].matcher, Outputs[tx][i])
    BY DEF HitsIn
  <1>2. PICK script, f : script = Outputs[tx][i] /\ f = Registry[k].matcher
    OBVIOUS
  <1>3. script \in Seq(Nat) /\ IsFingerprint(f, Nat) /\ Valid(f) /\ Matches(f, script)
    <2>1. Outputs[tx] \in Seq(Seq(Nat))
      BY PipelineAssumption
    <2>2. Outputs[tx][i] \in Seq(Nat)
      BY <1>1, <2>1
    <2> QED BY <1>1, <1>2, <2>2, PipelineAssumption
  <1>4. h.payload = Extract(f, script)
    BY <1>1, <1>2 DEF HitAt, Hit
  <1>5. /\ "amount" \in FieldNames(f.windows)
        /\ h.payload["amount"] = Slice(script, WindowOf(f.windows, "amount"))
    BY <1>4 DEF Extract
  <1> DEFINE named == {j \in DOMAIN f.windows : f.windows[j].field = "amount"}
  <1>6. PICK j \in DOMAIN f.windows : WindowOf(f.windows, "amount") = f.windows[j]
    <2>1. f.windows \in Windows
      BY <1>3 DEF IsFingerprint
    <2>2. DOMAIN f.windows = 1..Len(f.windows) /\ Len(f.windows) \in Nat
      BY <2>1 DEF Windows
    <2>3. named # {} /\ named \subseteq Nat /\ \A j \in named : j <= Len(f.windows)
      BY <1>5, <2>2 DEF FieldNames, Range
    <2>4. Max(named) \in named /\ \A j \in named : j <= Max(named)
      <3> HIDE DEF named
      <3> QED BY <2>2, <2>3, MaxIs
    <2>5. \E j \in DOMAIN f.windows :
            /\ f.windows[j].field = "amount"
            /\ \A l \in DOMAIN f.windows : f.windows[l].field = "amount" => l <= j
      BY <2>4
    <2> QED BY <2>5 DEF WindowOf
  <1>7. Slice(script, f.windows[j]) \in Seq(Nat)
    <2>1. /\ f.exact \in BOOLEAN /\ f.windows \in Windows
          /\ f.exact => f.bytes \in Seq(Nat)
          /\ ~f.exact => f.head \in Seq(Nat) /\ f.tail \in Seq(Nat)
      BY <1>3 DEF IsFingerprint
    <2> QED BY <1>3, <2>1, ExtractionIsInBounds
  <1> QED BY <1>5, <1>6, <1>7, LittleEndianIs DEF AmountOf

OnChainHits == UNION {OnChainAt(d) : d \in DOMAIN chain}

LEMMA ListIsFinite ==
    ASSUME NEW S, NEW s \in Seq(S)
    PROVE  IsFiniteSet(DOMAIN s) /\ IsFiniteSet(Range(s))
  <1>1. PICK n \in Nat : s \in [1..n -> S] /\ DOMAIN s = 1..n
    OBVIOUS
  <1>2. IsFiniteSet(1..n)
    BY FS_Interval
  <1>3. s \in Surjection(1..n, Range(s))
    BY <1>1, Fun_RangeProperties
  <1> QED BY <1>1, <1>2, <1>3, FS_Surjection

LEMMA HitsAreFinite ==
    ASSUME chain \in Seq(Blocks)
    PROVE  IsFiniteSet(OnChainHits)
  <1> DEFINE at1 == [d \in DOMAIN chain |-> OnChainAt(d)]
  <1>1. \A d \in DOMAIN chain : IsFiniteSet(OnChainAt(d))
    <2> SUFFICES ASSUME NEW d \in DOMAIN chain PROVE IsFiniteSet(OnChainAt(d))
      OBVIOUS
    <2>1. HitsOf[chain[d]] \in Seq(Detected)
      BY BlockHits
    <2> QED BY <2>1, ListIsFinite DEF OnChainAt
  <1>2. IsFiniteSet(DOMAIN chain)
    BY ListIsFinite
  <1>3. at1 \in [DOMAIN chain -> Range(at1)]
    BY DEF Range
  <1>4. at1 \in Surjection(DOMAIN chain, Range(at1))
    BY <1>3, Fun_RangeProperties
  <1>5. IsFiniteSet(Range(at1))
    <2> HIDE DEF at1
    <2> QED BY <1>2, <1>4, FS_Surjection
  <1>6. Range(at1) = {OnChainAt(d) : d \in DOMAIN chain}
    BY DEF Range
  <1> QED BY <1>1, <1>5, <1>6, FS_UNION DEF OnChainHits

\* The tracked rows of KCC20 receipts among some outpoints.
AssetRows(S) == {o \in DOMAIN utxos : o \in S /\ IsAsset(utxos[o])}

\* The amounts in the rows add up to those in the scripts on the chain.
LEMMA RowsFollowScripts ==
    ASSUME TypeInv, UtxoInv, OneKind, phase # "hits", NEW S,
           \A o \in AssetRows(S) : IsReceipt(utxos[o].state)
    PROVE  /\ SumFunction([o \in AssetRows(S) |-> AmountOf(utxos[o].state)]) = AssetAmounts(S)
           /\ AssetAmounts(S) \in Int
  <1> DEFINE assets == {h \in OnChainHits : h.kind = "KCC20Asset" /\ Outpoint(h) \in S}
             g == [h \in assets |-> AmountOf(h.payload)]
             r == [o \in AssetRows(S) |-> AmountOf(utxos[o].state)]
             b == [h \in assets |-> Outpoint(h)]
  <1>1. AssetAmounts(S) = SumFunction(g)
    BY DEF AssetAmounts, OnChainHits, AmountOf
  <1>2. chain \in Seq(Blocks) /\ \A d : Handled(d) = OnChainAt(d)
    BY DEF TypeInv, Handled
  <1>3. ASSUME NEW h \in assets
        PROVE  /\ Outpoint(h) \in AssetRows(S) /\ utxos[Outpoint(h)].state = h.payload
               /\ h.tx \in Tx /\ h \in HitsIn(h.tx) /\ Outpoint(h) = <<h.tx, h.index>>
    <2>1. PICK d \in DOMAIN chain : h \in OnChainAt(d)
      BY DEF OnChainHits
    <2>2. /\ Outpoint(h) \in DOMAIN utxos /\ utxos[Outpoint(h)].state = h.payload
          /\ utxos[Outpoint(h)].kind = h.kind
      BY <1>2, <2>1 DEF UtxoInv, HitRow
    <2>3. h.tx \in Tx /\ h \in HitsIn(h.tx) /\ Outpoint(h) = <<h.tx, h.index>>
      BY <1>2, <2>1, HitFacts
    <2> QED BY <2>2, <2>3 DEF AssetRows, IsAsset
  <1>4. ASSUME NEW h \in assets, NEW k \in assets, Outpoint(h) = Outpoint(k) PROVE h = k
    <2>1. h.tx = k.tx /\ h.index = k.index
      BY <1>3, <1>4
    <2> QED BY <1>3, <2>1, SameHit
  <1>5. ASSUME NEW o \in AssetRows(S) PROVE \E h \in assets : Outpoint(h) = o
    <2>1. PICK d \in DOMAIN chain : \E h \in OnChainAt(d) : o = Outpoint(h)
      BY <1>2 DEF AssetRows, UtxoInv
    <2>2. PICK h \in OnChainAt(d) : o = Outpoint(h)
      BY <2>1
    <2>3. utxos[o].kind = h.kind
      BY <1>2, <2>2 DEF UtxoInv, HitRow
    <2>4. h \in assets
      BY <2>2, <2>3 DEF AssetRows, IsAsset, OnChainHits
    <2> QED BY <2>2, <2>4
  <1>6. \A h \in assets : AmountOf(h.payload) \in Int
    <2> SUFFICES ASSUME NEW h \in assets PROVE AmountOf(h.payload) \in Int
      OBVIOUS
    <2>1. "amount" \in DOMAIN h.payload
      BY <1>3 DEF IsReceipt
    <2> QED BY <1>3, <2>1, AmountIs
  <1>7. IsFiniteSet(assets)
    <2>1. assets \in SUBSET OnChainHits
      OBVIOUS
    <2> HIDE DEF assets
    <2> QED BY <1>2, <2>1, HitsAreFinite, FS_Subset
  <1>8. b \in Bijection(assets, AssetRows(S))
    <2>1. b \in [assets -> AssetRows(S)]
      BY <1>3
    <2>2. \A h, k \in assets : b[h] = b[k] => h = k
      BY <1>4
    <2>3. \A o \in AssetRows(S) : \E h \in assets : b[h] = o
      BY <1>5
    <2> HIDE DEF b, assets
    <2> QED BY <2>1, <2>2, <2>3, Fun_IsBij
  <1>9. /\ DOMAIN g = assets /\ DOMAIN r = AssetRows(S)
        /\ \A h \in assets : g[h] \in Int /\ r[b[h]] = g[h]
    BY <1>3, <1>6
  <1> HIDE DEF g, r, b, assets
  <1>10. SumFunction(r) = SumFunction(g) /\ SumFunction(g) \in Int
    BY <1>7, <1>8, <1>9, SumReindex
  <1> QED BY <1>1, <1>10 DEF r

\* What a spend is told to have done compares what the scripts hold.
LEMMA OperationCompares ==
    ASSUME TypeInv, UtxoInv, OneKind, phase # "hits", NEW tx \in Tx, Operation(tx) # Undetermined
    PROVE  LET before == AssetAmounts(Range(Inputs[tx]))
               after == AssetAmounts({tx} \X Nat)
           IN  /\ Operation(tx) = "mint" <=> after > before
               /\ Operation(tx) = "burn" <=> after < before
  <1> DEFINE spent == Range(Inputs[tx])
             made == {tx} \X Nat
             C == ConsumedBy(tx)
             D == AssetsOf(CreatedBy(tx))
             A == [o \in DOMAIN States(C) |-> Receipt(States(C)[o])]
             B == [o \in DOMAIN States(D) |-> Receipt(States(D)[o])]
  <1>1. /\ \A row \in Range(C) : IsAsset(row)
        /\ Operation(tx) = SpendOperation(States(C), States(D))
    BY DEF Operation, OperationOf
  <1>2. /\ \A p \in Range(States(C)) \cup Range(States(D)) : IsReceipt(p)
        /\ Operation(tx) = Classify(A, B)
    BY <1>1 DEF SpendOperation
  <1>3. DOMAIN utxos \subseteq Outpoints
    BY DEF TypeInv
  <1>4. DOMAIN C = AssetRows(spent) /\ \A o \in DOMAIN C : C[o] = utxos[o]
    <2>1. C = [o \in spent \cap DOMAIN utxos |-> utxos[o]]
      BY DEF ConsumedBy, RowsOf, Restrict
    <2>2. \A o \in spent \cap DOMAIN utxos : IsAsset(utxos[o])
      BY <1>1, <2>1 DEF Range
    <2> HIDE DEF C, spent
    <2> QED BY <2>1, <2>2 DEF AssetRows
  <1>5. DOMAIN D = AssetRows(made) /\ \A o \in DOMAIN D : D[o] = utxos[o]
    <2>1. PICK rows : rows = CreatedBy(tx)
      OBVIOUS
    <2>2. \A o \in DOMAIN utxos : o[1] = tx <=> o \in made
      BY <1>3 DEF Outpoints
    <2>3. rows = [o \in DOMAIN utxos \cap made |-> utxos[o]]
      <3>1. {o \in DOMAIN utxos : o[1] = tx} \cap DOMAIN utxos = DOMAIN utxos \cap made
        BY <2>2
      <3> HIDE DEF made
      <3> QED BY <2>1, <3>1 DEF CreatedBy, RowsOf, Restrict
    <2>4. D = [o \in {q \in DOMAIN rows : IsAsset(rows[q])} |-> rows[o]]
      BY <2>1 DEF AssetsOf, Restrict
    <2> HIDE DEF D, made
    <2> QED BY <2>3, <2>4 DEF AssetRows
  <1> HIDE DEF C, D
  <1>6. ASSUME NEW rows, NEW S, DOMAIN rows = AssetRows(S),
               \A o \in DOMAIN rows : rows[o] = utxos[o],
               \A p \in Range(States(rows)) : IsReceipt(p)
        PROVE  /\ SumAmounts([o \in DOMAIN States(rows) |-> Receipt(States(rows)[o])]) = AssetAmounts(S)
               /\ AssetAmounts(S) \in Int
    <2> DEFINE R == [o \in DOMAIN States(rows) |-> Receipt(States(rows)[o])]
    <2>1. /\ DOMAIN States(rows) = AssetRows(S)
          /\ \A o \in AssetRows(S) : States(rows)[o] = utxos[o].state
      BY <1>6 DEF States
    <2>2. \A o \in AssetRows(S) : IsReceipt(utxos[o].state)
      BY <1>6, <2>1 DEF Range
    <2>3. \A o \in AssetRows(S) : R[o].amount = AmountOf(utxos[o].state)
      BY <2>1 DEF Receipt, AmountOf
    <2>4. DOMAIN R = AssetRows(S)
      BY <2>1
    <2> HIDE DEF R
    <2>5. [o \in DOMAIN R |-> R[o].amount] = [o \in AssetRows(S) |-> AmountOf(utxos[o].state)]
      BY <2>3, <2>4
    <2>6. SumAmounts(R) = AssetAmounts(S) /\ AssetAmounts(S) \in Int
      BY <2>2, <2>5, RowsFollowScripts DEF SumAmounts
    <2> QED BY <2>6 DEF R
  <1>7. /\ SumAmounts(A) = AssetAmounts(spent) /\ SumAmounts(B) = AssetAmounts(made)
        /\ AssetAmounts(spent) \in Int /\ AssetAmounts(made) \in Int
    BY <1>2, <1>4, <1>5, <1>6
  <1> HIDE DEF A, B, spent, made
  <1>8. /\ Classify(A, B) = "mint" <=> SumAmounts(B) > SumAmounts(A)
        /\ Classify(A, B) = "burn" <=> SumAmounts(B) < SumAmounts(A)
    BY <1>7 DEF Classify
  <1> QED BY <1>2, <1>7, <1>8 DEF spent, made

\* A handler is told the operation of its spend.
LEMMA OperationIsTold ==
    ASSUME FollowInv, EntitiesInv, phase = "spends", guest.running
    PROVE  /\ mapping # Unmapped
           /\ Spends[at].spending \in Tx
           /\ guest.event.operation = Operation(Spends[at].spending)
           /\ Operation(Spends[at].spending) # Undetermined
  <1>1. mapping # Unmapped
    BY DEF EntitiesInv
  <1>2. Spends[at] \in InputRecords
    <2>1. TypeInv /\ Busy
      BY DEF FollowInv, Busy
    <2>2. Spends \in Seq(InputRecords) /\ at \in Nat \ {0} /\ at <= Len(Spends) /\ Len(Spends) \in Nat
      BY <2>1, BlockFacts DEF TypeInv, PlaceInv
    <2> QED BY <2>2
  <1>3. PICK s, n, entities : s = Spends[at] /\ SpentRun(s, n, entities)
    <2>1. PICK n, t : Present(t, n)
      BY <1>1 DEF EntitiesInv, Busy
    <2>2. PICK m : InSpends(t, n, m)
      BY <2>1 DEF Present
    <2>3. PICK entities : entities = Latest(m)
      OBVIOUS
    <2> QED BY <2>2, <2>3 DEF InSpends
  <1>4. guest.event = SpendEvent(s, n) /\ Operation(s.spending) # Undetermined
    BY <1>3 DEF SpentRun, GuestRuns
  <1>5. guest.event.operation = Operation(s.spending)
    BY <1>4 DEF SpendEvent
  <1> QED BY <1>1, <1>2, <1>3, <1>4, <1>5 DEF InputRecords

\* If no output matches two patterns, a mapping that adds up the mints and
\* burns it is told of (kcc20_operation.rs, the spend path of main.rs) knows
\* the supply: the operation of a spend compares the tokens the transaction
\* consumes with those it leaves, as the scripts on the chain hold them,
\* whatever was indexed and unwound before.
THEOREM OperationAlwaysFollowsSupply ==
    ASSUME OneKind
    PROVE  Spec => []OperationFollowsSupply
  <1>1. Init => FollowInv /\ EntitiesInv
    BY FollowInit, EntitiesInit
  <1>2. FollowInv /\ EntitiesInv /\ [Next]_vars => (FollowInv /\ EntitiesInv)'
    BY FollowStep, EntitiesStep
  <1>3. ASSUME FollowInv, EntitiesInv
        PROVE  OperationFollowsSupply
    <2> SUFFICES ASSUME phase = "spends", guest.running
                 PROVE  LET tx == Spends[at].spending
                            before == AssetAmounts(Range(Inputs[tx]))
                            after == AssetAmounts({tx} \X Nat)
                        IN  /\ guest.event.operation = "mint" <=> after > before
                            /\ guest.event.operation = "burn" <=> after < before
      BY DEF OperationFollowsSupply
    <2>1. PICK tx : tx = Spends[at].spending
      OBVIOUS
    <2>2. mapping # Unmapped /\ tx \in Tx /\ guest.event.operation = Operation(tx)
          /\ Operation(tx) # Undetermined
      BY <1>3, <2>1, OperationIsTold
    <2>3. TypeInv /\ UtxoInv
      BY <1>3, <2>2 DEF FollowInv
    <2> QED BY <2>1, <2>2, <2>3, OperationCompares
  <1> QED BY <1>1, <1>2, <1>3, PTL DEF Spec
===============================================================================
