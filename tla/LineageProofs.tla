---------------------------- MODULE LineageProofs ----------------------------
(***************************************************************************)
(* Theorems about Lineage, for any number of subgraphs, blocks, chains and *)
(* covenants, and behaviours of any length.                                *)
(*                                                                         *)
(* As long as the set of runtimes is undisturbed, LInv holds.  It says how *)
(* far every runtime has come with the notification: what it tracks and is *)
(* not about to unwind is what its committed blocks hold, but for the      *)
(* outputs it has still to record.  Of the outputs a transaction consumes, *)
(* only the first matters (RecordParent): there is no other, or every      *)
(* runtime knows the whole chain.                                          *)
(*                                                                         *)
(* The heart of it is who owns a covenant.  An insert carries the head's   *)
(* new count whatever subgraph the head was opened by, and                 *)
(* `unwind_covenant_lineage` deletes rows of the unwinding subgraph only,  *)
(* so that tables shared by all stay gapless only if all rows of a         *)
(* covenant are of one subgraph.  That subgraph is the first in fan-out    *)
(* order that knows the covenant (OwnInv), and a runtime before it will    *)
(* not meet the covenant under that name, because it knows the output that *)
(* the covenant's first one consumes (StrandInv).                          *)
(***************************************************************************)
EXTENDS Lineage, TLAPS, WellFoundedInduction, SequenceTheorems

Holds(b) == Range(Outputs[b])

\* The first output that the transaction of an output consumes.
Parent == [o \in Output |-> IF Inputs[o] = <<>> THEN None ELSE Inputs[o][1]]

\* Is runtime `s` served before runtime `t`?
Before(s, t) == \E i, j \in DOMAIN runtimes : i < j /\ runtimes[i] = s /\ runtimes[j] = t

\* What is left to do for a runtime: scores to unwind from, outputs to record.
Cuts(s)  == {work[k].score : k \in {l \in DOMAIN work : work[l].subgraph = s /\ work[l].unwind}}
Ahead(s) == {work[k].output : k \in {l \in DOMAIN work : work[l].subgraph = s /\ ~work[l].unwind}}

\* The outputs a runtime tracks and is not about to unwind.
Lasting(s) == {o \in DOMAIN utxos[s] : \A x \in Cuts(s) : utxos[s][o].score < x}

Cov(s, o) == utxos[s][o].covenant

Item  == [subgraph : Subgraph, unwind : BOOLEAN, score : Nat, output : Output \cup {None}]
Entry == [covenant : Output, score : Nat]
Row   == [covenant : Output, subgraph : Subgraph, seq : Nat, output : Output,
          parent : Output \cup {None}, score : Nat]

TypeInv ==
    /\ runtimes \in Seq(Subgraph)
    /\ \A i, j \in DOMAIN runtimes : runtimes[i] = runtimes[j] => i = j
    /\ known \in [Subgraph -> SUBSET Block]
    /\ DOMAIN utxos = Subgraph
    /\ \A s \in Subgraph : DOMAIN utxos[s] \subseteq Output /\ utxos[s] \in [DOMAIN utxos[s] -> Entry]
    /\ rows \subseteq Row
    /\ work \in Seq(Item)
    /\ ~stopped

\* What a runtime knows is on the chain; one deployed later knows no more, and there is
\* none where transactions merge covenants.
KnownInv ==
    /\ chain \in Chains \cup {<<>>}
    /\ Merges(chain) => runtimes = AtStart
    /\ \A s \in Subgraph : known[s] \subseteq Range(chain)
    /\ \A s, t \in Subgraph : Before(s, t) => known[t] \subseteq known[s]
    /\ \A s \in Range(AtStart) : s \in Range(runtimes) /\ known[s] = Range(chain)
    /\ \A s \in Subgraph \ Range(runtimes) : known[s] = {} /\ DOMAIN utxos[s] = {}

\* What is left to do comes runtime by runtime, unwinds first, then blocks from the lowest up.
\* A runtime has no more left to record than a later one.
WorkInv ==
    /\ \A k \in DOMAIN work :
          /\ work[k].subgraph \in Range(runtimes)
          /\ ~work[k].unwind =>
                \E b \in known[work[k].subgraph] :
                    work[k].output \in Holds(b) /\ work[k].score = DaaScore[b]
    /\ \A k, l \in DOMAIN work : k < l =>
          /\ ~Before(work[l].subgraph, work[k].subgraph)
          /\ work[k].subgraph = work[l].subgraph =>
                /\ ~work[l].unwind
                /\ ~work[k].unwind =>
                      /\ work[k].score <= work[l].score
                      /\ work[k].output # work[l].output
                      /\ Parent[work[k].output] # work[l].output
    /\ \A s, t \in Subgraph : Before(s, t) => Ahead(s) \subseteq Ahead(t)

\* A runtime's lasting outputs and those still to record are what its committed blocks hold.
TrackInv ==
    \A s \in Subgraph :
        /\ \A o \in Lasting(s) :
              /\ \E b \in known[s] : o \in Holds(b) /\ utxos[s][o].score = DaaScore[b]
              /\ o \notin Ahead(s) /\ Parent[o] \notin Ahead(s)
              /\ \A k \in DOMAIN work :
                    work[k].subgraph = s /\ ~work[k].unwind => utxos[s][o].score <= work[k].score
        /\ \A b \in known[s] : Holds(b) \subseteq Lasting(s) \cup Ahead(s)

\* A covenant is named by its first tracked output, and descendants share it.
CovenantInv ==
    \A s \in Subgraph : \A o \in DOMAIN utxos[s] :
        /\ Cov(s, o) \in DOMAIN utxos[s]
        /\ Cov(s, Cov(s, o)) = Cov(s, o)
        /\ utxos[s][Cov(s, o)].score <= utxos[s][o].score
        /\ Parent[Cov(s, o)] \notin DOMAIN utxos[s]
        /\ Parent[o] \in DOMAIN utxos[s] =>
              Cov(s, Parent[o]) = Cov(s, o) /\ utxos[s][Parent[o]].score <= utxos[s][o].score
        /\ Parent[o] \notin DOMAIN utxos[s] => Cov(s, o) = o

\* Where two runtimes meet in a covenant, the earlier one names the later one's outputs so too.
AgreeInv ==
    \A s, t \in Subgraph : Before(s, t) =>
        \A p \in Lasting(t), q \in Lasting(s) : Cov(s, q) = Cov(t, p) => Cov(s, p) = Cov(t, p)

\* A row repeats what its subgraph tracks, and its subgraph is the head's.
RowInv ==
    \A r \in rows :
        /\ r.subgraph \in Range(runtimes)
        /\ r.output \in DOMAIN utxos[r.subgraph]
        /\ Cov(r.subgraph, r.output) = r.covenant
        /\ utxos[r.subgraph][r.output].score = r.score
        /\ r.covenant \in DOMAIN head /\ head[r.covenant].subgraph = r.subgraph

\* Rows of a covenant have a number and an output each; numbers follow scores.
HeadInv ==
    /\ HeadsStandOnRows
    /\ \A r, q \in rows : r.covenant = q.covenant =>
          /\ r.seq = q.seq \/ r.output = q.output => r = q
          /\ r.seq < q.seq => r.score <= q.score

\* A lasting output has its row, and no runtime before a covenant's owner tracks it.
OwnInv ==
    \A s \in Subgraph : \A o \in Lasting(s) :
        /\ \E r \in rows : r.covenant = Cov(s, o) /\ r.output = o
        /\ ~Before(s, head[Cov(s, o)].subgraph)

\* A runtime before a covenant's owner knows the output which the covenant's first one consumes.
StrandInv ==
    \A c \in DOMAIN head : \A s \in Subgraph :
        Before(s, head[c].subgraph) =>
            /\ Parent[c] \in Output
            /\ \A b \in Range(chain) : Parent[c] \in Holds(b) => b \in known[s]

\* The parent a row names has a row of its own, with a lower number.
EdgeInv ==
    \A r \in rows :
        \/ r.parent = None
        \/ \E q \in rows : q.covenant = r.covenant /\ q.output = r.parent /\ q.seq < r.seq

LInv == TypeInv /\ KnownInv /\ WorkInv /\ TrackInv /\ CovenantInv /\ AgreeInv /\ RowInv
          /\ HeadInv /\ OwnInv /\ StrandInv /\ EdgeInv

------------------------------------------------------------------------------

(***************************************************************************)
(* Chains.                                                                 *)
(***************************************************************************)

LEMMA LeastNatural ==
    ASSUME NEW T, T \subseteq Nat, T # {}
    PROVE  \E m \in T : \A n \in T : m <= n
  <1>1. PICK m \in T : \A n \in T : <<n, m>> \notin OpToRel(<, Nat)
    BY NatLessThanWellFounded, WFMin, Zenon
  <1>2. \A n \in T : ~(n < m)
    BY <1>1, Zenon DEF OpToRel
  <1> QED BY <1>2

LEMMA GreatestNatural ==
    ASSUME NEW T, T \subseteq Nat, T # {}, NEW n \in Nat, \A x \in T : x <= n
    PROVE  \E m \in T : \A x \in T : x <= m
  <1> DEFINE below == {n - x : x \in T}
  <1>1. below \subseteq Nat /\ below # {}
    <2>1. ASSUME NEW x \in T PROVE n - x \in Nat
      <3>1. x \in Nat /\ x <= n
        OBVIOUS
      <3> QED BY <3>1
    <2> QED BY <2>1
  <1>2. PICK d \in below : \A e \in below : d <= e
    BY <1>1, LeastNatural
  <1>3. PICK m \in T : d = n - m
    OBVIOUS
  <1>4. ASSUME NEW x \in T PROVE x <= m
    <2>1. n - m <= n - x
      BY <1>2, <1>3
    <2> QED BY <2>1
  <1> QED BY <1>3, <1>4

LEMMA ConstantFacts ==
    /\ \A b \in Block : DaaScore[b] \in Nat /\ Outputs[b] \in Seq(Output) /\ Holds(b) \subseteq Output
    /\ \A o \in Output : Parent[o] \in Output \cup {None}
    /\ None \notin Output
  <1>1. \A b \in Block : DaaScore[b] \in Nat /\ Outputs[b] \in Seq(Output)
    BY LineageAssumption
  <1>2. \A b \in Block : Holds(b) \subseteq Output
    BY <1>1 DEF Holds, Range
  <1>3. \A o \in Output : Parent[o] \in Output \cup {None}
    <2>1. \A o \in Output : Inputs[o] \in Seq(Output)
      BY LineageAssumption
    <2>2. \A o \in Output : Inputs[o] # <<>> => Inputs[o][1] \in Output
      BY <2>1
    <2> QED BY <2>2 DEF Parent
  <1>4. None \notin Output
    BY LineageAssumption
  <1> QED BY <1>1, <1>2, <1>3, <1>4

\* The first output consumed is one of those consumed.
LEMMA ParentIsInput ==
    ASSUME NEW o \in Output, Parent[o] # None
    PROVE  Parent[o] \in Range(Inputs[o]) /\ Parent[o] = Inputs[o][1] /\ Parent[o] \in Output
           /\ 1 \in DOMAIN Inputs[o]
  <1>1. Inputs[o] \in Seq(Output) /\ Inputs[o] # <<>> /\ Parent[o] = Inputs[o][1]
    BY LineageAssumption DEF Parent
  <1>2. 1 \in DOMAIN Inputs[o]
    BY <1>1
  <1> QED BY <1>1, <1>2 DEF Range

\* A chain brings an output once, after the first one it consumes.
LEMMA ParentComesFirst ==
    ASSUME NEW c \in Chains, c \in Seq(Block)
    PROVE  \A i, k \in DOMAIN c : \A j \in DOMAIN Outputs[c[i]], l \in DOMAIN Outputs[c[k]] :
             /\ Outputs[c[i]][j] = Outputs[c[k]][l] => i = k /\ j = l
             /\ Outputs[c[i]][j] = Parent[Outputs[c[k]][l]] => i < k \/ (i = k /\ j < l)
  <1> SUFFICES ASSUME NEW i \in DOMAIN c, NEW k \in DOMAIN c,
                      NEW j \in DOMAIN Outputs[c[i]], NEW l \in DOMAIN Outputs[c[k]]
               PROVE  /\ Outputs[c[i]][j] = Outputs[c[k]][l] => i = k /\ j = l
                      /\ Outputs[c[i]][j] = Parent[Outputs[c[k]][l]] => i < k \/ (i = k /\ j < l)
    OBVIOUS
  <1>1. /\ Outputs[c[i]][j] = Outputs[c[k]][l] => i = k /\ j = l
        /\ Outputs[c[i]][j] \in Range(Inputs[Outputs[c[k]][l]]) => i < k \/ (i = k /\ j < l)
    BY LineageAssumption
  <1>2. Outputs[c[i]][j] \in Output /\ Outputs[c[k]][l] \in Output
    <2>1. c[i] \in Block /\ c[k] \in Block
      OBVIOUS
    <2>2. Outputs[c[i]] \in Seq(Output) /\ Outputs[c[k]] \in Seq(Output)
      BY <2>1, LineageAssumption
    <2> QED BY <2>2
  <1>3. None \notin Output
    BY LineageAssumption
  <1>4. Outputs[c[i]][j] = Parent[Outputs[c[k]][l]] =>
            Outputs[c[i]][j] \in Range(Inputs[Outputs[c[k]][l]])
    BY <1>2, <1>3, ParentIsInput
  <1> QED BY <1>1, <1>4

\* A chain brings an output once; the output it consumes is on the chain, no higher.
LEMMA ChainFacts ==
    ASSUME NEW c \in Chains \cup {<<>>}
    PROVE  /\ Range(c) \subseteq Block
           /\ \A i, j \in DOMAIN c : i < j => DaaScore[c[i]] < DaaScore[c[j]]
           /\ \A a, b \in Range(c) : \A o \in Holds(a) : o \in Holds(b) => a = b
           /\ \A b \in Range(c) : \A o \in Holds(b) :
                 /\ Parent[o] # o
                 /\ Parent[o] # None =>
                       \E a \in Range(c) : Parent[o] \in Holds(a) /\ DaaScore[a] <= DaaScore[b]
  <1>1. CASE c = <<>>
    BY <1>1 DEF Range
  <1>2. CASE c \in Chains
    <2>1. c \in Seq(Block)
      BY <1>2, LineageAssumption
    <2>2. \A i, j \in DOMAIN c : i < j => DaaScore[c[i]] < DaaScore[c[j]]
      BY <1>2, LineageAssumption
    <2>3. Range(c) \subseteq Block
      BY <2>1 DEF Range
    <2>4. \A i, k \in DOMAIN c : \A j \in DOMAIN Outputs[c[i]], l \in DOMAIN Outputs[c[k]] :
             /\ Outputs[c[i]][j] = Outputs[c[k]][l] => i = k /\ j = l
             /\ Outputs[c[i]][j] = Parent[Outputs[c[k]][l]] => i < k \/ (i = k /\ j < l)
      BY <1>2, <2>1, ParentComesFirst
    <2>5. ASSUME NEW a \in Range(c), NEW b \in Range(c), NEW o \in Holds(a), o \in Holds(b)
          PROVE  a = b
      <3>1. PICK i \in DOMAIN c : c[i] = a
        BY DEF Range
      <3>2. PICK k \in DOMAIN c : c[k] = b
        BY DEF Range
      <3>3. PICK j \in DOMAIN Outputs[a] : Outputs[a][j] = o
        BY DEF Holds, Range
      <3>4. PICK l \in DOMAIN Outputs[b] : Outputs[b][l] = o
        BY <2>5 DEF Holds, Range
      <3> QED BY <2>4, <3>1, <3>2, <3>3, <3>4
    <2>6. ASSUME NEW b \in Range(c), NEW o \in Holds(b)
          PROVE  /\ Parent[o] # o
                 /\ Parent[o] # None =>
                       \E a \in Range(c) : Parent[o] \in Holds(a) /\ DaaScore[a] <= DaaScore[b]
      <3>1. PICK k \in DOMAIN c : c[k] = b
        BY DEF Range
      <3>2. PICK l \in DOMAIN Outputs[b] : Outputs[b][l] = o
        BY DEF Holds, Range
      <3>3. k \in Nat /\ l \in Nat
        <4>1. Outputs[b] \in Seq(Output)
          BY <2>3, ConstantFacts
        <4> QED BY <2>1, <4>1
      <3>4. Parent[o] # o
        <4>1. Outputs[c[k]][l] = Parent[Outputs[c[k]][l]] => k < k \/ (k = k /\ l < l)
          BY <2>4, <3>1, <3>2
        <4> QED BY <3>1, <3>2, <3>3, <4>1
      <3>5. ASSUME Parent[o] # None
            PROVE  \E a \in Range(c) : Parent[o] \in Holds(a) /\ DaaScore[a] <= DaaScore[b]
        <4>1. PICK a \in Range(c) : Parent[o] \in Holds(a)
          <5>1. o \in Output
            BY <2>3, ConstantFacts
          <5>2. Parent[o] \in Range(Inputs[o])
            BY <3>5, <5>1, ParentIsInput
          <5>3. \E a \in Range(c) : Parent[o] \in Range(Outputs[a])
            BY <1>2, <2>6, <5>2, LineageAssumption DEF Holds
          <5> QED BY <5>3 DEF Holds
        <4>2. PICK i \in DOMAIN c : c[i] = a
          BY DEF Range
        <4>3. PICK j \in DOMAIN Outputs[a] : Outputs[a][j] = Parent[o]
          BY <4>1 DEF Holds, Range
        <4>4. i < k \/ i = k
          BY <2>4, <3>1, <3>2, <4>2, <4>3
        <4>5. DaaScore[a] \in Nat /\ DaaScore[b] \in Nat
          BY <2>3, ConstantFacts
        <4> QED BY <2>2, <3>1, <4>1, <4>2, <4>4, <4>5
      <3> QED BY <3>4, <3>5
    <2> QED BY <2>2, <2>3, <2>5, <2>6
  <1> QED BY <1>1, <1>2

------------------------------------------------------------------------------

(***************************************************************************)
(* The list of work.                                                       *)
(***************************************************************************)

\* The first item leaves the list.
LEMMA TailWork ==
    ASSUME TypeInv, work # <<>>, work' = Tail(work), NEW h, h = Head(work)
    PROVE  /\ h = work[1] /\ 1 \in DOMAIN work /\ h \in Item /\ work' \in Seq(Item)
           /\ \A k \in DOMAIN work' : k + 1 \in DOMAIN work /\ work'[k] = work[k + 1] /\ 1 < k + 1
           /\ \A t : Cuts(t) = Cuts(t)' \cup (IF h.subgraph = t /\ h.unwind THEN {h.score} ELSE {})
           /\ \A t : Ahead(t) = Ahead(t)' \cup (IF h.subgraph = t /\ ~h.unwind THEN {h.output} ELSE {})
  <1> HIDE DEF Item
  <1>1. work \in Seq(Item) BY DEF TypeInv
  <1>2. h = work[1] /\ 1 \in DOMAIN work /\ h \in Item /\ work' \in Seq(Item)
    BY <1>1
  <1>3. \A k \in DOMAIN work' : k + 1 \in DOMAIN work /\ work'[k] = work[k + 1] /\ 1 < k + 1
    BY <1>1
  <1>4. \A l \in DOMAIN work : l # 1 => l - 1 \in DOMAIN work' /\ work'[l - 1] = work[l]
    BY <1>1
  <1>5. ASSUME NEW t
        PROVE  Cuts(t) = Cuts(t)' \cup (IF h.subgraph = t /\ h.unwind THEN {h.score} ELSE {})
    <2>1. ASSUME NEW x \in Cuts(t)
          PROVE  x \in Cuts(t)' \cup (IF h.subgraph = t /\ h.unwind THEN {h.score} ELSE {})
      <3>1. PICK l \in DOMAIN work : work[l].subgraph = t /\ work[l].unwind /\ x = work[l].score
        BY DEF Cuts
      <3>2. CASE l = 1
        BY <1>2, <3>1, <3>2
      <3>3. CASE l # 1
        BY <1>4, <3>1, <3>3 DEF Cuts
      <3> QED BY <3>2, <3>3
    <2>2. Cuts(t)' \subseteq Cuts(t)
      BY <1>3 DEF Cuts
    <2>3. h.subgraph = t /\ h.unwind => h.score \in Cuts(t)
      BY <1>2 DEF Cuts
    <2> QED BY <2>1, <2>2, <2>3
  <1>6. ASSUME NEW t
        PROVE  Ahead(t) = Ahead(t)' \cup (IF h.subgraph = t /\ ~h.unwind THEN {h.output} ELSE {})
    <2>1. ASSUME NEW x \in Ahead(t)
          PROVE  x \in Ahead(t)' \cup (IF h.subgraph = t /\ ~h.unwind THEN {h.output} ELSE {})
      <3>1. PICK l \in DOMAIN work : work[l].subgraph = t /\ ~work[l].unwind /\ x = work[l].output
        BY DEF Ahead
      <3>2. CASE l = 1
        BY <1>2, <3>1, <3>2
      <3>3. CASE l # 1
        BY <1>4, <3>1, <3>3 DEF Ahead
      <3> QED BY <3>2, <3>3
    <2>2. Ahead(t)' \subseteq Ahead(t)
      BY <1>3 DEF Ahead
    <2>3. h.subgraph = t /\ ~h.unwind => h.output \in Ahead(t)
      BY <1>2 DEF Ahead
    <2> QED BY <2>1, <2>2, <2>3
  <1> QED BY <1>2, <1>3, <1>5, <1>6

\* What the first item says of the rest: the runtimes before its own have nothing left to
\* do, and its own has no unwind left after it and none before an output.
LEMMA FirstItem ==
    ASSUME TypeInv, WorkInv, work # <<>>, NEW h, h = Head(work)
    PROVE  /\ h.subgraph \in Subgraph /\ h.subgraph \in Range(runtimes)
           /\ \A t : Before(t, h.subgraph) => Cuts(t) = {} /\ Ahead(t) = {}
           /\ Cuts(h.subgraph) = IF h.unwind THEN {h.score} ELSE {}
  <1>1. work \in Seq(Item) BY DEF TypeInv
  <1>2. h = work[1] /\ 1 \in DOMAIN work /\ h \in Item
    <2> HIDE DEF Item
    <2> QED BY <1>1
  <1>3. \A l \in DOMAIN work : l = 1 \/ 1 < l
    BY <1>1
  <1>4. h.subgraph \in Subgraph BY <1>2 DEF Item
  <1>5. h.subgraph \in Range(runtimes) BY <1>2 DEF WorkInv
  <1>6. ASSUME NEW t, Before(t, h.subgraph), NEW l \in DOMAIN work, work[l].subgraph = t
        PROVE  FALSE
    <2>1. CASE 1 < l
      BY <1>2, <1>6, <2>1 DEF WorkInv
    <2>2. CASE l = 1
      <3>1. Before(t, t) BY <1>2, <1>6, <2>2
      <3>2. PICK i, j \in DOMAIN runtimes : i < j /\ runtimes[i] = t /\ runtimes[j] = t
        BY <3>1 DEF Before
      <3>3. i = j BY <3>2 DEF TypeInv
      <3>4. i \in Nat BY DEF TypeInv
      <3> QED BY <3>2, <3>3, <3>4
    <2> QED BY <1>3, <2>1, <2>2
  <1>7. \A t : Before(t, h.subgraph) => Cuts(t) = {} /\ Ahead(t) = {}
    BY <1>6 DEF Cuts, Ahead
  <1>8. \A l \in DOMAIN work : work[l].subgraph = h.subgraph /\ work[l].unwind => l = 1
    BY <1>2, <1>3 DEF WorkInv
  <1>9. Cuts(h.subgraph) = IF h.unwind THEN {h.score} ELSE {}
    BY <1>2, <1>8 DEF Cuts
  <1> QED BY <1>4, <1>5, <1>7, <1>9

LEMMA BeforeIsOrder ==
    ASSUME TypeInv
    PROVE  /\ \A s : ~Before(s, s)
           /\ \A s, t : Before(s, t) => ~Before(t, s) /\ s \in Subgraph /\ t \in Subgraph
           /\ \A s, t \in Range(runtimes) : s = t \/ Before(s, t) \/ Before(t, s)
           /\ \A s, t : Before(s, t) => s \in Range(runtimes) /\ t \in Range(runtimes)
  <1>1. \A i \in DOMAIN runtimes : i \in Nat /\ runtimes[i] \in Subgraph
    BY DEF TypeInv
  <1>2. \A s : ~Before(s, s)
    BY <1>1 DEF TypeInv, Before
  <1>3. \A s, t : Before(s, t) => ~Before(t, s)
    <2> SUFFICES ASSUME NEW s, NEW t, Before(s, t), Before(t, s) PROVE FALSE
      OBVIOUS
    <2>1. PICK i, j \in DOMAIN runtimes : i < j /\ runtimes[i] = s /\ runtimes[j] = t
      BY DEF Before
    <2>2. PICK k, l \in DOMAIN runtimes : k < l /\ runtimes[k] = t /\ runtimes[l] = s
      BY DEF Before
    <2>3. i = l /\ j = k
      BY <2>1, <2>2 DEF TypeInv
    <2> QED BY <1>1, <2>1, <2>2, <2>3
  <1>4. \A s, t : Before(s, t) => s \in Subgraph /\ t \in Subgraph
    BY <1>1 DEF Before
  <1>5. \A s, t \in Range(runtimes) : s = t \/ Before(s, t) \/ Before(t, s)
    <2> SUFFICES ASSUME NEW s \in Range(runtimes), NEW t \in Range(runtimes), s # t
                 PROVE  Before(s, t) \/ Before(t, s)
      OBVIOUS
    <2>1. PICK i \in DOMAIN runtimes : runtimes[i] = s BY DEF Range
    <2>2. PICK j \in DOMAIN runtimes : runtimes[j] = t BY DEF Range
    <2>3. i < j \/ j < i BY <1>1, <2>1, <2>2
    <2> QED BY <2>1, <2>2, <2>3 DEF Before
  <1>6. \A s, t : Before(s, t) => s \in Range(runtimes) /\ t \in Range(runtimes)
    BY DEF Before, Range
  <1> QED BY <1>2, <1>3, <1>4, <1>5, <1>6

LEMMA WorkStep ==
    ASSUME TypeInv, WorkInv, work # <<>>, work' = Tail(work), UNCHANGED <<known, runtimes>>
    PROVE  WorkInv'
  <1> DEFINE h == Head(work)
  <1>1. \A k \in DOMAIN work' : k + 1 \in DOMAIN work /\ work'[k] = work[k + 1]
    BY TailWork
  <1>2. \A k, l \in DOMAIN work' : k < l => k + 1 < l + 1
    <2>1. work' \in Seq(Item) BY TailWork
    <2> HIDE DEF Item
    <2> QED BY <2>1
  <1>3. \A s, t : Before(s, t)' <=> Before(s, t)
    BY DEF Before
  <1>4. ASSUME NEW k \in DOMAIN work'
        PROVE  /\ work'[k].subgraph \in Range(runtimes')
               /\ ~work'[k].unwind =>
                    \E b \in known'[work'[k].subgraph] :
                        work'[k].output \in Holds(b) /\ work'[k].score = DaaScore[b]
    BY <1>1 DEF WorkInv
  <1>5. ASSUME NEW k \in DOMAIN work', NEW l \in DOMAIN work', k < l
        PROVE  /\ ~Before(work[l + 1].subgraph, work[k + 1].subgraph)
               /\ work'[k].subgraph = work'[l].subgraph =>
                    /\ ~work'[l].unwind
                    /\ ~work'[k].unwind =>
                          /\ work'[k].score <= work'[l].score
                          /\ work'[k].output # work'[l].output
                          /\ Parent[work'[k].output] # work'[l].output
    <2>1. k + 1 < l + 1 /\ k + 1 \in DOMAIN work /\ l + 1 \in DOMAIN work
      BY <1>1, <1>2, <1>5
    <2>2. work'[k] = work[k + 1] /\ work'[l] = work[l + 1]
      BY <1>1
    <2> QED BY <2>1, <2>2 DEF WorkInv
  <1>6. ASSUME NEW s \in Subgraph, NEW t \in Subgraph, Before(s, t)
        PROVE  Ahead(s)' \subseteq Ahead(t)'
    <2>1. Ahead(s) \subseteq Ahead(t) BY <1>6 DEF WorkInv
    <2>2. PICK i : i = h
      OBVIOUS
    <2> HIDE DEF h
    <2>3. \A u : Ahead(u) = Ahead(u)' \cup (IF i.subgraph = u /\ ~i.unwind THEN {i.output} ELSE {})
      <3>1. i = Head(work) BY <2>2 DEF h
      <3> QED BY <3>1, TailWork
    <2>4. Ahead(s)' \subseteq Ahead(s)
      BY <2>3, Zenon
    <2>5. i.subgraph # t => Ahead(t)' = Ahead(t)
      BY <2>3
    <2>6. i.subgraph = t => Ahead(s) = {}
      <3>1. i = Head(work) BY <2>2 DEF h
      <3> QED BY <1>6, <3>1, FirstItem
    <2> QED BY <2>1, <2>4, <2>5, <2>6
  <1>7. \A k, l \in DOMAIN work' : k < l => ~(Before(work[l + 1].subgraph, work[k + 1].subgraph))
    BY <1>5
  <1>8. \A k, l \in DOMAIN work' : k < l => ~(Before(work[l].subgraph, work[k].subgraph))'
    BY <1>1, <1>7 DEF Before
  <1>9. \A s, t \in Subgraph : Before(s, t)' => Ahead(s)' \subseteq Ahead(t)'
    BY <1>3, <1>6
  <1> QED BY <1>4, <1>5, <1>8, <1>9 DEF WorkInv

\* Once its unwind is taken off the list, a runtime has no other.
LEMMA NoMoreCuts ==
    ASSUME TypeInv, WorkInv, work # <<>>, work' = Tail(work), NEW h, h = Head(work)
    PROVE  Cuts(h.subgraph)' = {}
  <1>1. /\ h = work[1] /\ 1 \in DOMAIN work
        /\ \A k \in DOMAIN work' : k + 1 \in DOMAIN work /\ work'[k] = work[k + 1] /\ 1 < k + 1
    BY TailWork
  <1>2. ASSUME NEW k \in DOMAIN work', work'[k].subgraph = h.subgraph
        PROVE  ~work'[k].unwind
    <2>1. k + 1 \in DOMAIN work /\ work[k + 1].subgraph = work[1].subgraph /\ 1 < k + 1
      BY <1>1, <1>2
    <2>2. ~work[k + 1].unwind
      BY <1>1, <2>1 DEF WorkInv
    <2> QED BY <1>1, <2>2
  <1> QED BY <1>2 DEF Cuts

\* What a later runtime tracks for good, the ones before it do too.
LEMMA TrackedBefore ==
    ASSUME KnownInv, WorkInv, TrackInv, NEW t \in Subgraph, NEW u \in Subgraph, Before(t, u),
           NEW p \in Lasting(u)
    PROVE  p \in Lasting(t)
  <1>1. PICK b \in known[u] : p \in Holds(b)
    BY DEF TrackInv
  <1>2. b \in known[t]
    BY DEF KnownInv
  <1>3. p \in Lasting(t) \cup Ahead(t)
    BY <1>1, <1>2 DEF TrackInv
  <1>4. Ahead(t) \subseteq Ahead(u) /\ p \notin Ahead(u)
    BY SMTT(30) DEF WorkInv, TrackInv
  <1> QED BY <1>3, <1>4

------------------------------------------------------------------------------

(***************************************************************************)
(* An unwind.                                                              *)
(***************************************************************************)

\* What an unwind by runtime s from a score on leaves of the trackers.
LEMMA UnwindTrackers ==
    ASSUME LInv, Unwind, NEW h, h = Head(work), NEW s, s = h.subgraph, NEW from, from = h.score
    PROVE  /\ h.unwind /\ h \in Item /\ s \in Subgraph /\ s \in Range(runtimes) /\ from \in Nat
           /\ work # <<>> /\ work' = Tail(work)
           /\ \A t : Before(t, s) => Ahead(t) = {}
           /\ DOMAIN utxos' = Subgraph
           /\ \A t \in Subgraph : t # s => utxos'[t] = utxos[t]
           /\ DOMAIN utxos'[s] = {o \in DOMAIN utxos[s] : utxos[s][o].score < from}
           /\ \A o \in DOMAIN utxos'[s] : utxos'[s][o] = utxos[s][o]
           /\ \A t : Ahead(t)' = Ahead(t)
           /\ \A t \in Subgraph : Lasting(t)' = Lasting(t)
           /\ Lasting(s) = DOMAIN utxos'[s]
  <1>1. /\ work # <<>> /\ h.unwind /\ work' = Tail(work)
        /\ utxos' = [utxos EXCEPT ![s] = Restrict(@, {o \in DOMAIN @ : @[o].score < from})]
    BY DEF Unwind
  <1>2. TypeInv /\ WorkInv
    BY DEF LInv
  <1>3. /\ h \in Item /\ s \in Subgraph /\ s \in Range(runtimes)
        /\ Cuts(s) = {from}
        /\ \A t : Before(t, s) => Ahead(t) = {}
    BY <1>1, <1>2, FirstItem, TailWork
  <1>4. from \in Nat
    BY <1>3 DEF Item
  <1>5. DOMAIN utxos = Subgraph
    BY <1>2 DEF TypeInv
  <1>6. /\ DOMAIN utxos' = Subgraph
        /\ \A t \in Subgraph : t # s => utxos'[t] = utxos[t]
        /\ utxos'[s] = Restrict(utxos[s], {o \in DOMAIN utxos[s] : utxos[s][o].score < from})
    BY <1>1, <1>3, <1>5
  <1>7. /\ DOMAIN utxos'[s] = {o \in DOMAIN utxos[s] : utxos[s][o].score < from}
        /\ \A o \in DOMAIN utxos'[s] : utxos'[s][o] = utxos[s][o]
    BY <1>6 DEF Restrict
  <1>8. /\ \A t : Cuts(t) = Cuts(t)' \cup (IF h.subgraph = t /\ h.unwind THEN {h.score} ELSE {})
        /\ \A t : Ahead(t) = Ahead(t)' \cup (IF h.subgraph = t /\ ~h.unwind THEN {h.output} ELSE {})
    BY <1>1, <1>2, TailWork
  <1>9. \A t : Ahead(t)' = Ahead(t)
    BY <1>1, <1>8
  <1>10. Cuts(s)' = {}
    BY <1>1, <1>2, NoMoreCuts
  <1>11. \A t : t # s => Cuts(t)' = Cuts(t)
    BY <1>8
  <1>12. Lasting(s) = DOMAIN utxos'[s]
    BY <1>3, <1>7 DEF Lasting
  <1>13. Lasting(s)' = DOMAIN utxos'[s]
    BY <1>10 DEF Lasting
  <1>14. ASSUME NEW t \in Subgraph, t # s PROVE Lasting(t)' = Lasting(t)
    <2>1. utxos'[t] = utxos[t] /\ Cuts(t)' = Cuts(t)
      BY <1>6, <1>11, <1>14
    <2> QED BY <2>1 DEF Lasting
  <1> QED BY <1>1, <1>3, <1>4, <1>6, <1>7, <1>9, <1>12, <1>13, <1>14

LEMMA UnwindTracks ==
    ASSUME LInv, Unwind, NEW h, h = Head(work), NEW s, s = h.subgraph, NEW from, from = h.score
    PROVE  KnownInv' /\ WorkInv' /\ TrackInv' /\ CovenantInv' /\ AgreeInv'
  <1>1. /\ s \in Subgraph /\ s \in Range(runtimes) /\ from \in Nat
        /\ work # <<>> /\ work' = Tail(work)
        /\ \A t \in Subgraph : t # s => utxos'[t] = utxos[t]
        /\ DOMAIN utxos'[s] = {o \in DOMAIN utxos[s] : utxos[s][o].score < from}
        /\ \A o \in DOMAIN utxos'[s] : utxos'[s][o] = utxos[s][o]
        /\ \A t : Ahead(t)' = Ahead(t)
        /\ \A t \in Subgraph : Lasting(t)' = Lasting(t)
        /\ Lasting(s) = DOMAIN utxos'[s]
    BY UnwindTrackers
  <1>2. UNCHANGED <<chain, runtimes, known>>
    BY DEF Unwind
  <1>3. TypeInv /\ KnownInv /\ WorkInv /\ TrackInv /\ CovenantInv /\ AgreeInv
    BY DEF LInv
  <1>4. \A t, u : Before(t, u)' <=> Before(t, u)
    BY <1>2 DEF Before
  <1>5. WorkInv'
    BY <1>1, <1>2, <1>3, WorkStep
  <1>6. KnownInv'
    BY <1>1, <1>2, <1>3, <1>4 DEF KnownInv
  <1>7. \A t \in Subgraph : \A o \in Lasting(t) : o \in DOMAIN utxos'[t] /\ utxos'[t][o] = utxos[t][o]
    <2>1. \A t \in Subgraph : Lasting(t) \subseteq DOMAIN utxos[t]
      BY DEF Lasting
    <2> QED BY <1>1, <2>1
  <1>8. TrackInv'
    <2>1. ASSUME NEW t \in Subgraph, NEW o \in Lasting(t)
          PROVE  /\ \E b \in known'[t] : o \in Holds(b) /\ utxos'[t][o].score = DaaScore[b]
                 /\ o \notin Ahead(t)' /\ Parent[o] \notin Ahead(t)'
                 /\ \A k \in DOMAIN work' :
                       work'[k].subgraph = t /\ ~work'[k].unwind => utxos'[t][o].score <= work'[k].score
      <3>1. /\ \E b \in known[t] : o \in Holds(b) /\ utxos[t][o].score = DaaScore[b]
            /\ o \notin Ahead(t) /\ Parent[o] \notin Ahead(t)
            /\ \A k \in DOMAIN work :
                  work[k].subgraph = t /\ ~work[k].unwind => utxos[t][o].score <= work[k].score
        BY <1>3 DEF TrackInv
      <3>2. utxos'[t][o] = utxos[t][o]
        BY <1>7
      <3>3. \A k \in DOMAIN work' : k + 1 \in DOMAIN work /\ work'[k] = work[k + 1]
        BY <1>1, <1>3, TailWork
      <3> QED BY <1>1, <1>2, <3>1, <3>2, <3>3
    <2>2. \A t \in Subgraph : \A b \in known'[t] : Holds(b) \subseteq Lasting(t)' \cup Ahead(t)'
      BY <1>1, <1>2, <1>3 DEF TrackInv
    <2> QED BY <1>1, <2>1, <2>2 DEF TrackInv
  <1>9. CovenantInv'
    <2>1. ASSUME NEW o \in DOMAIN utxos'[s]
          PROVE  /\ Cov(s, o)' \in DOMAIN utxos'[s]
                 /\ utxos'[s][utxos'[s][o].covenant].covenant = utxos'[s][o].covenant
                 /\ utxos'[s][utxos'[s][o].covenant].score <= utxos'[s][o].score
                 /\ Parent[Cov(s, o)'] \notin DOMAIN utxos'[s]
                 /\ Parent[o] \in DOMAIN utxos'[s] =>
                       /\ utxos'[s][Parent[o]].covenant = utxos'[s][o].covenant
                       /\ utxos'[s][Parent[o]].score <= utxos'[s][o].score
                 /\ Parent[o] \notin DOMAIN utxos'[s] => Cov(s, o)' = o
      <3>1. PICK c : c = utxos[s][o].covenant
        OBVIOUS
      <3>2. o \in DOMAIN utxos[s] /\ utxos'[s][o] = utxos[s][o] /\ utxos[s][o].score < from
        BY <1>1, SMTT(30)
      <3>3. /\ c \in DOMAIN utxos[s] /\ utxos[s][c].covenant = c
            /\ utxos[s][c].score <= utxos[s][o].score
            /\ Parent[c] \notin DOMAIN utxos[s]
            /\ Parent[o] \in DOMAIN utxos[s] =>
                  utxos[s][Parent[o]].covenant = c /\ utxos[s][Parent[o]].score <= utxos[s][o].score
            /\ Parent[o] \notin DOMAIN utxos[s] => c = o
        BY <1>1, <1>3, <3>1, <3>2 DEF CovenantInv, Cov
      <3>4. \A p \in DOMAIN utxos[s] : utxos[s][p].score \in Nat
        BY <1>1, <1>3 DEF TypeInv, Entry
      <3>5. c \in DOMAIN utxos'[s]
        BY <1>1, <3>2, <3>3, <3>4
      <3>6. Parent[o] \in DOMAIN utxos[s] => Parent[o] \in DOMAIN utxos'[s]
        BY <1>1, <3>2, <3>3, <3>4
      <3>7. Cov(s, o)' = c /\ utxos'[s][o].covenant = c
        BY <3>1, <3>2 DEF Cov
      <3>8. utxos'[s][c] = utxos[s][c]
        BY <1>1, <3>5
      <3>9. Parent[o] \in DOMAIN utxos'[s] =>
               Parent[o] \in DOMAIN utxos[s] /\ utxos'[s][Parent[o]] = utxos[s][Parent[o]]
        BY <1>1
      <3>10. Parent[c] \notin DOMAIN utxos'[s]
        BY <1>1, <3>3
      <3>11. /\ Cov(s, o)' \in DOMAIN utxos'[s]
             /\ utxos'[s][utxos'[s][o].covenant].covenant = utxos'[s][o].covenant
             /\ utxos'[s][utxos'[s][o].covenant].score <= utxos'[s][o].score
             /\ Parent[Cov(s, o)'] \notin DOMAIN utxos'[s]
        BY <3>2, <3>3, <3>5, <3>7, <3>8, <3>10
      <3>12. Parent[o] \in DOMAIN utxos'[s] =>
                /\ utxos'[s][Parent[o]].covenant = utxos'[s][o].covenant
                /\ utxos'[s][Parent[o]].score <= utxos'[s][o].score
        BY <3>2, <3>3, <3>7, <3>9
      <3>13. Parent[o] \notin DOMAIN utxos'[s] => Cov(s, o)' = o
        BY <3>3, <3>6, <3>7
      <3> QED BY <3>11, <3>12, <3>13
    <2>2. \A t \in Subgraph : t # s => utxos'[t] = utxos[t]
      BY <1>1
    <2>3. ASSUME NEW t \in Subgraph, NEW o \in DOMAIN utxos'[t]
          PROVE  /\ Cov(t, o)' \in DOMAIN utxos'[t]
                 /\ utxos'[t][utxos'[t][o].covenant].covenant = utxos'[t][o].covenant
                 /\ utxos'[t][utxos'[t][o].covenant].score <= utxos'[t][o].score
                 /\ Parent[Cov(t, o)'] \notin DOMAIN utxos'[t]
                 /\ Parent[o] \in DOMAIN utxos'[t] =>
                       /\ utxos'[t][Parent[o]].covenant = utxos'[t][o].covenant
                       /\ utxos'[t][Parent[o]].score <= utxos'[t][o].score
                 /\ Parent[o] \notin DOMAIN utxos'[t] => Cov(t, o)' = o
      <3>1. CASE t = s
        BY <2>1, <3>1
      <3>2. CASE t # s
        BY <1>3, <2>2, <3>2, SMTT(30) DEF CovenantInv, Cov
      <3> QED BY <3>1, <3>2
    <2> QED BY <2>3 DEF CovenantInv, Cov
  <1>10. AgreeInv'
    <2>1. ASSUME NEW t \in Subgraph, NEW u \in Subgraph, Before(t, u),
                 NEW p \in Lasting(u), NEW q \in Lasting(t), Cov(t, q)' = Cov(u, p)'
          PROVE  utxos'[t][p].covenant = utxos'[u][p].covenant
      <3>1. utxos'[t][q] = utxos[t][q] /\ utxos'[u][p] = utxos[u][p]
        BY <1>7
      <3>2. Cov(t, q) = Cov(u, p)
        BY <2>1, <3>1 DEF Cov
      <3>3. Cov(t, p) = Cov(u, p)
        BY <1>3, <2>1, <3>2 DEF AgreeInv
      <3>4. p \in Lasting(t)
        BY <1>3, <2>1, TrackedBefore
      <3>5. utxos'[t][p] = utxos[t][p]
        BY <1>7, <3>4
      <3> QED BY <3>1, <3>3, <3>5 DEF Cov
    <2> QED BY <1>1, <1>4, <2>1 DEF AgreeInv, Cov
  <1> QED BY <1>5, <1>6, <1>8, <1>9, <1>10

\* A row that is left keeps its covenant's head with its own runtime.
LEMMA UnwindRows ==
    ASSUME LInv, Unwind, NEW h, h = Head(work), NEW s, s = h.subgraph, NEW from, from = h.score
    PROVE  /\ rows' = {r \in rows : r.subgraph # s \/ r.score < from}
           /\ DOMAIN head' \subseteq DOMAIN head
           /\ \A c \in DOMAIN head' : head'[c].subgraph = head[c].subgraph
           /\ {r.covenant : r \in rows'} = DOMAIN head'
           /\ \A c \in DOMAIN head' :
                 /\ {r.seq : r \in RowsOf(c)'} = 0 .. head'[c].count - 1
                 /\ \E r \in RowsOf(c)' : head'[c] = HeadAt(head'[c].subgraph, r)
  <1> DEFINE left   == Surviving(s, from)
             kept   == {c \in DOMAIN head : head[c].subgraph = s => \E r \in left : r.covenant = c}
             own(c) == {r \in left : r.covenant = c /\ r.subgraph = s}
  <1>1. /\ rows' = left /\ head' = Repointed(s, left)
    BY DEF Unwind
  <1>2. left = {r \in rows : r.subgraph # s \/ r.score < from}
    BY DEF Surviving
  <1>3. /\ DOMAIN head' = kept
        /\ \A c \in kept : head'[c] = IF head[c].subgraph = s /\ own(c) # {}
                                      THEN HeadAt(s, Highest(own(c))) ELSE head[c]
    BY <1>1 DEF Repointed
  <1>4. RowInv /\ HeadInv /\ rows \subseteq Row /\ from \in Nat
    BY UnwindTrackers DEF LInv, TypeInv
  <1>5. /\ {r.covenant : r \in rows} = DOMAIN head
        /\ \A c \in DOMAIN head :
              /\ {r.seq : r \in RowsOf(c)} = 0 .. head[c].count - 1
              /\ \E r \in RowsOf(c) : head[c] = HeadAt(head[c].subgraph, r)
    BY <1>4 DEF HeadInv, HeadsStandOnRows
  <1>6. \A r \in rows : r.covenant \in DOMAIN head /\ head[r.covenant].subgraph = r.subgraph
    BY <1>4 DEF RowInv
  <1>7. {r.covenant : r \in rows'} = DOMAIN head'
    <2>1. ASSUME NEW c \in kept PROVE \E r \in left : r.covenant = c
      <3>1. CASE head[c].subgraph = s
        BY <3>1
      <3>2. CASE head[c].subgraph # s
        BY <1>2, <1>5, <1>6, <3>2
      <3> QED BY <3>1, <3>2
    <2>2. \A r \in left : r.covenant \in kept
      BY <1>2, <1>6
    <2>3. rows' = left /\ DOMAIN head' = kept
      BY <1>1, <1>3
    <2> HIDE DEF left, kept
    <2> QED BY <2>1, <2>2, <2>3
  <1>8. ASSUME NEW c \in DOMAIN head'
        PROVE  /\ head'[c].subgraph = head[c].subgraph
               /\ {r.seq : r \in RowsOf(c)'} = 0 .. head'[c].count - 1
               /\ \E r \in RowsOf(c)' : head'[c] = HeadAt(head'[c].subgraph, r)
    <2>1. c \in DOMAIN head /\ c \in kept
      BY <1>3
    <2>2. CASE head[c].subgraph # s
      <3>1. RowsOf(c)' = RowsOf(c)
        BY <1>1, <1>2, <1>6, <2>2 DEF RowsOf
      <3>2. head'[c] = head[c]
        BY <1>3, <2>1, <2>2
      <3> QED BY <1>5, <2>1, <3>1, <3>2
    <2>3. CASE head[c].subgraph = s
      <3>1. RowsOf(c)' = own(c) /\ own(c) = {r \in RowsOf(c) : r.score < from}
        BY <1>1, <1>2, <1>6, <2>3 DEF RowsOf
      <3>2. own(c) # {}
        BY <1>2, <1>6, <2>1, <2>3
      <3>3. \A r \in RowsOf(c) : r.seq \in Nat /\ r.score \in Nat /\ r \in rows /\ r.covenant = c
        BY <1>4 DEF RowsOf, Row
      <3>4. PICK n \in Nat : \A r \in RowsOf(c) : r.seq <= n
        <4>1. PICK q \in RowsOf(c) : head[c] = HeadAt(head[c].subgraph, q)
          BY <1>5, <2>1
        <4>2. head[c].count = q.seq + 1
          BY <4>1 DEF HeadAt
        <4>3. \A r \in RowsOf(c) : r.seq \in 0 .. q.seq
          BY <1>5, <2>1, <3>3, <4>2
        <4> QED BY <3>3, <4>3
      <3> DEFINE Q == {r.seq : r \in own(c)}
      <3>5. PICK m \in own(c) : \A r \in own(c) : r.seq <= m.seq
        <4>1. Q \subseteq Nat /\ Q # {} /\ \A x \in Q : x <= n
          BY <3>1, <3>2, <3>3, <3>4
        <4>2. \E x \in Q : \A y \in Q : y <= x
          <5> HIDE DEF Q
          <5> QED BY <4>1, GreatestNatural
        <4> QED BY <4>2
      <3>6. Highest(own(c)) \in own(c) /\ \A r \in own(c) : r.seq <= Highest(own(c)).seq
        BY <3>5, Zenon DEF Highest
      <3>7. PICK top : top = Highest(own(c))
        OBVIOUS
      <3>8. head'[c] = HeadAt(s, top) /\ top \in RowsOf(c) /\ top.score < from
        BY <1>3, <2>1, <2>3, <3>1, <3>2, <3>6, <3>7
      <3>9. head'[c].subgraph = s /\ head'[c].count = top.seq + 1
        BY <3>8 DEF HeadAt
      <3>10. \A x \in 0 .. top.seq : \E r \in own(c) : r.seq = x
        <4> SUFFICES ASSUME NEW x \in 0 .. top.seq PROVE \E r \in own(c) : r.seq = x
          OBVIOUS
        <4>1. top.seq \in 0 .. head[c].count - 1 /\ top.seq \in Nat
          BY <1>5, <2>1, <3>3, <3>8
        <4>2. PICK r \in RowsOf(c) : r.seq = x
          <5>0. PICK q \in RowsOf(c) : head[c] = HeadAt(head[c].subgraph, q)
            BY <1>5, <2>1
          <5>1. head[c].count \in Int
            BY <3>3, <5>0 DEF HeadAt
          <5>2. x \in 0 .. head[c].count - 1
            BY <4>1, <5>1
          <5> QED BY <1>5, <2>1, <5>2
        <4>3. r = top \/ (r.seq < top.seq /\ r.score <= top.score)
          <5>1. x = top.seq \/ x < top.seq
            BY <4>1
          <5>2. \A a, b \in rows : a.covenant = b.covenant =>
                   (a.seq = b.seq => a = b) /\ (a.seq < b.seq => a.score <= b.score)
            BY <1>4 DEF HeadInv
          <5>3. r \in rows /\ r.covenant = c /\ top \in rows /\ top.covenant = c
            BY <3>3, <3>8
          <5> QED BY <4>2, <5>1, <5>2, <5>3
        <4>4. r.score < from
          BY <1>4, <3>3, <3>8, <4>3
        <4> QED BY <3>1, <4>2, <4>4
      <3>11. {r.seq : r \in own(c)} = 0 .. top.seq
        <4>1. \A r \in own(c) : r.seq \in 0 .. top.seq
          BY <3>1, <3>3, <3>6, <3>7, <3>8
        <4> QED BY <3>10, <4>1
      <3>12. top.seq + 1 - 1 = top.seq
        BY <3>3, <3>8
      <3>13. top \in own(c)
        BY <3>6, <3>7
      <3>14. PICK o : o = own(c)
        OBVIOUS
      <3>15. RowsOf(c)' = o /\ {r.seq : r \in o} = 0 .. top.seq /\ top \in o
        BY <3>1, <3>11, <3>13, <3>14
      <3> HIDE DEF own
      <3>16. {r.seq : r \in RowsOf(c)'} = 0 .. head'[c].count - 1
        BY <3>9, <3>12, <3>15
      <3> QED BY <2>3, <3>8, <3>9, <3>15, <3>16
    <2> QED BY <2>2, <2>3
  <1>9. DOMAIN head' \subseteq DOMAIN head
    BY <1>3
  <1> QED BY <1>1, <1>2, <1>7, <1>8, <1>9

LEMMA UnwindStep ==
    ASSUME LInv, Unwind
    PROVE  LInv'
  <1>1. PICK h : h = Head(work)
    OBVIOUS
  <1>2. PICK s : s = h.subgraph
    OBVIOUS
  <1>3. PICK from : from = h.score
    OBVIOUS
  <1>4. /\ h \in Item /\ s \in Subgraph /\ s \in Range(runtimes) /\ from \in Nat
        /\ work # <<>> /\ work' = Tail(work)
        /\ DOMAIN utxos' = Subgraph
        /\ \A t \in Subgraph : t # s => utxos'[t] = utxos[t]
        /\ DOMAIN utxos'[s] = {o \in DOMAIN utxos[s] : utxos[s][o].score < from}
        /\ \A o \in DOMAIN utxos'[s] : utxos'[s][o] = utxos[s][o]
        /\ \A t \in Subgraph : Lasting(t)' = Lasting(t)
        /\ Lasting(s) = DOMAIN utxos'[s]
    BY <1>1, <1>2, <1>3, UnwindTrackers
  <1>5. /\ rows' = {r \in rows : r.subgraph # s \/ r.score < from}
        /\ DOMAIN head' \subseteq DOMAIN head
        /\ \A c \in DOMAIN head' : head'[c].subgraph = head[c].subgraph
        /\ {r.covenant : r \in rows'} = DOMAIN head'
        /\ \A c \in DOMAIN head' :
              /\ {r.seq : r \in RowsOf(c)'} = 0 .. head'[c].count - 1
              /\ \E r \in RowsOf(c)' : head'[c] = HeadAt(head'[c].subgraph, r)
    BY <1>1, <1>2, <1>3, UnwindRows
  <1>6. KnownInv' /\ WorkInv' /\ TrackInv' /\ CovenantInv' /\ AgreeInv'
    BY <1>1, <1>2, <1>3, UnwindTracks
  <1>7. /\ TypeInv /\ KnownInv /\ WorkInv /\ TrackInv
        /\ RowInv /\ HeadInv /\ OwnInv /\ StrandInv /\ EdgeInv
    BY DEF LInv
  <1>8. UNCHANGED <<chain, runtimes, known, stopped>>
    BY DEF Unwind
  <1>9. \A t, u : Before(t, u)' <=> Before(t, u)
    BY <1>8 DEF Before
  <1>10. TypeInv'
    <2>1. work' \in Seq(Item)
      BY <1>4, <1>7, TailWork
    <2>2. rows' \subseteq Row
      BY <1>5, <1>7 DEF TypeInv
    <2>3. ASSUME NEW t \in Subgraph
          PROVE  DOMAIN utxos'[t] \subseteq Output /\ utxos'[t] \in [DOMAIN utxos'[t] -> Entry]
      <3>1. CASE t # s
        BY <1>4, <1>7, <3>1 DEF TypeInv
      <3>2. CASE t = s
        <4>1. utxos'[s] = [o \in DOMAIN utxos'[s] |-> utxos'[s][o]]
          <5>1. utxos' = [utxos EXCEPT ![s] = Restrict(@, {o \in DOMAIN @ : @[o].score < from})]
            BY <1>1, <1>2, <1>3 DEF Unwind
          <5>2. utxos'[s] = Restrict(utxos[s], {o \in DOMAIN utxos[s] : utxos[s][o].score < from})
            BY <1>4, <1>7, <5>1 DEF TypeInv
          <5> QED BY <5>2 DEF Restrict
        <4>2. \A o \in DOMAIN utxos'[s] : utxos'[s][o] \in Entry
          BY <1>4, <1>7 DEF TypeInv
        <4>3. DOMAIN utxos'[s] \subseteq Output
          BY <1>4, <1>7 DEF TypeInv
        <4> QED BY <3>2, <4>1, <4>2, <4>3
      <3> QED BY <3>1, <3>2
    <2> QED BY <1>4, <1>7, <1>8, <2>1, <2>2, <2>3 DEF TypeInv
  <1>11. RowInv'
    <2>1. ASSUME NEW r \in rows'
          PROVE  /\ r.subgraph \in Range(runtimes')
                 /\ r.output \in DOMAIN utxos'[r.subgraph]
                 /\ utxos'[r.subgraph][r.output].covenant = r.covenant
                 /\ utxos'[r.subgraph][r.output].score = r.score
                 /\ r.covenant \in DOMAIN head' /\ head'[r.covenant].subgraph = r.subgraph
      <3>1. /\ r \in rows /\ r.subgraph \in Range(runtimes)
            /\ r.output \in DOMAIN utxos[r.subgraph]
            /\ utxos[r.subgraph][r.output].covenant = r.covenant
            /\ utxos[r.subgraph][r.output].score = r.score
            /\ head[r.covenant].subgraph = r.subgraph
        BY <1>5, <1>7 DEF RowInv, Cov
      <3>2. r.covenant \in DOMAIN head' /\ head'[r.covenant].subgraph = r.subgraph
        BY <1>5, <3>1
      <3>3. r.subgraph \in Subgraph
        BY <1>7, <3>1 DEF TypeInv, Row
      <3>4. CASE r.subgraph # s
        BY <1>4, <1>8, <3>1, <3>2, <3>3, <3>4
      <3>5. CASE r.subgraph = s
        <4>1. r.output \in DOMAIN utxos'[s]
          BY <1>4, <1>5, <3>1, <3>5
        <4> QED BY <1>4, <1>8, <3>1, <3>2, <3>5, <4>1
      <3> QED BY <3>4, <3>5
    <2> QED BY <2>1 DEF RowInv, Cov
  <1>12. HeadInv'
    <2>1. HeadsStandOnRows'
      BY <1>5 DEF HeadsStandOnRows
    <2>2. \A r, q \in rows' : r.covenant = q.covenant =>
             /\ r.seq = q.seq \/ r.output = q.output => r = q
             /\ r.seq < q.seq => r.score <= q.score
      BY <1>5, <1>7 DEF HeadInv
    <2> QED BY <2>1, <2>2 DEF HeadInv
  <1>13. OwnInv'
    <2>1. ASSUME NEW t \in Subgraph, NEW o \in Lasting(t)
          PROVE  /\ \E r \in rows' : r.covenant = Cov(t, o)' /\ r.output = o
                 /\ ~Before(t, head'[Cov(t, o)'].subgraph)
      <3>1. o \in DOMAIN utxos[t] /\ utxos'[t][o] = utxos[t][o]
        BY <1>4 DEF Lasting
      <3>2. PICK c : c = Cov(t, o) /\ c = Cov(t, o)'
        BY <3>1 DEF Cov
      <3>3. PICK r \in rows : r.covenant = c /\ r.output = o
        BY <1>7, <3>2, ZenonT(60) DEF OwnInv
      <3>4. ~Before(t, head[c].subgraph)
        BY <1>7, <3>2 DEF OwnInv
      <3>5. CASE r.subgraph # s
        <4>1. r \in rows' /\ c \in DOMAIN head'
          BY <1>5, <3>3, <3>5
        <4> QED BY <1>5, <3>2, <3>3, <3>4, <4>1
      <3>6. CASE r.subgraph = s
        <4>1. utxos[s][o].score = r.score /\ head[c].subgraph = s
          BY <1>7, <3>3, <3>6 DEF RowInv
        <4>2. t \in Range(runtimes)
          BY <1>7, <3>1 DEF KnownInv
        <4>3. t = s \/ Before(s, t)
          BY <1>4, <1>7, <3>4, <4>1, <4>2, BeforeIsOrder
        <4>4. o \in Lasting(s)
          BY <1>4, <1>7, <4>3, TrackedBefore
        <4>5. r.score < from
          BY <1>4, <4>1, <4>4
        <4>6. r \in rows' /\ c \in DOMAIN head'
          BY <1>5, <3>3, <4>5
        <4> QED BY <1>5, <3>2, <3>3, <3>4, <4>6
      <3> QED BY <3>5, <3>6
    <2>2. \A t \in Subgraph : \A o \in Lasting(t)' :
             /\ \E r \in rows' : r.covenant = Cov(t, o)' /\ r.output = o
             /\ ~Before(t, head'[Cov(t, o)'].subgraph)
      BY <1>4, <2>1
    <2> QED BY <1>8, <2>2 DEF OwnInv, Before, Cov
  <1>14. StrandInv'
    <2>1. ASSUME NEW c \in DOMAIN head', NEW t \in Subgraph, Before(t, head'[c].subgraph)
          PROVE  /\ Parent[c] \in Output
                 /\ \A b \in Range(chain) : Parent[c] \in Holds(b) => b \in known[t]
      <3>1. c \in DOMAIN head /\ Before(t, head[c].subgraph)
        BY <1>5, <2>1
      <3> QED BY <1>7, <3>1 DEF StrandInv
    <2> QED BY <1>8, <2>1 DEF StrandInv, Before
  <1>15. EdgeInv'
    <2>1. ASSUME NEW r \in rows', r.parent # None
          PROVE  \E q \in rows' : q.covenant = r.covenant /\ q.output = r.parent /\ q.seq < r.seq
      <3>1. PICK q \in rows : q.covenant = r.covenant /\ q.output = r.parent /\ q.seq < r.seq
        BY <1>5, <1>7, <2>1 DEF EdgeInv
      <3>2. r \in rows /\ q.subgraph = r.subgraph
        BY <1>5, <1>7, <3>1 DEF RowInv
      <3>3. q.score <= r.score
        BY <1>7, <3>1, <3>2 DEF HeadInv
      <3>4. q.score \in Nat /\ r.score \in Nat
        BY <1>7, <3>2 DEF TypeInv, Row
      <3>5. q \in rows'
        BY <1>4, <1>5, <3>2, <3>3, <3>4
      <3> QED BY <3>1, <3>5
    <2> QED BY <2>1 DEF EdgeInv
  <1> QED BY <1>6, <1>10, <1>11, <1>12, <1>13, <1>14, <1>15 DEF LInv

------------------------------------------------------------------------------

(***************************************************************************)
(* An output met in a committed block.                                     *)
(***************************************************************************)

\* What a runtime knows when it meets output o in block b: it does not track o yet, it
\* tracks the parent as far as it knows its block, and so do the runtimes before it.
LEMMA RecordFacts ==
    ASSUME LInv, work # <<>>, NEW h, h = Head(work), ~h.unwind,
           NEW s, s = h.subgraph, NEW o, o = h.output
    PROVE  /\ h \in Item /\ s \in Subgraph /\ s \in Range(runtimes) /\ o \in Output
           /\ \E b \in known[s] : o \in Holds(b) /\ h.score = DaaScore[b] /\ h.score \in Nat
           /\ Cuts(s) = {} /\ Lasting(s) = DOMAIN utxos[s]
           /\ o \in Ahead(s) /\ o \notin DOMAIN utxos[s] /\ Parent[o] # o
           /\ \A p \in DOMAIN utxos[s] : utxos[s][p].score <= h.score /\ Parent[p] # o
           /\ \A t : Before(t, s) =>
                 Cuts(t) = {} /\ Ahead(t) = {} /\ Lasting(t) = DOMAIN utxos[t] /\ o \in DOMAIN utxos[t]
           /\ \A b \in known[s] : Parent[o] \in Holds(b) => Parent[o] \in DOMAIN utxos[s]
  <1>1. TypeInv /\ KnownInv /\ WorkInv /\ TrackInv
    BY DEF LInv
  <1>2. /\ h \in Item /\ s \in Subgraph /\ s \in Range(runtimes)
        /\ h = work[1] /\ 1 \in DOMAIN work
        /\ Cuts(s) = {}
        /\ \A t : Before(t, s) => Cuts(t) = {} /\ Ahead(t) = {}
    <2>1. PICK w : w = Tail(work) OBVIOUS
    <2>2. h = work[1] /\ 1 \in DOMAIN work /\ h \in Item
      <3>1. work \in Seq(Item) BY <1>1 DEF TypeInv
      <3> HIDE DEF Item
      <3> QED BY <3>1
    <2> QED BY <1>1, <2>2, FirstItem
  <1>3. PICK b \in known[s] : o \in Holds(b) /\ h.score = DaaScore[b]
    BY <1>1, <1>2 DEF WorkInv
  <1>4. h.score \in Nat /\ o \in Output
    <2>1. b \in Range(chain) /\ Range(chain) \subseteq Block
      BY <1>1, <1>2, <1>3, ChainFacts DEF KnownInv
    <2>2. o \in Output BY <1>3, <2>1, ConstantFacts
    <2> QED BY <1>2, <2>2 DEF Item
  <1>5. Lasting(s) = DOMAIN utxos[s]
    BY <1>2 DEF Lasting
  <1>6. o \in Ahead(s)
    BY <1>2 DEF Ahead
  <1>7. o \notin DOMAIN utxos[s]
    BY <1>1, <1>2, <1>5, <1>6 DEF TrackInv
  <1>8. Parent[o] # o
    BY <1>1, <1>2, <1>3, ChainFacts DEF KnownInv
  <1>9. \A p \in DOMAIN utxos[s] : utxos[s][p].score <= h.score /\ Parent[p] # o
    <2>1. \A p \in Lasting(s) : utxos[s][p].score <= work[1].score /\ Parent[p] \notin Ahead(s)
      BY <1>1, <1>2 DEF TrackInv
    <2> QED BY <1>2, <1>5, <1>6, <2>1
  <1>10. ASSUME NEW t, Before(t, s) PROVE Lasting(t) = DOMAIN utxos[t] /\ o \in DOMAIN utxos[t]
    <2>1. t \in Subgraph
      BY <1>1, <1>10, BeforeIsOrder
    <2>2. Lasting(t) = DOMAIN utxos[t]
      BY <1>2, <1>10 DEF Lasting
    <2>3. b \in known[t]
      BY <1>1, <1>2, <1>3, <1>10, <2>1 DEF KnownInv
    <2>4. o \in Lasting(t) \cup Ahead(t)
      BY <1>1, <1>3, <2>1, <2>3 DEF TrackInv
    <2> QED BY <1>2, <1>10, <2>2, <2>4
  <1>11. ASSUME NEW a \in known[s], Parent[o] \in Holds(a) PROVE Parent[o] \in DOMAIN utxos[s]
    <2>1. Parent[o] \in Lasting(s) \cup Ahead(s)
      BY <1>1, <1>2, <1>11 DEF TrackInv
    <2>2. Parent[o] \notin Ahead(s)
      <3> SUFFICES ASSUME NEW l \in DOMAIN work, work[l].subgraph = s, ~work[l].unwind,
                          work[l].output = Parent[o]
                   PROVE  FALSE
        BY DEF Ahead
      <3>1. CASE l = 1
        BY <1>2, <1>8, <3>1
      <3>2. CASE 1 < l
        BY <1>1, <1>2, <3>2 DEF WorkInv
      <3>3. l = 1 \/ 1 < l
        BY <1>1 DEF TypeInv
      <3> QED BY <3>1, <3>2, <3>3
    <2> QED BY <1>5, <2>1, <2>2
  <1> QED BY <1>2, <1>3, <1>4, <1>5, <1>6, <1>7, <1>8, <1>9, <1>10, <1>11

\* If the runtime tracks any output consumed, it tracks the first one: there is no other,
\* or the runtime knows the whole chain.
LEMMA RecordParent ==
    ASSUME LInv, work # <<>>, NEW h, h = Head(work), ~h.unwind,
           NEW s, s = h.subgraph, NEW o, o = h.output
    PROVE  ParentOf(s, o) = IF Parent[o] \in DOMAIN utxos[s] THEN Parent[o] ELSE None
  <1>1. /\ s \in Subgraph /\ s \in Range(runtimes) /\ o \in Output
        /\ \A b \in known[s] : Parent[o] \in Holds(b) => Parent[o] \in DOMAIN utxos[s]
    BY RecordFacts
  <1>2. PICK b \in known[s] : o \in Holds(b)
    BY RecordFacts
  <1>3. TypeInv /\ KnownInv
    BY DEF LInv
  <1>4. Inputs[o] \in Seq(Output) /\ None \notin DOMAIN utxos[s]
    BY <1>1, <1>3, LineageAssumption DEF TypeInv
  <1>5. DOMAIN Inputs[o] = 1 .. Len(Inputs[o]) /\ Len(Inputs[o]) \in Nat
    BY <1>4
  <1>6. CASE Parent[o] \in DOMAIN utxos[s]
    <2>1. Parent[o] = Inputs[o][1] /\ 1 \in DOMAIN Inputs[o]
      BY <1>1, <1>4, <1>6, ParentIsInput
    <2>2. 1 \in Tracked(s, o) /\ \A n \in Tracked(s, o) : n \in Nat /\ 1 <= n
      BY <1>5, <1>6, <2>1 DEF Tracked
    <2>3. Min(Tracked(s, o)) = 1
      BY <2>2 DEF Min
    <2> QED BY <1>6, <2>1, <2>2, <2>3 DEF ParentOf
  <1>7. CASE Parent[o] \notin DOMAIN utxos[s]
    <2>1. ASSUME NEW n \in Tracked(s, o) PROVE FALSE
      <3>1. n \in DOMAIN Inputs[o] /\ Inputs[o][n] \in DOMAIN utxos[s]
        BY <2>1 DEF Tracked
      <3>2. Inputs[o] # <<>>
        BY <1>5, <3>1
      <3>3. Parent[o] = Inputs[o][1] /\ Parent[o] \in Output /\ Parent[o] # None
        BY <1>1, <1>4, <3>2, LineageAssumption DEF Parent
      <3>4. CASE Merges(chain)
        <4>1. known[s] = Range(chain) /\ chain \in Chains \cup {<<>>}
          BY <1>1, <1>3, <3>4 DEF KnownInv
        <4>2. \E a \in Range(chain) : Parent[o] \in Holds(a)
          BY <1>2, <3>3, <4>1, ChainFacts
        <4> QED BY <1>1, <1>7, <4>1, <4>2
      <3>5. CASE ~Merges(chain)
        <4>1. ~(Len(Inputs[o]) > 1)
          BY <1>1, <1>2, <1>3, <3>5 DEF Merges, KnownInv, Holds
        <4>2. n = 1
          BY <1>5, <3>1, <4>1
        <4> QED BY <1>7, <3>1, <3>3, <4>2
      <3> QED BY <3>4, <3>5
    <2>2. Tracked(s, o) = {}
      BY <2>1
    <2> QED BY <1>7, <2>2 DEF ParentOf
  <1> QED BY <1>6, <1>7

\* The covenant the output gets, and what the runtimes before know of it.
LEMMA RecordCovenant ==
    ASSUME LInv, work # <<>>, NEW h, h = Head(work), ~h.unwind,
           NEW s, s = h.subgraph, NEW o, o = h.output, NEW c, c = CovenantOf(s, o)
    PROVE  /\ c \in Output
           /\ Parent[o] \in DOMAIN utxos[s] =>
                 /\ c \in DOMAIN utxos[s] /\ c = Cov(s, Parent[o]) /\ Cov(s, c) = c
                 /\ utxos[s][c].score <= utxos[s][Parent[o]].score
                 /\ utxos[s][Parent[o]].score \in Nat /\ utxos[s][c].score \in Nat
                 /\ Parent[c] \notin DOMAIN utxos[s]
           /\ Parent[o] \notin DOMAIN utxos[s] => c = o
           /\ \A t : Before(t, s) => \A q \in DOMAIN utxos[t] : Cov(t, q) = c => Cov(t, o) = c
  <1>1. TypeInv /\ KnownInv /\ WorkInv /\ TrackInv /\ CovenantInv /\ AgreeInv
    BY DEF LInv
  <1>2. /\ s \in Subgraph /\ o \in Output
        /\ \E b \in known[s] : o \in Holds(b)
        /\ Lasting(s) = DOMAIN utxos[s]
        /\ \A t : Before(t, s) => Lasting(t) = DOMAIN utxos[t] /\ o \in DOMAIN utxos[t]
    BY RecordFacts
  <1>13. /\ ParentOf(s, o) = IF Parent[o] \in DOMAIN utxos[s] THEN Parent[o] ELSE None
         /\ None \notin DOMAIN utxos[s]
    BY <1>1, <1>2, RecordParent, ConstantFacts DEF TypeInv
  <1>3. Parent[o] \notin DOMAIN utxos[s] => c = o
    BY <1>13 DEF CovenantOf
  <1>4. ASSUME Parent[o] \in DOMAIN utxos[s]
        PROVE  /\ c \in DOMAIN utxos[s] /\ c = Cov(s, Parent[o]) /\ Cov(s, c) = c
               /\ utxos[s][c].score <= utxos[s][Parent[o]].score
               /\ utxos[s][Parent[o]].score \in Nat /\ utxos[s][c].score \in Nat
               /\ Parent[c] \notin DOMAIN utxos[s]
    <2>1. c = Cov(s, Parent[o])
      BY <1>4, <1>13 DEF CovenantOf, Cov
    <2>2. /\ c \in DOMAIN utxos[s] /\ Cov(s, c) = c
          /\ utxos[s][c].score <= utxos[s][Parent[o]].score
          /\ Parent[c] \notin DOMAIN utxos[s]
      BY <1>1, <1>2, <1>4, <2>1 DEF CovenantInv
    <2>3. \A p \in DOMAIN utxos[s] : utxos[s][p].score \in Nat
      BY <1>1, <1>2 DEF TypeInv, Entry
    <2> QED BY <1>4, <2>1, <2>2, <2>3
  <1>5. c \in Output
    BY <1>1, <1>2, <1>3, <1>4 DEF TypeInv
  <1>6. ASSUME NEW t, Before(t, s), NEW q \in DOMAIN utxos[t], Cov(t, q) = c
        PROVE  Cov(t, o) = c
    <2>1. t \in Subgraph /\ q \in Lasting(t) /\ o \in DOMAIN utxos[t]
      BY <1>1, <1>2, <1>6, BeforeIsOrder
    <2>2. CASE Parent[o] \in DOMAIN utxos[s]
      <3>1. Parent[o] \in Lasting(s) /\ Cov(s, Parent[o]) = c
        BY <1>2, <1>4, <2>2
      <3>2. Cov(t, Parent[o]) = c
        BY <1>1, <1>2, <1>6, <2>1, <3>1 DEF AgreeInv
      <3>3. Parent[o] \in DOMAIN utxos[t]
        BY <1>1, <1>2, <1>6, <2>1, <3>1, TrackedBefore
      <3> QED BY <1>1, <2>1, <3>2, <3>3 DEF CovenantInv
    <2>3. CASE Parent[o] \notin DOMAIN utxos[s]
      <3>1. c = o BY <1>3, <2>3
      <3> QED BY <1>1, <1>6, <2>1, <3>1 DEF CovenantInv
    <2> QED BY <2>2, <2>3
  <1> QED BY <1>3, <1>4, <1>5, <1>6

\* A covenant with a head belongs to the runtime that meets the output, unless a row of the
\* output is there already; so a new row takes a number and an output no row has.
LEMMA RecordOwner ==
    ASSUME LInv, work # <<>>, NEW h, h = Head(work), ~h.unwind,
           NEW s, s = h.subgraph, NEW o, o = h.output, NEW c, c = CovenantOf(s, o),
           c \in DOMAIN head
    PROVE  /\ ~Before(s, head[c].subgraph)
           /\ head[c].subgraph = s \/ Recorded(s, c, o)
  <1>1. /\ TypeInv /\ KnownInv /\ WorkInv /\ TrackInv /\ CovenantInv
        /\ RowInv /\ HeadInv /\ OwnInv /\ StrandInv
    BY DEF LInv
  <1>2. /\ s \in Subgraph /\ s \in Range(runtimes) /\ o \in Output
        /\ Lasting(s) = DOMAIN utxos[s] /\ o \in Ahead(s)
        /\ \A t : Before(t, s) => Lasting(t) = DOMAIN utxos[t] /\ o \in DOMAIN utxos[t]
        /\ \A b \in known[s] : Parent[o] \in Holds(b) => Parent[o] \in DOMAIN utxos[s]
    BY RecordFacts
  <1>3. PICK b \in known[s] : o \in Holds(b)
    BY RecordFacts
  <1>4. /\ Parent[o] \in DOMAIN utxos[s] => c \in DOMAIN utxos[s] /\ Parent[c] \notin DOMAIN utxos[s]
        /\ Parent[o] \notin DOMAIN utxos[s] => c = o
        /\ \A t : Before(t, s) => \A q \in DOMAIN utxos[t] : Cov(t, q) = c => Cov(t, o) = c
    BY RecordCovenant
  <1>5. PICK w : w = head[c].subgraph
    OBVIOUS
  <1>6. PICK r \in rows : r.covenant = c
    BY <1>1 DEF HeadInv, HeadsStandOnRows
  <1>7. r.subgraph = w /\ w \in Range(runtimes) /\ r.output \in DOMAIN utxos[w] /\ Cov(w, r.output) = c
    BY <1>1, <1>5, <1>6 DEF RowInv
  <1>8. w = s \/ Before(w, s) \/ Before(s, w)
    BY <1>1, <1>2, <1>7, BeforeIsOrder
  <1>9. ASSUME Before(w, s) PROVE Recorded(s, c, o)
    <2>1. w \in Subgraph
      BY <1>1, <1>9, BeforeIsOrder
    <2>2. Cov(w, o) = c /\ o \in Lasting(w)
      BY <1>2, <1>4, <1>7, <1>9
    <2>3. \E q \in rows : q.covenant = c /\ q.output = o
      BY <1>1, <2>1, <2>2 DEF OwnInv
    <2> QED BY <2>3 DEF Recorded, RowsOf
  <1>10. ASSUME Before(s, w) PROVE FALSE
    <2>1. Parent[c] \in Output /\ \A a \in Range(chain) : Parent[c] \in Holds(a) => a \in known[s]
      BY <1>1, <1>2, <1>5, <1>10 DEF StrandInv
    <2>2. Parent[c] # None
      BY <2>1, ConstantFacts
    <2>3. chain \in Chains \cup {<<>>} /\ known[s] \subseteq Range(chain)
      BY <1>1, <1>2 DEF KnownInv
    <2>4. \A x \in Range(chain) : \A p \in Holds(x) :
             Parent[p] # None => \E a \in Range(chain) : Parent[p] \in Holds(a)
      BY <2>3, ChainFacts
    <2>5. CASE Parent[o] \in DOMAIN utxos[s]
      <3>1. c \in Lasting(s) /\ Parent[c] \notin DOMAIN utxos[s]
        BY <1>2, <1>4, <2>5
      <3>2. PICK x \in known[s] : c \in Holds(x)
        BY <1>1, <1>2, <3>1 DEF TrackInv
      <3>3. PICK a \in known[s] : Parent[c] \in Holds(a)
        BY <2>1, <2>2, <2>3, <2>4, <3>2
      <3>4. Parent[c] \in Lasting(s) \cup Ahead(s)
        BY <1>1, <1>2, <3>3 DEF TrackInv
      <3>5. Parent[c] \notin Ahead(s)
        BY <1>1, <1>2, <3>1 DEF TrackInv
      <3> QED BY <1>2, <3>1, <3>4, <3>5
    <2>6. CASE Parent[o] \notin DOMAIN utxos[s]
      <3>1. c = o
        BY <1>4, <2>6
      <3>2. PICK a \in known[s] : Parent[o] \in Holds(a)
        BY <1>3, <2>1, <2>2, <2>3, <2>4, <3>1
      <3> QED BY <1>2, <2>6, <3>2
    <2> QED BY <2>5, <2>6
  <1> QED BY <1>5, <1>8, <1>9, <1>10

\* The output joins the runtime's tracker.
LEMMA RecordTrackers ==
    ASSUME LInv, Record, work' = Tail(work), NEW h, h = Head(work),
           NEW s, s = h.subgraph, NEW o, o = h.output, NEW c, c = CovenantOf(s, o)
    PROVE  /\ DOMAIN utxos' = Subgraph
           /\ \A t \in Subgraph : t # s => utxos'[t] = utxos[t]
           /\ utxos'[s] = [p \in DOMAIN utxos[s] \cup {o} |->
                              IF p = o THEN [covenant |-> c, score |-> h.score] ELSE utxos[s][p]]
           /\ \A t : Cuts(t)' = Cuts(t)
           /\ \A t : t # s => Ahead(t)' = Ahead(t)
           /\ Ahead(s)' = Ahead(s) \ {o}
           /\ \A t \in Subgraph : t # s => Lasting(t)' = Lasting(t)
           /\ Lasting(s)' = DOMAIN utxos[s] \cup {o}
  <1>1. work # <<>> /\ ~h.unwind
    BY DEF Record
  <1>2. TypeInv /\ WorkInv
    BY DEF LInv
  <1>3. s \in Subgraph /\ Cuts(s) = {} /\ o \in Ahead(s)
    BY <1>1, RecordFacts
  <1>4. DOMAIN utxos = Subgraph
    BY <1>2 DEF TypeInv
  <1>5. utxos' = [utxos EXCEPT ![s] =
                    [p \in DOMAIN @ \cup {o} |->
                        IF p = o THEN [covenant |-> c, score |-> h.score] ELSE @[p]]]
    BY DEF Record
  <1>6. /\ DOMAIN utxos' = Subgraph
        /\ \A t \in Subgraph : t # s => utxos'[t] = utxos[t]
        /\ utxos'[s] = [p \in DOMAIN utxos[s] \cup {o} |->
                           IF p = o THEN [covenant |-> c, score |-> h.score] ELSE utxos[s][p]]
    BY <1>3, <1>4, <1>5
  <1>7. /\ h = work[1] /\ 1 \in DOMAIN work
        /\ \A k \in DOMAIN work' : k + 1 \in DOMAIN work /\ work'[k] = work[k + 1] /\ 1 < k + 1
        /\ \A t : Cuts(t) = Cuts(t)' \cup (IF h.subgraph = t /\ h.unwind THEN {h.score} ELSE {})
        /\ \A t : Ahead(t) = Ahead(t)' \cup (IF h.subgraph = t /\ ~h.unwind THEN {h.output} ELSE {})
    BY <1>1, <1>2, TailWork
  <1>8. \A t : Cuts(t)' = Cuts(t)
    BY <1>1, <1>7
  <1>9. \A t : t # s => Ahead(t)' = Ahead(t)
    BY <1>7
  <1>10. o \notin Ahead(s)'
    <2> SUFFICES ASSUME NEW k \in DOMAIN work', work'[k].subgraph = s, ~work'[k].unwind,
                        work'[k].output = o
                 PROVE  FALSE
      BY DEF Ahead
    <2>1. /\ k + 1 \in DOMAIN work /\ 1 < k + 1 /\ work[k + 1].subgraph = work[1].subgraph
          /\ ~work[1].unwind /\ work[1].output = work[k + 1].output
      BY <1>1, <1>7
    <2> QED BY <1>2, <1>7, <2>1 DEF WorkInv
  <1>11. Ahead(s)' = Ahead(s) \ {o}
    <2>1. Ahead(s) = Ahead(s)' \cup {o}
      BY <1>1, <1>7
    <2> QED BY <1>10, <2>1
  <1>12. Lasting(s)' = DOMAIN utxos[s] \cup {o}
    BY <1>3, <1>6, <1>8 DEF Lasting
  <1>13. ASSUME NEW t \in Subgraph, t # s PROVE Lasting(t)' = Lasting(t)
    <2>1. utxos'[t] = utxos[t] /\ Cuts(t)' = Cuts(t)
      BY <1>6, <1>8, <1>13
    <2> QED BY <2>1 DEF Lasting
  <1> QED BY <1>6, <1>8, <1>9, <1>11, <1>12, <1>13

LEMMA RecordTracks ==
    ASSUME LInv, Record, work' = Tail(work), NEW h, h = Head(work),
           NEW s, s = h.subgraph, NEW o, o = h.output, NEW c, c = CovenantOf(s, o)
    PROVE  /\ \A t \in Subgraph : DOMAIN utxos'[t] \subseteq Output /\ utxos'[t] \in [DOMAIN utxos'[t] -> Entry]
           /\ KnownInv' /\ WorkInv' /\ TrackInv' /\ CovenantInv' /\ AgreeInv'
  <1>1. work # <<>> /\ ~h.unwind /\ UNCHANGED <<chain, runtimes, known>>
    BY DEF Record
  <1>2. /\ DOMAIN utxos' = Subgraph
        /\ \A t \in Subgraph : t # s => utxos'[t] = utxos[t]
        /\ utxos'[s] = [p \in DOMAIN utxos[s] \cup {o} |->
                           IF p = o THEN [covenant |-> c, score |-> h.score] ELSE utxos[s][p]]
        /\ \A t : t # s => Ahead(t)' = Ahead(t)
        /\ Ahead(s)' = Ahead(s) \ {o}
        /\ \A t \in Subgraph : t # s => Lasting(t)' = Lasting(t)
        /\ Lasting(s)' = DOMAIN utxos[s] \cup {o}
    BY RecordTrackers
  <1>3. /\ h \in Item /\ s \in Subgraph /\ s \in Range(runtimes) /\ o \in Output
        /\ Lasting(s) = DOMAIN utxos[s]
        /\ o \in Ahead(s) /\ o \notin DOMAIN utxos[s] /\ Parent[o] # o
        /\ \A p \in DOMAIN utxos[s] : utxos[s][p].score <= h.score /\ Parent[p] # o
        /\ \A t : Before(t, s) => Lasting(t) = DOMAIN utxos[t] /\ o \in DOMAIN utxos[t]
    BY <1>1, RecordFacts
  <1>4. PICK b \in known[s] : o \in Holds(b) /\ h.score = DaaScore[b] /\ h.score \in Nat
    BY <1>1, RecordFacts
  <1>5. /\ c \in Output
        /\ Parent[o] \in DOMAIN utxos[s] =>
              /\ c \in DOMAIN utxos[s] /\ c = Cov(s, Parent[o]) /\ Cov(s, c) = c
              /\ utxos[s][c].score <= utxos[s][Parent[o]].score
              /\ utxos[s][Parent[o]].score \in Nat /\ utxos[s][c].score \in Nat
              /\ Parent[c] \notin DOMAIN utxos[s]
        /\ Parent[o] \notin DOMAIN utxos[s] => c = o
        /\ \A t : Before(t, s) => \A q \in DOMAIN utxos[t] : Cov(t, q) = c => Cov(t, o) = c
    BY <1>1, RecordCovenant, SMTT(30)
  <1>6. TypeInv /\ KnownInv /\ WorkInv /\ TrackInv /\ CovenantInv /\ AgreeInv
    BY DEF LInv
  <1>7. \A t, u : Before(t, u)' <=> Before(t, u)
    BY <1>1 DEF Before
  <1>8. /\ DOMAIN utxos'[s] = DOMAIN utxos[s] \cup {o}
        /\ utxos'[s][o].covenant = c /\ utxos'[s][o].score = h.score
        /\ \A p \in DOMAIN utxos[s] : utxos'[s][p] = utxos[s][p]
    BY <1>2, <1>3
  <1>9. ASSUME NEW t \in Subgraph
        PROVE  DOMAIN utxos'[t] \subseteq Output /\ utxos'[t] \in [DOMAIN utxos'[t] -> Entry]
    <2>1. DOMAIN utxos[t] \subseteq Output /\ utxos[t] \in [DOMAIN utxos[t] -> Entry]
      BY <1>6 DEF TypeInv
    <2>2. [covenant |-> c, score |-> h.score] \in Entry
      BY <1>4, <1>5 DEF Entry
    <2>3. CASE t = s
      BY <1>2, <1>3, <2>1, <2>2, <2>3
    <2>4. CASE t # s
      BY <1>2, <2>1, <2>4
    <2> QED BY <2>3, <2>4
  <1>10. WorkInv'
    BY <1>1, <1>6, WorkStep
  <1>11. KnownInv'
    BY <1>1, <1>2, <1>3, <1>6, <1>7 DEF KnownInv
  <1>12. TrackInv'
    <2>1. \A k \in DOMAIN work' : k + 1 \in DOMAIN work /\ work'[k] = work[k + 1] /\ 1 < k + 1
      BY <1>1, <1>6, TailWork
    <2>2. h = work[1] /\ 1 \in DOMAIN work
      BY <1>1, <1>6, TailWork
    <2>3. ASSUME NEW t \in Subgraph, NEW p \in Lasting(t)
          PROVE  /\ \E a \in known'[t] : p \in Holds(a) /\ utxos'[t][p].score = DaaScore[a]
                 /\ p \notin Ahead(t)' /\ Parent[p] \notin Ahead(t)'
                 /\ \A k \in DOMAIN work' :
                       work'[k].subgraph = t /\ ~work'[k].unwind => utxos'[t][p].score <= work'[k].score
      <3>1. /\ \E a \in known[t] : p \in Holds(a) /\ utxos[t][p].score = DaaScore[a]
            /\ p \notin Ahead(t) /\ Parent[p] \notin Ahead(t)
            /\ \A k \in DOMAIN work :
                  work[k].subgraph = t /\ ~work[k].unwind => utxos[t][p].score <= work[k].score
        BY <1>6, SMTT(30) DEF TrackInv
      <3>2. utxos'[t][p] = utxos[t][p]
        <4>1. CASE t = s
          BY <1>3, <1>8, <4>1
        <4>2. CASE t # s
          BY <1>2, <4>2
        <4> QED BY <4>1, <4>2
      <3>3. Ahead(t)' \subseteq Ahead(t)
        BY <1>2, SMTT(30)
      <3> QED BY <1>1, <2>1, <3>1, <3>2, <3>3
    <2>4. /\ \E a \in known'[s] : o \in Holds(a) /\ utxos'[s][o].score = DaaScore[a]
          /\ o \notin Ahead(s)' /\ Parent[o] \notin Ahead(s)'
          /\ \A k \in DOMAIN work' :
                work'[k].subgraph = s /\ ~work'[k].unwind => utxos'[s][o].score <= work'[k].score
      <3>1. ASSUME NEW k \in DOMAIN work', work'[k].subgraph = s, ~work'[k].unwind
            PROVE  h.score <= work'[k].score /\ Parent[o] # work'[k].output
        <4>1. /\ k + 1 \in DOMAIN work /\ 1 < k + 1 /\ work[k + 1].subgraph = work[1].subgraph
              /\ ~work[1].unwind
          BY <1>1, <2>1, <2>2, <3>1
        <4>2. work[1].score <= work[k + 1].score /\ Parent[work[1].output] # work[k + 1].output
          BY <1>6, <2>2, <4>1 DEF WorkInv
        <4> QED BY <2>1, <2>2, <4>2
      <3>2. Parent[o] \notin Ahead(s)'
        BY <3>1 DEF Ahead
      <3>3. b \in known'[s]
        BY <1>1
      <3> QED BY <1>2, <1>4, <1>8, <3>1, <3>2, <3>3, ZenonT(60)
    <2>5. \A t \in Subgraph : \A a \in known'[t] : Holds(a) \subseteq Lasting(t)' \cup Ahead(t)'
      <3> SUFFICES ASSUME NEW t \in Subgraph, NEW a \in known[t]
                   PROVE  Holds(a) \subseteq Lasting(t)' \cup Ahead(t)'
        BY <1>1
      <3>1. Holds(a) \subseteq Lasting(t) \cup Ahead(t)
        BY <1>6 DEF TrackInv
      <3>2. CASE t = s
        BY <1>2, <1>3, <3>1, <3>2
      <3>3. CASE t # s
        BY <1>2, <3>1, <3>3
      <3> QED BY <3>2, <3>3
    <2>6. \A t \in Subgraph : Lasting(t)' \subseteq Lasting(t) \cup (IF t = s THEN {o} ELSE {})
      BY <1>2, <1>3
    <2> QED BY <2>3, <2>4, <2>5, <2>6 DEF TrackInv
  <1>13. CovenantInv'
    <2>1. ASSUME NEW p \in DOMAIN utxos[s]
          PROVE  /\ Cov(s, p)' \in DOMAIN utxos'[s]
                 /\ utxos'[s][utxos'[s][p].covenant].covenant = utxos'[s][p].covenant
                 /\ utxos'[s][utxos'[s][p].covenant].score <= utxos'[s][p].score
                 /\ Parent[Cov(s, p)'] \notin DOMAIN utxos'[s]
                 /\ Parent[p] \in DOMAIN utxos'[s] =>
                       /\ utxos'[s][Parent[p]].covenant = utxos'[s][p].covenant
                       /\ utxos'[s][Parent[p]].score <= utxos'[s][p].score
                 /\ Parent[p] \notin DOMAIN utxos'[s] => Cov(s, p)' = p
      <3>1. PICK d : d = utxos[s][p].covenant
        OBVIOUS
      <3>2. /\ d \in DOMAIN utxos[s] /\ utxos[s][d].covenant = d
            /\ utxos[s][d].score <= utxos[s][p].score
            /\ Parent[d] \notin DOMAIN utxos[s]
            /\ Parent[p] \in DOMAIN utxos[s] =>
                  utxos[s][Parent[p]].covenant = d /\ utxos[s][Parent[p]].score <= utxos[s][p].score
            /\ Parent[p] \notin DOMAIN utxos[s] => d = p
        BY <1>3, <1>6, <3>1, SMTT(30) DEF CovenantInv, Cov
      <3>3. Parent[p] # o /\ Parent[d] # o
        BY <1>3, <3>2, SMTT(30)
      <3>4. utxos'[s][p] = utxos[s][p] /\ utxos'[s][d] = utxos[s][d] /\ Cov(s, p)' = d
        BY <1>8, <3>1, <3>2 DEF Cov
      <3>5. Parent[p] \in DOMAIN utxos'[s] <=> Parent[p] \in DOMAIN utxos[s]
        BY <1>8, <3>3
      <3>6. Parent[p] \in DOMAIN utxos[s] => utxos'[s][Parent[p]] = utxos[s][Parent[p]]
        BY <1>8
      <3>7. d \in DOMAIN utxos'[s] /\ Parent[d] \notin DOMAIN utxos'[s]
        BY <1>8, <3>2, <3>3
      <3>8. utxos'[s][p].covenant = d
        BY <3>1, <3>4, SMTT(30)
      <3> QED BY <3>2, <3>4, <3>5, <3>6, <3>7, <3>8
    <2>2. /\ Cov(s, o)' \in DOMAIN utxos'[s]
          /\ utxos'[s][utxos'[s][o].covenant].covenant = utxos'[s][o].covenant
          /\ utxos'[s][utxos'[s][o].covenant].score <= utxos'[s][o].score
          /\ Parent[Cov(s, o)'] \notin DOMAIN utxos'[s]
          /\ Parent[o] \in DOMAIN utxos'[s] =>
                /\ utxos'[s][Parent[o]].covenant = utxos'[s][o].covenant
                /\ utxos'[s][Parent[o]].score <= utxos'[s][o].score
          /\ Parent[o] \notin DOMAIN utxos'[s] => Cov(s, o)' = o
      <3>1. Cov(s, o)' = c
        BY <1>8 DEF Cov
      <3>2. Parent[o] \in DOMAIN utxos'[s] <=> Parent[o] \in DOMAIN utxos[s]
        BY <1>3, <1>8, SMTT(30)
      <3>3. CASE Parent[o] \in DOMAIN utxos[s]
        <4>1. /\ c \in DOMAIN utxos[s] /\ c = utxos[s][Parent[o]].covenant /\ utxos[s][c].covenant = c
              /\ utxos[s][c].score <= utxos[s][Parent[o]].score
              /\ utxos[s][Parent[o]].score \in Nat /\ utxos[s][c].score \in Nat
              /\ Parent[c] \notin DOMAIN utxos[s]
          BY <1>5, <3>3, SMTT(30) DEF Cov
        <4>2. utxos'[s][c] = utxos[s][c] /\ utxos'[s][Parent[o]] = utxos[s][Parent[o]]
          BY <1>8, <3>3, <4>1
        <4>3. utxos[s][Parent[o]].score <= h.score /\ Parent[c] # o
          BY <1>3, <3>3, <4>1
        <4>4. utxos[s][c].score <= h.score
          BY <1>4, <4>1, <4>3, SMTT(30)
        <4>5. Parent[c] \notin DOMAIN utxos'[s]
          BY <1>8, <4>1, <4>3
        <4> QED BY <1>8, <3>1, <3>2, <3>3, <4>1, <4>2, <4>3, <4>4, <4>5, SMTT(30)
      <3>4. CASE Parent[o] \notin DOMAIN utxos[s]
        <4>1. c = o BY <1>5, <3>4
        <4> QED BY <1>4, <1>8, <3>1, <3>2, <3>4, <4>1
      <3> QED BY <3>3, <3>4, ZenonT(60)
    <2>3. ASSUME NEW t \in Subgraph, NEW p \in DOMAIN utxos'[t]
          PROVE  /\ Cov(t, p)' \in DOMAIN utxos'[t]
                 /\ utxos'[t][utxos'[t][p].covenant].covenant = utxos'[t][p].covenant
                 /\ utxos'[t][utxos'[t][p].covenant].score <= utxos'[t][p].score
                 /\ Parent[Cov(t, p)'] \notin DOMAIN utxos'[t]
                 /\ Parent[p] \in DOMAIN utxos'[t] =>
                       /\ utxos'[t][Parent[p]].covenant = utxos'[t][p].covenant
                       /\ utxos'[t][Parent[p]].score <= utxos'[t][p].score
                 /\ Parent[p] \notin DOMAIN utxos'[t] => Cov(t, p)' = p
      <3>1. CASE t = s
        <4>1. p = o \/ p \in DOMAIN utxos[s]
          BY <1>8, <3>1
        <4> QED BY <2>1, <2>2, <3>1, <4>1, ZenonT(60)
      <3>2. CASE t # s
        BY <1>2, <1>6, <3>2 DEF CovenantInv, Cov
      <3> QED BY <3>1, <3>2, SMTT(30)
    <2> QED BY <2>3 DEF CovenantInv, Cov
  <1>14. AgreeInv'
    <2>1. ASSUME NEW t \in Subgraph, NEW u \in Subgraph, Before(t, u),
                 NEW p \in Lasting(u)', NEW q \in Lasting(t)', Cov(t, q)' = Cov(u, p)'
          PROVE  utxos'[t][p].covenant = utxos'[u][p].covenant
      <3>1. t # u
        BY <1>6, <2>1, BeforeIsOrder
      <3>2. CASE u = s
        <4>1. t # s /\ utxos'[t] = utxos[t] /\ q \in Lasting(t) /\ q \in DOMAIN utxos[t]
          BY <1>2, <1>3, <2>1, <3>1, <3>2
        <4>2. CASE p = o
          <5>1. Cov(t, q) = c
            BY <1>8, <2>1, <3>2, <4>1, <4>2 DEF Cov
          <5>2. Cov(t, o) = c
            BY <1>5, <2>1, <3>2, <4>1, <5>1
          <5> QED BY <1>8, <3>2, <4>1, <4>2, <5>2 DEF Cov
        <4>3. CASE p # o
          <5>1. p \in Lasting(s) /\ utxos'[s][p] = utxos[s][p]
            BY <1>2, <1>3, <1>8, <2>1, <3>2, <4>3, ZenonT(60)
          <5>2. Cov(t, q) = Cov(s, p)
            BY <2>1, <3>2, <4>1, <5>1 DEF Cov
          <5>3. Cov(t, p) = Cov(s, p)
            BY <1>3, <1>6, <2>1, <3>2, <4>1, <5>1, <5>2 DEF AgreeInv
          <5> QED BY <3>2, <4>1, <5>1, <5>3 DEF Cov
        <4> QED BY <4>2, <4>3
      <3>3. CASE t = s
        <4>1. u # s /\ utxos'[u] = utxos[u] /\ p \in Lasting(u) /\ p \in DOMAIN utxos[u]
          <5>1. u # s BY <3>1, <3>3
          <5>2. Lasting(u)' = Lasting(u) BY <1>2, <5>1
          <5>3. p \in Lasting(u) BY <5>2
          <5> QED BY <1>2, <5>1, <5>3 DEF Lasting
        <4>2. o \in Ahead(u) /\ o \notin Lasting(u)
          BY <1>3, <1>6, <2>1, <3>3 DEF WorkInv, TrackInv
        <4>3. p \in Lasting(s) /\ p # o
          BY <1>6, <2>1, <3>3, <4>1, <4>2, TrackedBefore
        <4>4. utxos'[s][p] = utxos[s][p]
          BY <1>3, <1>8, <4>3
        <4>5. CASE q = o
          <5>1. Cov(u, p) = c
            BY <1>8, <2>1, <3>3, <4>1, <4>5 DEF Cov
          <5>2. CASE Parent[o] \in DOMAIN utxos[s]
            <6>1. Cov(s, Parent[o]) = c /\ Parent[o] \in Lasting(s)
              BY <1>3, <1>5, <5>2
            <6>2. Cov(s, p) = Cov(u, p)
              BY <1>3, <1>6, <2>1, <3>3, <4>1, <5>1, <6>1 DEF AgreeInv
            <6> QED BY <3>3, <4>1, <4>4, <6>2 DEF Cov
          <5>3. CASE Parent[o] \notin DOMAIN utxos[s]
            <6>1. c = o
              BY <1>5, <5>3
            <6>2. /\ o \in DOMAIN utxos[u] /\ utxos[u][o].score <= utxos[u][p].score
              BY <1>6, <4>1, <5>1, <6>1 DEF CovenantInv
            <6>3. utxos[u][o].score \in Nat /\ utxos[u][p].score \in Nat
              BY <1>6, <4>1, <6>2 DEF TypeInv, Entry
            <6>4. \A x \in Cuts(u) : x \in Nat /\ utxos[u][p].score < x
              <7>1. \A k \in DOMAIN work : work[k] \in Item
                <8>1. work \in Seq(Item) BY <1>6 DEF TypeInv
                <8> HIDE DEF Item
                <8> QED BY <8>1
              <7>2. \A k \in DOMAIN work : work[k].score \in Nat
                BY <7>1 DEF Item
              <7>3. Cuts(u) \subseteq Nat
                BY <7>2 DEF Cuts
              <7> QED BY <4>1, <7>3 DEF Lasting
            <6>5. o \in Lasting(u)
              BY <6>2, <6>3, <6>4, SMTT(30) DEF Lasting
            <6> QED BY <4>2, <6>5
          <5> QED BY <5>2, <5>3
        <4>6. CASE q # o
          <5>1. q \in Lasting(s) /\ utxos'[s][q] = utxos[s][q]
            BY <1>2, <1>3, <1>8, <2>1, <3>3, <4>6, ZenonT(60)
          <5>2. Cov(s, q) = Cov(u, p)
            BY <2>1, <3>3, <4>1, <5>1 DEF Cov
          <5>3. Cov(s, p) = Cov(u, p)
            BY <1>3, <1>6, <2>1, <3>3, <4>1, <5>1, <5>2 DEF AgreeInv
          <5> QED BY <3>3, <4>1, <4>4, <5>3 DEF Cov
        <4> QED BY <4>5, <4>6
      <3>4. CASE t # s /\ u # s
        BY <1>2, <1>6, <2>1, <3>4 DEF AgreeInv, Cov
      <3> QED BY <3>2, <3>3, <3>4
    <2> QED BY <1>7, <2>1 DEF AgreeInv, Cov
  <1> QED BY <1>9, <1>10, <1>11, <1>12, <1>13, <1>14

\* The row of an output that has none yet.
NewRow(s, o, score) ==
    [covenant |-> CovenantOf(s, o), subgraph |-> s, seq |-> NextSeq(CovenantOf(s, o)), output |-> o,
     parent |-> IF Parent[o] \in DOMAIN utxos[s] THEN Parent[o] ELSE None, score |-> score]

\* The row is added and is the head of its covenant, which is the runtime's.
AddsRow(s, c, row) ==
    /\ head' = [d \in DOMAIN head \cup {c} |-> IF d = c THEN HeadAt(s, row) ELSE head[d]]
    /\ rows' = rows \cup {row}

\* The output has a row in its covenant, or nothing stands in the way of one.
LEMMA RecordOutcome ==
    ASSUME LInv, Record, NEW h, h = Head(work),
           NEW s, s = h.subgraph, NEW o, o = h.output, NEW c, c = CovenantOf(s, o),
           NEW row, row = NewRow(s, o, h.score)
    PROVE  /\ work' = Tail(work) /\ ~stopped'
           /\ \/ /\ \E r \in rows : r.covenant = c /\ r.output = o
                 /\ UNCHANGED <<head, rows>>
              \/ /\ c \in DOMAIN head => head[c].subgraph = s
                 /\ ~\E r \in rows : r.covenant = c /\ r.output = o
                 /\ ~\E r \in rows : r.covenant = c /\ r.seq = NextSeq(c)
                 /\ AddsRow(s, c, row)
  <1>1. work # <<>> /\ ~h.unwind /\ ~stopped
    BY DEF Record
  <1>2. CASE Recorded(s, c, o)
    <2>1. work' = Tail(work) /\ UNCHANGED <<head, rows>> /\ ~stopped'
      BY <1>1, <1>2 DEF Record
    <2> QED BY <1>2, <2>1 DEF Recorded, RowsOf
  <1>3. CASE ~Recorded(s, c, o)
    <2>1. HeadInv /\ rows \subseteq Row
      BY DEF LInv, TypeInv
    <2>2. c \in DOMAIN head => head[c].subgraph = s
      BY <1>1, <1>3, RecordOwner
    <2>3. ~\E r \in rows : r.covenant = c /\ r.output = o
      BY <1>3 DEF Recorded, RowsOf
    <2>4. ~\E r \in rows : r.covenant = c /\ r.seq = NextSeq(c)
      <3>1. CASE c \in DOMAIN head
        <4>1. {r.seq : r \in RowsOf(c)} = 0 .. head[c].count - 1
          BY <2>1, <3>1 DEF HeadInv, HeadsStandOnRows
        <4>2. PICK q \in RowsOf(c) : head[c] = HeadAt(head[c].subgraph, q)
          BY <2>1, <3>1 DEF HeadInv, HeadsStandOnRows
        <4>3. head[c].count \in Nat /\ NextSeq(c) = head[c].count
          BY <2>1, <3>1, <4>2 DEF HeadAt, RowsOf, Row, NextSeq
        <4> QED BY <4>1, <4>3 DEF RowsOf
      <3>2. CASE c \notin DOMAIN head
        BY <2>1, <3>2 DEF HeadInv, HeadsStandOnRows
      <3> QED BY <3>1, <3>2
    <2>5. row = [covenant |-> c, subgraph |-> s, seq |-> NextSeq(c), output |-> o,
                 parent |-> IF Parent[o] \in DOMAIN utxos[s] THEN Parent[o] ELSE None,
                 score |-> h.score]
      BY DEF NewRow
    <2>6. ~\E r \in RowsOf(c) : r.seq = row.seq \/ r.output = o
      BY <2>3, <2>4, <2>5 DEF RowsOf
    <2>7. PICK w : w = IF c \in DOMAIN head THEN head[c].subgraph ELSE s
      BY SMTT(30)
    <2>12. ParentOf(s, o) = IF Parent[o] \in DOMAIN utxos[s] THEN Parent[o] ELSE None
      BY <1>1, RecordParent
    <2>8. /\ head' = [d \in DOMAIN head \cup {c} |->
                         IF d = c THEN HeadAt(w, row) ELSE head[d]]
          /\ rows' = rows \cup {row} /\ stopped' = FALSE /\ work' = Tail(work)
      BY <1>3, <2>5, <2>6, <2>7, <2>12 DEF Record
    <2>9. w = s
      BY <2>2, <2>7
    <2>10. head' = [d \in DOMAIN head \cup {c} |-> IF d = c THEN HeadAt(s, row) ELSE head[d]]
      BY <2>8, <2>9
    <2>11. AddsRow(s, c, row)
      BY <2>8, <2>10 DEF AddsRow
    <2> QED BY <2>2, <2>3, <2>4, <2>8, <2>11
  <1> QED BY <1>2, <1>3

\* The runtimes before the one that opens a covenant know the output its opening consumes.
LEMMA RecordOpens ==
    ASSUME LInv, work # <<>>, NEW h, h = Head(work), ~h.unwind,
           NEW s, s = h.subgraph, NEW o, o = h.output, NEW c, c = CovenantOf(s, o),
           c \notin DOMAIN head, NEW t \in Subgraph, Before(t, s)
    PROVE  /\ Parent[c] \in Output
           /\ \A b \in Range(chain) : Parent[c] \in Holds(b) => b \in known[t]
  <1>1. /\ TypeInv /\ KnownInv /\ TrackInv /\ CovenantInv /\ HeadInv /\ OwnInv
    BY DEF LInv
  <1>2. /\ s \in Subgraph /\ Lasting(s) = DOMAIN utxos[s]
        /\ Lasting(t) = DOMAIN utxos[t] /\ o \in DOMAIN utxos[t]
    BY RecordFacts
  <1>3. ~\E r \in rows : r.covenant = c
    BY <1>1 DEF HeadInv, HeadsStandOnRows
  <1>4. Parent[o] \notin DOMAIN utxos[s] /\ c = o
    <2>1. Parent[o] \in DOMAIN utxos[s] => c = Cov(s, Parent[o])
      BY RecordCovenant
    <2>2. Parent[o] \notin DOMAIN utxos[s]
      BY <1>1, <1>2, <1>3, <2>1 DEF OwnInv
    <2> QED BY <2>2, RecordCovenant
  <1>5. Cov(t, o) # o
    BY <1>1, <1>2, <1>3, <1>4 DEF OwnInv
  <1>6. Parent[o] \in DOMAIN utxos[t]
    BY <1>1, <1>2, <1>5 DEF CovenantInv
  <1>7. PICK a \in known[t] : Parent[o] \in Holds(a)
    BY <1>1, <1>2, <1>6 DEF TrackInv
  <1>8. ASSUME NEW b \in Range(chain), Parent[o] \in Holds(b) PROVE b = a
    BY <1>1, <1>7, <1>8, ChainFacts DEF KnownInv
  <1> QED BY <1>1, <1>4, <1>6, <1>7, <1>8 DEF TypeInv

\* Heads and rows when a row is added; the runtime's own rows are the covenant's only ones.
LEMMA RecordNewRow ==
    ASSUME LInv, Record, NEW h, h = Head(work),
           NEW s, s = h.subgraph, NEW o, o = h.output, NEW c, c = CovenantOf(s, o),
           NEW row, row = NewRow(s, o, h.score),
           c \in DOMAIN head => head[c].subgraph = s,
           ~\E r \in rows : r.covenant = c /\ r.output = o,
           ~\E r \in rows : r.covenant = c /\ r.seq = NextSeq(c),
           AddsRow(s, c, row)
    PROVE  rows' \subseteq Row /\ HeadInv' /\ EdgeInv'
  <1> USE DEF AddsRow
  <1>1. work # <<>> /\ ~h.unwind
    BY DEF Record
  <1>2. TypeInv /\ TrackInv /\ RowInv /\ HeadInv /\ OwnInv /\ EdgeInv
    BY DEF LInv
  <1>3. /\ s \in Subgraph /\ o \in Output /\ h.score \in Nat
        /\ Lasting(s) = DOMAIN utxos[s]
        /\ \A p \in DOMAIN utxos[s] : utxos[s][p].score <= h.score
    BY <1>1, RecordFacts
  <1>4. /\ c \in Output
        /\ Parent[o] \in DOMAIN utxos[s] => c = Cov(s, Parent[o])
    BY <1>1, RecordCovenant
  <1>5. /\ {r.covenant : r \in rows} = DOMAIN head
        /\ \A d \in DOMAIN head :
              /\ {r.seq : r \in RowsOf(d)} = 0 .. head[d].count - 1
              /\ \E r \in RowsOf(d) : head[d] = HeadAt(head[d].subgraph, r)
    BY <1>2 DEF HeadInv, HeadsStandOnRows
  <1>6. PICK n : n = NextSeq(c)
    OBVIOUS
  <1>7. n \in Nat /\ {r.seq : r \in RowsOf(c)} = 0 .. n - 1
    <2>1. CASE c \in DOMAIN head
      <3>1. PICK q \in RowsOf(c) : head[c] = HeadAt(head[c].subgraph, q)
        BY <1>5, <2>1
      <3>2. n = head[c].count /\ n \in Nat
        BY <1>2, <1>6, <2>1, <3>1 DEF HeadAt, RowsOf, TypeInv, Row, NextSeq
      <3> QED BY <1>5, <2>1, <3>2
    <2>2. CASE c \notin DOMAIN head
      <3>1. n = 0 /\ RowsOf(c) = {}
        BY <1>5, <1>6, <2>2 DEF NextSeq, RowsOf
      <3> QED BY <3>1
    <2> QED BY <2>1, <2>2
  <1>8. /\ row.covenant = c /\ row.subgraph = s /\ row.seq = n /\ row.output = o
        /\ row.parent = (IF Parent[o] \in DOMAIN utxos[s] THEN Parent[o] ELSE None)
        /\ row.score = h.score
    BY <1>6 DEF NewRow
  <1>9. rows' \subseteq Row
    <2>1. row.parent \in Output \cup {None}
      BY <1>2, <1>3, <1>8 DEF TypeInv
    <2>2. row \in Row
      BY <1>3, <1>4, <1>6, <1>7, <2>1 DEF NewRow, Row
    <2> QED BY <1>2, <2>2 DEF TypeInv
  <1>10. \A r \in rows : r.covenant = c =>
            r.seq \in Nat /\ r.seq < n /\ r.output # o /\ r.score \in Nat /\ r.score <= h.score
    <2> SUFFICES ASSUME NEW r \in rows, r.covenant = c
                 PROVE  r.seq \in Nat /\ r.seq < n /\ r.output # o /\ r.score \in Nat /\ r.score <= h.score
      OBVIOUS
    <2>1. r.seq \in 0 .. n - 1
      BY <1>7 DEF RowsOf
    <2>2. r.subgraph = s /\ r.output \in DOMAIN utxos[s] /\ utxos[s][r.output].score = r.score
      BY <1>2 DEF RowInv
    <2>3. r.score \in Nat
      BY <1>2 DEF TypeInv, Row
    <2> QED BY <1>3, <1>7, <2>1, <2>2, <2>3
  <1>11. HeadsStandOnRows'
    <2>1. {r.covenant : r \in rows'} = DOMAIN head'
      BY <1>5, <1>8
    <2>2. ASSUME NEW d \in DOMAIN head', d # c
          PROVE  /\ {r.seq : r \in RowsOf(d)'} = 0 .. head'[d].count - 1
                 /\ \E r \in RowsOf(d)' : head'[d] = HeadAt(head'[d].subgraph, r)
      <3>1. d \in DOMAIN head /\ head'[d] = head[d]
        BY <2>2
      <3>2. RowsOf(d)' = RowsOf(d)
        BY <1>8, <2>2 DEF RowsOf
      <3> QED BY <1>5, <3>1, <3>2
    <2>3. /\ {r.seq : r \in RowsOf(c)'} = 0 .. head'[c].count - 1
          /\ \E r \in RowsOf(c)' : head'[c] = HeadAt(head'[c].subgraph, r)
      <3>1. RowsOf(c)' = RowsOf(c) \cup {row}
        BY <1>8 DEF RowsOf
      <3>2. head'[c] = HeadAt(s, row)
        OBVIOUS
      <3>3. head'[c].count = n + 1 /\ head'[c].subgraph = s
        BY <1>8, <3>2 DEF HeadAt
      <3>4. {r.seq : r \in RowsOf(c)'} = {r.seq : r \in RowsOf(c)} \cup {n}
        BY <1>8, <3>1
      <3>5. 0 .. (n + 1) - 1 = (0 .. n - 1) \cup {n}
        BY <1>7, SMTT(30)
      <3> QED BY <1>7, <3>1, <3>2, <3>3, <3>4, <3>5
    <2>4. \A d \in DOMAIN head' :
             /\ {r.seq : r \in RowsOf(d)'} = 0 .. head'[d].count - 1
             /\ \E r \in RowsOf(d)' : head'[d] = HeadAt(head'[d].subgraph, r)
      <3> SUFFICES ASSUME NEW d \in DOMAIN head'
                   PROVE  /\ {r.seq : r \in RowsOf(d)'} = 0 .. head'[d].count - 1
                          /\ \E r \in RowsOf(d)' : head'[d] = HeadAt(head'[d].subgraph, r)
        OBVIOUS
      <3>1. CASE d = c
        BY <2>3, <3>1
      <3>2. CASE d # c
        BY <2>2, <3>2
      <3> QED BY <3>1, <3>2
    <2> QED BY <2>1, <2>4, Zenon DEF HeadsStandOnRows
  <1>12. \A r, q \in rows' : r.covenant = q.covenant =>
            /\ r.seq = q.seq \/ r.output = q.output => r = q
            /\ r.seq < q.seq => r.score <= q.score
    <2> SUFFICES ASSUME NEW r \in rows', NEW q \in rows', r.covenant = q.covenant
                 PROVE  /\ r.seq = q.seq \/ r.output = q.output => r = q
                        /\ r.seq < q.seq => r.score <= q.score
      OBVIOUS
    <2>1. CASE r \in rows /\ q \in rows
      BY <1>2, <2>1 DEF HeadInv
    <2>2. CASE r = row /\ q \in rows
      <3>1. q.seq \in Nat /\ q.seq < n /\ q.output # o
        BY <1>8, <1>10, <2>2
      <3> QED BY <1>7, <1>8, <2>2, <3>1
    <2>3. CASE r \in rows /\ q = row
      <3>1. r.seq \in Nat /\ r.seq < n /\ r.output # o /\ r.score <= h.score
        BY <1>8, <1>10, <2>3
      <3> QED BY <1>7, <1>8, <2>3, <3>1
    <2>4. CASE r = row /\ q = row
      BY <1>7, <1>8, <2>4
    <2> QED BY <2>1, <2>2, <2>3, <2>4
  <1>13. EdgeInv'
    <2>1. ASSUME NEW r \in rows', r.parent # None
          PROVE  \E q \in rows' : q.covenant = r.covenant /\ q.output = r.parent /\ q.seq < r.seq
      <3>1. CASE r \in rows
        BY <1>2, <2>1, <3>1 DEF EdgeInv
      <3>2. CASE r = row
        <4>1. Parent[o] \in DOMAIN utxos[s] /\ r.parent = Parent[o]
          BY <1>8, <2>1, <3>2
        <4>2. PICK q \in rows : q.covenant = c /\ q.output = Parent[o]
          BY <1>2, <1>3, <1>4, <4>1 DEF OwnInv
        <4>3. q.seq < n
          BY <1>10, <4>2
        <4> QED BY <1>8, <3>2, <4>1, <4>2, <4>3
      <3> QED BY <3>1, <3>2
    <2> QED BY <2>1 DEF EdgeInv
  <1> QED BY <1>9, <1>11, <1>12, <1>13 DEF HeadInv

LEMMA RecordStep ==
    ASSUME LInv, Record
    PROVE  LInv'
  <1>1. PICK h : h = Head(work) OBVIOUS
  <1>2. PICK s : s = h.subgraph OBVIOUS
  <1>3. PICK o : o = h.output OBVIOUS
  <1>4. PICK c : c = CovenantOf(s, o) OBVIOUS
  <1>5. PICK row : row = NewRow(s, o, h.score) OBVIOUS
  <1>6. work # <<>> /\ ~h.unwind /\ UNCHANGED <<chain, runtimes, known>>
    BY <1>1 DEF Record
  <1>7. /\ work' = Tail(work) /\ ~stopped'
        /\ \/ /\ \E r \in rows : r.covenant = c /\ r.output = o
              /\ UNCHANGED <<head, rows>>
           \/ /\ c \in DOMAIN head => head[c].subgraph = s
              /\ ~\E r \in rows : r.covenant = c /\ r.output = o
              /\ ~\E r \in rows : r.covenant = c /\ r.seq = NextSeq(c)
              /\ head' = [d \in DOMAIN head \cup {c} |-> IF d = c THEN HeadAt(s, row) ELSE head[d]]
              /\ rows' = rows \cup {row}
    <2>1. /\ work' = Tail(work) /\ ~stopped'
          /\ \/ /\ \E r \in rows : r.covenant = c /\ r.output = o
                /\ UNCHANGED <<head, rows>>
             \/ /\ c \in DOMAIN head => head[c].subgraph = s
                /\ ~\E r \in rows : r.covenant = c /\ r.output = o
                /\ ~\E r \in rows : r.covenant = c /\ r.seq = NextSeq(c)
                /\ AddsRow(s, c, row)
      BY <1>1, <1>2, <1>3, <1>4, <1>5, RecordOutcome
    <2> QED BY <2>1 DEF AddsRow
  <1>8. /\ TypeInv /\ KnownInv /\ WorkInv /\ TrackInv /\ RowInv /\ HeadInv
        /\ OwnInv /\ StrandInv /\ EdgeInv
    BY DEF LInv
  <1>9. /\ DOMAIN utxos' = Subgraph
        /\ \A t \in Subgraph : t # s => utxos'[t] = utxos[t]
        /\ utxos'[s] = [p \in DOMAIN utxos[s] \cup {o} |->
                           IF p = o THEN [covenant |-> c, score |-> h.score] ELSE utxos[s][p]]
        /\ \A t \in Subgraph : t # s => Lasting(t)' = Lasting(t)
        /\ Lasting(s)' = DOMAIN utxos[s] \cup {o}
    BY <1>1, <1>2, <1>3, <1>4, <1>7, RecordTrackers
  <1>10. /\ \A t \in Subgraph : DOMAIN utxos'[t] \subseteq Output /\ utxos'[t] \in [DOMAIN utxos'[t] -> Entry]
         /\ KnownInv' /\ WorkInv' /\ TrackInv' /\ CovenantInv' /\ AgreeInv'
    BY <1>1, <1>2, <1>3, <1>4, <1>7, RecordTracks
  <1>11. /\ s \in Subgraph /\ s \in Range(runtimes)
         /\ Lasting(s) = DOMAIN utxos[s] /\ o \notin DOMAIN utxos[s]
    BY <1>1, <1>2, <1>3, <1>6, RecordFacts
  <1>12. rows' \subseteq Row /\ HeadInv' /\ EdgeInv'
    <2>1. CASE UNCHANGED <<head, rows>>
      <3>1. \A d : RowsOf(d)' = RowsOf(d)
        BY <2>1 DEF RowsOf
      <3> QED BY <1>8, <2>1, <3>1 DEF TypeInv, HeadInv, HeadsStandOnRows, EdgeInv
    <2>2. CASE ~UNCHANGED <<head, rows>>
      BY <1>1, <1>2, <1>3, <1>4, <1>5, <1>7, <2>2, RecordNewRow DEF AddsRow
    <2> QED BY <2>1, <2>2
  <1>13. /\ row.covenant = c /\ row.subgraph = s /\ row.output = o /\ row.score = h.score
    BY <1>4, <1>5 DEF NewRow
  <1>14. \A q : HeadAt(s, q).subgraph = s
    BY DEF HeadAt
  <1>15. /\ rows \subseteq rows' /\ \A r \in rows' : r \in rows \/ r = row
         /\ DOMAIN head \subseteq DOMAIN head'
         /\ \A d \in DOMAIN head : head'[d].subgraph = head[d].subgraph
         /\ \A d \in DOMAIN head' : d \in DOMAIN head \/ (d = c /\ c \notin DOMAIN head)
         /\ c \notin DOMAIN head => c \in DOMAIN head' /\ head'[c].subgraph = s
         /\ \E r \in rows' : r.covenant = c /\ r.output = o
         /\ row \in rows' /\ row \notin rows => c \in DOMAIN head' /\ head'[c].subgraph = s
    <2>1. CASE UNCHANGED <<head, rows>>
      <3>1. \E r \in rows : r.covenant = c /\ r.output = o
        <4> SUFFICES ASSUME rows' = rows \cup {row} PROVE \E r \in rows : r.covenant = c /\ r.output = o
          BY <1>7
        <4> QED BY <1>13, <2>1
      <3>2. c \in DOMAIN head
        BY <1>8, <3>1 DEF RowInv
      <3> QED BY <2>1, <3>1, <3>2
    <2>2. CASE ~UNCHANGED <<head, rows>>
      <3>1. /\ c \in DOMAIN head => head[c].subgraph = s
            /\ head' = [d \in DOMAIN head \cup {c} |-> IF d = c THEN HeadAt(s, row) ELSE head[d]]
            /\ rows' = rows \cup {row}
        BY <1>7, <2>2
      <3>2. DOMAIN head' = DOMAIN head \cup {c} /\ head'[c].subgraph = s
        BY <1>14, <3>1
      <3>3. \A d \in DOMAIN head : head'[d].subgraph = head[d].subgraph
        BY <1>14, <3>1
      <3> QED BY <1>13, <3>1, <3>2, <3>3
    <2> QED BY <2>1, <2>2
  <1>16. TypeInv'
    <2>1. work' \in Seq(Item)
      BY <1>1, <1>6, <1>7, <1>8, TailWork
    <2> QED BY <1>6, <1>7, <1>8, <1>9, <1>10, <1>12, <2>1 DEF TypeInv
  <1>17. /\ DOMAIN utxos'[s] = DOMAIN utxos[s] \cup {o}
         /\ utxos'[s][o].covenant = c /\ utxos'[s][o].score = h.score
         /\ \A p \in DOMAIN utxos[s] : utxos'[s][p] = utxos[s][p]
    BY <1>9, <1>11
  <1>18. RowInv'
    <2>1. ASSUME NEW r \in rows'
          PROVE  /\ r.subgraph \in Range(runtimes')
                 /\ r.output \in DOMAIN utxos'[r.subgraph]
                 /\ utxos'[r.subgraph][r.output].covenant = r.covenant
                 /\ utxos'[r.subgraph][r.output].score = r.score
                 /\ r.covenant \in DOMAIN head' /\ head'[r.covenant].subgraph = r.subgraph
      <3>1. CASE r \in rows
        <4>1. /\ r.subgraph \in Range(runtimes)
              /\ r.output \in DOMAIN utxos[r.subgraph]
              /\ utxos[r.subgraph][r.output].covenant = r.covenant
              /\ utxos[r.subgraph][r.output].score = r.score
              /\ r.covenant \in DOMAIN head /\ head[r.covenant].subgraph = r.subgraph
          BY <1>8, <3>1 DEF RowInv, Cov
        <4>2. r.subgraph \in Subgraph
          BY <1>8, <3>1 DEF TypeInv, Row
        <4>3. /\ r.output \in DOMAIN utxos'[r.subgraph]
              /\ utxos'[r.subgraph][r.output] = utxos[r.subgraph][r.output]
          <5>1. CASE r.subgraph = s
            BY <1>17, <4>1, <5>1
          <5>2. CASE r.subgraph # s
            BY <1>9, <4>1, <4>2, <5>2
          <5> QED BY <5>1, <5>2
        <4> QED BY <1>6, <1>15, <4>1, <4>3
      <3>2. CASE r \notin rows
        <4>1. r = row /\ c \in DOMAIN head' /\ head'[c].subgraph = s
          BY <1>15, <3>2
        <4> QED BY <1>6, <1>11, <1>13, <1>17, <4>1
      <3> QED BY <3>1, <3>2
    <2> QED BY <2>1 DEF RowInv, Cov
  <1>19. OwnInv'
    <2>1. ASSUME NEW t \in Subgraph, NEW p \in Lasting(t)
          PROVE  /\ \E r \in rows' : r.covenant = Cov(t, p)' /\ r.output = p
                 /\ ~Before(t, head'[Cov(t, p)'].subgraph)
      <3>1. PICK d : d = Cov(t, p)
        OBVIOUS
      <3>2. PICK r \in rows : r.covenant = d /\ r.output = p
        BY <1>8, <3>1 DEF OwnInv
      <3>3. ~Before(t, head[d].subgraph) /\ d \in DOMAIN head
        BY <1>8, <3>1, <3>2 DEF OwnInv, RowInv
      <3>4. Cov(t, p)' = d
        <4>1. p \in DOMAIN utxos[t] BY DEF Lasting
        <4>2. utxos'[t][p] = utxos[t][p]
          BY <1>9, <1>17, <4>1
        <4> QED BY <3>1, <4>2 DEF Cov
      <3> QED BY <1>15, <3>2, <3>3, <3>4
    <2>2. /\ \E r \in rows' : r.covenant = Cov(s, o)' /\ r.output = o
          /\ ~Before(s, head'[Cov(s, o)'].subgraph)
      <3>1. Cov(s, o)' = c
        BY <1>17 DEF Cov
      <3>2. CASE c \in DOMAIN head
        <4>1. ~Before(s, head[c].subgraph)
          BY <1>1, <1>2, <1>3, <1>4, <1>6, <3>2, RecordOwner
        <4> QED BY <1>15, <3>1, <3>2, <4>1
      <3>3. CASE c \notin DOMAIN head
        BY <1>8, <1>15, <3>1, <3>3, BeforeIsOrder
      <3> QED BY <3>2, <3>3
    <2>3. \A t \in Subgraph : \A p \in Lasting(t)' : p \in Lasting(t) \/ (t = s /\ p = o)
      BY <1>9, <1>11
    <2>4. \A t \in Subgraph : \A p \in Lasting(t)' :
             /\ \E r \in rows' : r.covenant = Cov(t, p)' /\ r.output = p
             /\ ~Before(t, head'[Cov(t, p)'].subgraph)
      BY <2>1, <2>2, <2>3
    <2> QED BY <1>6, <2>4 DEF OwnInv, Before, Cov
  <1>20. StrandInv'
    <2>1. ASSUME NEW d \in DOMAIN head', NEW t \in Subgraph, Before(t, head'[d].subgraph)
          PROVE  /\ Parent[d] \in Output
                 /\ \A b \in Range(chain) : Parent[d] \in Holds(b) => b \in known[t]
      <3>1. CASE d \in DOMAIN head
        BY <1>8, <1>15, <2>1, <3>1 DEF StrandInv
      <3>2. CASE d \notin DOMAIN head
        <4>1. d = c /\ c \notin DOMAIN head /\ Before(t, s)
          BY <1>15, <2>1, <3>2
        <4> QED BY <1>1, <1>2, <1>3, <1>4, <1>6, <4>1, RecordOpens
      <3> QED BY <3>1, <3>2
    <2> QED BY <1>6, <2>1 DEF StrandInv, Before
  <1> QED BY <1>10, <1>12, <1>16, <1>18, <1>19, <1>20 DEF LInv

------------------------------------------------------------------------------

(***************************************************************************)
(* A deployed subgraph joins the runtimes at the end.                      *)
(***************************************************************************)

LEMMA DeployStep ==
    ASSUME LInv, ~Merges(chain), NEW s \in Subgraph, Deploy(s)
    PROVE  LInv'
  <1>1. /\ work = <<>> /\ s \notin Range(runtimes) /\ runtimes' = Append(runtimes, s)
        /\ UNCHANGED <<chain, known, utxos, head, rows, work, stopped>>
    BY DEF Deploy, Reload, Idle, storeVars
  <1>2. /\ TypeInv /\ KnownInv /\ WorkInv /\ TrackInv /\ CovenantInv /\ AgreeInv
        /\ RowInv /\ HeadInv /\ OwnInv /\ StrandInv /\ EdgeInv
    BY DEF LInv
  <1>3. /\ runtimes' \in Seq(Subgraph)
        /\ DOMAIN runtimes' = DOMAIN runtimes \cup {Len(runtimes) + 1}
        /\ \A i \in DOMAIN runtimes : runtimes'[i] = runtimes[i] /\ i < Len(runtimes) + 1
        /\ runtimes'[Len(runtimes) + 1] = s
    BY <1>1, <1>2 DEF TypeInv
  <1>4. Range(runtimes') = Range(runtimes) \cup {s}
    BY <1>3 DEF Range
  <1>5. \A t, u : Before(t, u)' <=> Before(t, u) \/ (t \in Range(runtimes) /\ u = s)
    <2> SUFFICES ASSUME NEW t, NEW u
                 PROVE  Before(t, u)' <=> Before(t, u) \/ (t \in Range(runtimes) /\ u = s)
      OBVIOUS
    <2>1. Before(t, u) => Before(t, u)'
      BY <1>3 DEF Before
    <2>2. t \in Range(runtimes) /\ u = s => Before(t, u)'
      BY <1>3 DEF Before, Range
    <2>3. ASSUME Before(t, u)' PROVE Before(t, u) \/ (t \in Range(runtimes) /\ u = s)
      <3>1. PICK i, j \in DOMAIN runtimes' : i < j /\ runtimes'[i] = t /\ runtimes'[j] = u
        BY <2>3 DEF Before
      <3>2. i \in DOMAIN runtimes
        BY <1>2, <1>3, <3>1 DEF TypeInv
      <3>3. CASE j \in DOMAIN runtimes
        BY <1>3, <3>1, <3>2, <3>3 DEF Before
      <3>4. CASE j = Len(runtimes) + 1
        BY <1>3, <3>1, <3>2, <3>4 DEF Range
      <3> QED BY <1>3, <3>3, <3>4
    <2> QED BY <2>1, <2>2, <2>3
  <1>6. known[s] = {} /\ DOMAIN utxos[s] = {}
    BY <1>1, <1>2 DEF KnownInv
  <1>7. \A t : Cuts(t)' = Cuts(t) /\ Ahead(t)' = Ahead(t) /\ Cuts(t) = {} /\ Ahead(t) = {}
    BY <1>1 DEF Cuts, Ahead
  <1>8. \A t : Lasting(t)' = Lasting(t)
    BY <1>1, <1>7 DEF Lasting
  <1>9. TypeInv'
    <2>1. \A i, j \in DOMAIN runtimes' : runtimes'[i] = runtimes'[j] => i = j
      BY <1>1, <1>2, <1>3 DEF TypeInv, Range
    <2> QED BY <1>1, <1>2, <1>3, <2>1 DEF TypeInv
  <1>10. KnownInv'
    <2>1. \A t, u \in Subgraph : Before(t, u)' => known[u] \subseteq known[t]
      BY <1>2, <1>5, <1>6 DEF KnownInv
    <2> QED BY <1>1, <1>2, <1>4, <2>1 DEF KnownInv
  <1>11. WorkInv'
    BY <1>1, <1>7 DEF WorkInv
  <1>12. TrackInv'
    BY <1>1, <1>2, <1>7, <1>8 DEF TrackInv
  <1>13. CovenantInv'
    BY <1>1, <1>2 DEF CovenantInv, Cov
  <1>14. AgreeInv'
    <2>1. Lasting(s) = {}
      BY <1>6 DEF Lasting
    <2>2. \A t, u \in Subgraph : Before(t, u)' =>
             \A p \in Lasting(u), q \in Lasting(t) : Cov(t, q) = Cov(u, p) => Cov(t, p) = Cov(u, p)
      BY <1>2, <1>5, <2>1 DEF AgreeInv
    <2> QED BY <1>1, <1>8, <2>2 DEF AgreeInv, Cov
  <1>15. RowInv'
    BY <1>1, <1>2, <1>4 DEF RowInv, Cov
  <1>16. HeadInv' /\ EdgeInv'
    BY <1>1, <1>2 DEF HeadInv, HeadsStandOnRows, RowsOf, EdgeInv
  <1>17. \A c \in DOMAIN head : head[c].subgraph # s
    <2> SUFFICES ASSUME NEW c \in DOMAIN head PROVE head[c].subgraph # s
      OBVIOUS
    <2>1. PICK r \in rows : r.covenant = c
      BY <1>2 DEF HeadInv, HeadsStandOnRows
    <2> QED BY <1>1, <1>2, <2>1 DEF RowInv
  <1>18. OwnInv'
    <2>1. ASSUME NEW t \in Subgraph, NEW o \in Lasting(t)
          PROVE  /\ \E r \in rows : r.covenant = Cov(t, o) /\ r.output = o
                 /\ ~Before(t, head[Cov(t, o)].subgraph)'
      <3>1. PICK d : d = Cov(t, o) OBVIOUS
      <3>2. (\E r \in rows : r.covenant = d /\ r.output = o) /\ ~Before(t, head[d].subgraph)
        BY <1>2, <3>1 DEF OwnInv
      <3>3. d \in DOMAIN head
        BY <1>2, <3>2 DEF RowInv
      <3>4. PICK w : w = head[d].subgraph OBVIOUS
      <3>5. ~Before(t, w)'
        BY <1>5, <1>17, <3>2, <3>3, <3>4
      <3> QED BY <1>1, <3>1, <3>2, <3>4, <3>5 DEF Before, Cov
    <2> QED BY <1>1, <1>8, <2>1 DEF OwnInv, Cov
  <1>19. StrandInv'
    <2>1. ASSUME NEW c \in DOMAIN head, NEW t \in Subgraph, NEW w, w = head[c].subgraph, Before(t, w)'
          PROVE  /\ Parent[c] \in Output
                 /\ \A b \in Range(chain) : Parent[c] \in Holds(b) => b \in known[t]
      <3>1. Before(t, w)
        BY <1>5, <1>17, <2>1
      <3> QED BY <1>2, <2>1, <3>1 DEF StrandInv
    <2> QED BY <1>1, <2>1 DEF StrandInv, Before
  <1> QED BY <1>9, <1>10, <1>11, <1>12, <1>13, <1>14, <1>15, <1>16, <1>18, <1>19 DEF LInv

LEMMA LineageInit == Init => LInv
  <1> SUFFICES ASSUME Init PROVE LInv
    OBVIOUS
  <1>1. /\ chain = <<>> /\ runtimes = AtStart /\ known = [s \in Subgraph |-> {}]
        /\ utxos = [s \in Subgraph |-> <<>>] /\ head = <<>> /\ rows = {}
        /\ work = <<>> /\ stopped = FALSE
    BY DEF Init
  <1>2. \A s \in Subgraph : known[s] = {} /\ DOMAIN utxos[s] = {} /\ utxos[s] = <<>>
    BY <1>1
  <1>3. AtStart \in Seq(Subgraph) /\ IsInjective(AtStart)
    BY LineageAssumption
  <1>4. \A s \in Subgraph : Lasting(s) = {}
    BY <1>2 DEF Lasting
  <1>5. \A s : Cuts(s) = {} /\ Ahead(s) = {}
    BY <1>1 DEF Cuts, Ahead
  <1>6. TypeInv
    <2>1. known \in [Subgraph -> SUBSET Block] /\ DOMAIN utxos = Subgraph
      BY <1>1
    <2>2. \A s \in Subgraph : DOMAIN utxos[s] \subseteq Output /\ utxos[s] \in [DOMAIN utxos[s] -> Entry]
      <3>1. <<>> \in [DOMAIN <<>> -> Entry] /\ DOMAIN <<>> = {}
        OBVIOUS
      <3> QED BY <1>2, <3>1
    <2>3. \A i, j \in DOMAIN runtimes : runtimes[i] = runtimes[j] => i = j
      BY <1>1, <1>3 DEF IsInjective
    <2>4. work \in Seq(Item)
      BY <1>1
    <2> QED BY <1>1, <1>3, <2>1, <2>2, <2>3, <2>4 DEF TypeInv
  <1>7. KnownInv
    <2>1. Range(chain) = {} BY <1>1 DEF Range
    <2>2. \A s \in Range(AtStart) : s \in Range(runtimes) /\ s \in Subgraph
      BY <1>1, <1>3 DEF Range
    <2> QED BY <1>1, <1>2, <2>1, <2>2 DEF KnownInv
  <1>8. WorkInv BY <1>1, <1>5 DEF WorkInv
  <1>9. TrackInv BY <1>2, <1>4 DEF TrackInv
  <1>10. CovenantInv /\ AgreeInv /\ OwnInv
    BY <1>2, <1>4 DEF CovenantInv, AgreeInv, OwnInv
  <1>11. RowInv /\ HeadInv /\ StrandInv /\ EdgeInv
    BY <1>1 DEF RowInv, HeadInv, HeadsStandOnRows, StrandInv, EdgeInv
  <1> QED BY <1>6, <1>7, <1>8, <1>9, <1>10, <1>11 DEF LInv

LEMMA StutterStep ==
    ASSUME LInv, UNCHANGED vars
    PROVE  LInv'
  <1>1. UNCHANGED <<chain, runtimes, known, utxos, head, rows, work, stopped>>
    BY DEF vars, storeVars
  <1>2. /\ \A t, u : Before(t, u)' <=> Before(t, u)
        /\ \A t : Cuts(t)' = Cuts(t) /\ Ahead(t)' = Ahead(t)
        /\ \A t, o : Cov(t, o)' = Cov(t, o)
        /\ \A c : RowsOf(c)' = RowsOf(c)
    BY <1>1 DEF Before, Cuts, Ahead, Cov, RowsOf
  <1>3. \A t : Lasting(t)' = Lasting(t)
    BY <1>1, <1>2 DEF Lasting
  <1>4. TypeInv' /\ KnownInv' /\ WorkInv'
    BY <1>1, <1>2 DEF LInv, TypeInv, KnownInv, WorkInv, Before
  <1>5. TrackInv' /\ CovenantInv' /\ AgreeInv'
    BY <1>1, <1>2, <1>3 DEF LInv, TrackInv, CovenantInv, AgreeInv, Cov
  <1>6. RowInv' /\ HeadInv' /\ OwnInv' /\ StrandInv' /\ EdgeInv'
    BY <1>1, <1>2, <1>3 DEF LInv, RowInv, HeadInv, HeadsStandOnRows, OwnInv, StrandInv, EdgeInv, Cov, Before
  <1> QED BY <1>4, <1>5, <1>6 DEF LInv

------------------------------------------------------------------------------

(***************************************************************************)
(* A list of lists, flattened.                                             *)
(***************************************************************************)

\* Element k of f is element col[k] of the list row[k] of ss, in lexical order, and the
\* first n lists are used up.
Flattens(ss, n, f, row, col) ==
    /\ \A k \in DOMAIN f :
          /\ row[k] \in 1 .. n /\ col[k] \in DOMAIN ss[row[k]]
          /\ f[k] = ss[row[k]][col[k]]
    /\ \A k, l \in DOMAIN f : k < l => row[k] < row[l] \/ (row[k] = row[l] /\ col[k] < col[l])
    /\ \A i \in 1 .. n : \A j \in DOMAIN ss[i] : \E k \in DOMAIN f : row[k] = i /\ col[k] = j

Flat(T, ss, n, f) ==
    /\ f \in Seq(T)
    /\ \E row, col \in [DOMAIN f -> Nat] : Flattens(ss, n, f, row, col)

LEMMA FlatFirst ==
    ASSUME NEW T, NEW ss \in Seq(Seq(T)), ss # <<>>
    PROVE  Flat(T, ss, 1, ss[1])
  <1> DEFINE f   == ss[1]
             row == [k \in DOMAIN f |-> 1]
             col == [k \in DOMAIN f |-> k]
  <1>1. f \in Seq(T)
    OBVIOUS
  <1>2. DOMAIN f \subseteq Nat
    BY <1>1
  <1>3. row \in [DOMAIN f -> Nat] /\ col \in [DOMAIN f -> Nat]
    BY <1>2
  <1>4. Flattens(ss, 1, f, row, col)
    <2>1. \A k \in DOMAIN f : row[k] = 1 /\ col[k] = k
      OBVIOUS
    <2>2. \A i \in 1 .. 1 : i = 1
      OBVIOUS
    <2> HIDE DEF row, col
    <2> QED BY <2>1, <2>2 DEF Flattens
  <1> QED BY <1>1, <1>3, <1>4 DEF Flat

LEMMA FlatNext ==
    ASSUME NEW T, NEW ss \in Seq(Seq(T)), NEW n \in Nat, n + 1 \in DOMAIN ss,
           NEW f, Flat(T, ss, n, f)
    PROVE  Flat(T, ss, n + 1, f \o ss[n + 1])
  <1>1. f \in Seq(T)
    BY DEF Flat
  <1>2. PICK row, col \in [DOMAIN f -> Nat] : Flattens(ss, n, f, row, col)
    BY DEF Flat
  <1>3. PICK t : t = ss[n + 1]
    OBVIOUS
  <1>4. t \in Seq(T)
    BY <1>3
  <1>5. PICK g : g = f \o t
    OBVIOUS
  <1>6. /\ g \in Seq(T) /\ Len(g) = Len(f) + Len(t) /\ Len(f) \in Nat /\ Len(t) \in Nat
        /\ \A k \in 1 .. Len(f) : g[k] = f[k]
        /\ \A k \in 1 .. Len(g) : k > Len(f) => g[k] = t[k - Len(f)]
    BY <1>1, <1>4, <1>5
  <1>7. DOMAIN g = 1 .. Len(g) /\ DOMAIN f = 1 .. Len(f) /\ DOMAIN t = 1 .. Len(t)
    BY <1>1, <1>4, <1>6
  <1> DEFINE row2 == [k \in DOMAIN g |-> IF k <= Len(f) THEN row[k] ELSE n + 1]
             col2 == [k \in DOMAIN g |-> IF k <= Len(f) THEN col[k] ELSE k - Len(f)]
  <1>0. /\ \A k \in DOMAIN f : k \in DOMAIN g /\ k <= Len(f)
        /\ \A k \in DOMAIN g : k \notin DOMAIN f => ~(k <= Len(f)) /\ k > Len(f)
        /\ \A k \in DOMAIN g : k \in 1 .. Len(g)
    BY <1>6, <1>7, SMTT(30)
  <1>8. /\ \A k \in DOMAIN f : k \in DOMAIN g /\ row2[k] = row[k] /\ col2[k] = col[k] /\ g[k] = f[k]
        /\ \A k \in DOMAIN g : k \notin DOMAIN f =>
              row2[k] = n + 1 /\ col2[k] = k - Len(f) /\ col2[k] \in DOMAIN t /\ g[k] = t[col2[k]]
    <2>1. ASSUME NEW k \in DOMAIN f
          PROVE  k \in DOMAIN g /\ row2[k] = row[k] /\ col2[k] = col[k] /\ g[k] = f[k]
      <3>1. k \in DOMAIN g /\ k <= Len(f)
        BY <1>0
      <3>2. g[k] = f[k]
        BY <1>6, <1>7
      <3> QED BY <3>1, <3>2
    <2>2. ASSUME NEW k \in DOMAIN g, k \notin DOMAIN f
          PROVE  row2[k] = n + 1 /\ col2[k] = k - Len(f) /\ col2[k] \in DOMAIN t /\ g[k] = t[col2[k]]
      <3>1. ~(k <= Len(f)) /\ k \in 1 .. Len(g) /\ k > Len(f)
        BY <1>0, <2>2
      <3>2. g[k] = t[k - Len(f)] /\ k - Len(f) \in DOMAIN t
        BY <1>6, <1>7, <3>1
      <3>3. row2[k] = n + 1 /\ col2[k] = k - Len(f)
        BY <3>1
      <3> QED BY <3>2, <3>3
    <2> QED BY <2>1, <2>2
  <1>9. row2 \in [DOMAIN g -> Nat] /\ col2 \in [DOMAIN g -> Nat]
    <2>1. \A k \in DOMAIN g : row2[k] \in Nat /\ col2[k] \in Nat
      BY <1>2, <1>6, <1>7, <1>8
    <2> QED BY <2>1
  <1> HIDE DEF row2, col2
  <1>10. Flattens(ss, n + 1, g, row2, col2)
    <2>1. ASSUME NEW k \in DOMAIN g
          PROVE  /\ row2[k] \in 1 .. n + 1 /\ col2[k] \in DOMAIN ss[row2[k]]
                 /\ g[k] = ss[row2[k]][col2[k]]
      <3>1. CASE k \in DOMAIN f
        BY <1>2, <1>8, <3>1 DEF Flattens
      <3>2. CASE k \notin DOMAIN f
        BY <1>3, <1>8, <3>2
      <3> QED BY <3>1, <3>2
    <2>2. ASSUME NEW k \in DOMAIN g, NEW l \in DOMAIN g, k < l
          PROVE  row2[k] < row2[l] \/ (row2[k] = row2[l] /\ col2[k] < col2[l])
      <3>1. CASE l \in DOMAIN f
        <4>1. k \in DOMAIN f
          BY <1>6, <1>7, <2>2, <3>1
        <4> QED BY <1>2, <1>8, <2>2, <3>1, <4>1 DEF Flattens
      <3>2. CASE k \in DOMAIN f /\ l \notin DOMAIN f
        <4>1. row[k] \in 1 .. n
          BY <1>2, <3>2 DEF Flattens
        <4> QED BY <1>8, <3>2, <4>1
      <3>3. CASE k \notin DOMAIN f /\ l \notin DOMAIN f
        BY <1>6, <1>7, <1>8, <2>2, <3>3
      <3> QED BY <3>1, <3>2, <3>3
    <2>3. ASSUME NEW i \in 1 .. n + 1, NEW j \in DOMAIN ss[i]
          PROVE  \E k \in DOMAIN g : row2[k] = i /\ col2[k] = j
      <3>1. CASE i \in 1 .. n
        <4>1. PICK k \in DOMAIN f : row[k] = i /\ col[k] = j
          BY <1>2, <3>1 DEF Flattens
        <4> QED BY <1>8, <4>1
      <3>2. CASE i = n + 1
        <4>1. j \in DOMAIN t /\ j \in Nat
          BY <1>3, <1>7, <3>2
        <4>2. PICK k : k = j + Len(f)
          OBVIOUS
        <4>3. k \in DOMAIN g /\ k \notin DOMAIN f /\ k - Len(f) = j
          BY <1>6, <1>7, <4>1, <4>2, SMTT(30)
        <4>4. row2[k] = n + 1 /\ col2[k] = k - Len(f)
          BY <1>8, <4>3
        <4> QED BY <3>2, <4>3, <4>4
      <3> QED BY <3>1, <3>2
    <2> QED BY <2>1, <2>2, <2>3 DEF Flattens
  <1> QED BY <1>3, <1>5, <1>6, <1>9, <1>10 DEF Flat

\* The recursion of FlattenSeq has a solution, and it flattens.
Recurs(ss, n, g) == g = [i \in 1 .. n |-> IF i = 1 THEN ss[i] ELSE g[i - 1] \o ss[i]]

LEMMA RecursionExists ==
    ASSUME NEW ss, NEW n \in Nat
    PROVE  \E g : Recurs(ss, n, g)
  <1> DEFINE bad == {m \in Nat : ~\E g : Recurs(ss, m, g)}
  <1>1. ASSUME bad # {} PROVE FALSE
    <2>1. PICK m \in bad : \A k \in bad : m <= k
      BY <1>1, LeastNatural
    <2>2. CASE m = 0
      <3> DEFINE g == [i \in 1 .. 0 |-> ss]
      <3>1. Recurs(ss, 0, g)
        BY DEF Recurs
      <3> QED BY <2>2, <3>1
    <2>3. CASE m # 0
      <3>1. m - 1 \in Nat /\ m - 1 \notin bad
        BY <2>1, <2>3
      <3>2. PICK g : Recurs(ss, m - 1, g)
        BY <3>1
      <3> DEFINE h == [i \in 1 .. m |-> IF i = 1 THEN ss[i] ELSE g[i - 1] \o ss[i]]
      <3>3. \A i \in 1 .. m - 1 : h[i] = g[i]
        <4>1. \A i \in 1 .. m - 1 : g[i] = IF i = 1 THEN ss[i] ELSE g[i - 1] \o ss[i]
          BY <3>2 DEF Recurs
        <4>2. \A i \in 1 .. m - 1 : i \in 1 .. m
          BY <3>1
        <4> QED BY <4>1, <4>2
      <3>4. \A i \in 1 .. m : i # 1 => i - 1 \in 1 .. m - 1
        BY <3>1
      <3>5. h = [i \in 1 .. m |-> IF i = 1 THEN ss[i] ELSE h[i - 1] \o ss[i]]
        BY <3>3, <3>4
      <3> HIDE DEF h
      <3>6. Recurs(ss, m, h)
        BY <3>5 DEF Recurs
      <3> QED BY <3>6
    <2> QED BY <2>2, <2>3
  <1> QED BY <1>1

LEMMA Flattened ==
    ASSUME NEW T, NEW ss \in Seq(Seq(T))
    PROVE  Flat(T, ss, Len(ss), FlattenSeq(ss))
  <1>1. CASE ss = <<>>
    <2>1. FlattenSeq(ss) = <<>> /\ Len(ss) = 0
      BY <1>1 DEF FlattenSeq
    <2> DEFINE none == [k \in {} |-> 0]
    <2>2. none \in [DOMAIN <<>> -> Nat]
      OBVIOUS
    <2>3. Flattens(ss, 0, <<>>, none, none)
      BY DEF Flattens
    <2> HIDE DEF none
    <2>4. <<>> \in Seq(T)
      OBVIOUS
    <2>5. Flat(T, ss, 0, <<>>)
      BY <2>2, <2>3, <2>4 DEF Flat
    <2> QED BY <2>1, <2>5
  <1>2. CASE ss # <<>>
    <2>1. Len(ss) \in Nat /\ Len(ss) # 0 /\ DOMAIN ss = 1 .. Len(ss)
      BY <1>2
    <2> DEFINE g == CHOOSE f : Recurs(ss, Len(ss), f)
    <2>2. FlattenSeq(ss) = g[Len(ss)]
      BY <2>1 DEF FlattenSeq, Recurs
    <2>3. Recurs(ss, Len(ss), g)
      BY <2>1, RecursionExists
    <2> HIDE DEF g
    <2>4. \A i \in 1 .. Len(ss) : g[i] = IF i = 1 THEN ss[i] ELSE g[i - 1] \o ss[i]
      BY <2>3 DEF Recurs
    <2> DEFINE bad == {i \in 1 .. Len(ss) : ~Flat(T, ss, i, g[i])}
    <2>5. ASSUME bad # {} PROVE FALSE
      <3>0. bad \subseteq Nat
        BY <2>1
      <3>1. PICK m \in bad : \A k \in bad : m <= k
        <4> HIDE DEF bad
        <4> QED BY <2>5, <3>0, LeastNatural
      <3>2. CASE m = 1
        BY <1>2, <2>1, <2>4, <3>1, <3>2, FlatFirst
      <3>3. CASE m # 1
        <4>1. m - 1 \in 1 .. Len(ss) /\ m - 1 \notin bad /\ m \in Nat
          BY <2>1, <3>1, <3>3
        <4>2. PICK n \in Nat : n = m - 1
          BY <4>1
        <4>3. Flat(T, ss, n, g[n]) /\ n + 1 = m /\ n + 1 \in DOMAIN ss
          BY <2>1, <4>1, <4>2
        <4>4. g[m] = g[n] \o ss[n + 1]
          BY <2>4, <3>3, <4>2, <4>3
        <4>5. Flat(T, ss, n + 1, g[n] \o ss[n + 1])
          BY <4>3, FlatNext
        <4> QED BY <3>1, <4>3, <4>4, <4>5
      <3> QED BY <3>2, <3>3
    <2> QED BY <2>1, <2>2, <2>5, SMTT(30)
  <1> QED BY <1>1, <1>2

------------------------------------------------------------------------------

(***************************************************************************)
(* A chain change.                                                         *)
(***************************************************************************)

LEMMA MinIs ==
    ASSUME NEW T, T \subseteq Nat, T # {}
    PROVE  Min(T) \in T /\ \A x \in T : Min(T) <= x
  <1>1. PICK m \in T : \A x \in T : m <= x
    BY LeastNatural
  <1>2. m \in T /\ \A x \in T : m =< x
    BY <1>1
  <1> QED BY <1>2, Zenon DEF Min

LEMMA MaxIs ==
    ASSUME NEW T, T \subseteq Nat, T # {}, NEW n \in Nat, \A x \in T : x <= n
    PROVE  Max(T) \in T /\ \A x \in T : x <= Max(T)
  <1>1. PICK m \in T : \A x \in T : x <= m
    BY GreatestNatural
  <1>2. \A x \in T : m >= x
    BY <1>1
  <1>3. Max(T) \in T /\ \A x \in T : Max(T) >= x
    BY <1>1, <1>2, Zenon DEF Max
  <1> QED BY <1>3

\* Two chains agree up to a block they share.
LEMMA SharedPrefix ==
    ASSUME NEW c \in Chains, NEW d \in Chains, NEW m \in DOMAIN c, c[m] \in Range(d)
    PROVE  \A i \in 1 .. m : i \in DOMAIN c /\ i \in DOMAIN d /\ c[i] = d[i]
  <1>1. c \in Seq(Block) /\ d \in Seq(Block)
    BY LineageAssumption
  <1>2. IsPrefix(SubSeq(c, 1, m), d)
    BY LineageAssumption
  <1>3. PICK p : p = SubSeq(c, 1, m)
    OBVIOUS
  <1>4. /\ m \in Nat /\ 1 <= m /\ m <= Len(c)
    BY <1>1
  <1>5. Len(p) = m /\ \A i \in 1 .. m : p[i] = c[i]
    BY <1>1, <1>3, <1>4
  <1>6. m <= Len(d) /\ p = SubSeq(d, 1, m)
    <2>1. Len(p) <= Len(d) /\ SubSeq(p, 1, Len(p)) = SubSeq(d, 1, Len(p))
      BY <1>2, <1>3 DEF IsPrefix
    <2>2. SubSeq(p, 1, Len(p)) = p
      <3>1. p \in Seq(Block)
        BY <1>1, <1>3, <1>4
      <3> QED BY <3>1
    <2> QED BY <1>5, <2>1, <2>2
  <1>7. \A i \in 1 .. m : p[i] = d[i]
    BY <1>1, <1>4, <1>6
  <1> QED BY <1>1, <1>4, <1>5, <1>6, <1>7

\* What the part of the next chain above the last shared block is.
LEMMA AddedIs ==
    ASSUME chain \in Chains \cup {<<>>}, NEW next \in Chains
    PROVE  \E m \in 0 .. Len(next) :
              /\ Added(next) = SubSeq(next, m + 1, Len(next))
              /\ \A i \in 1 .. m : next[i] \in Range(chain)
              /\ \A i \in DOMAIN next : i > m => next[i] \notin Range(chain)
  <1>1. next \in Seq(Block)
    BY LineageAssumption
  <1>2. Len(next) \in Nat /\ DOMAIN next = 1 .. Len(next)
    BY <1>1
  <1> DEFINE shared == {i \in DOMAIN next : next[i] \in Range(chain)}
             all    == {0} \cup shared
  <1>3. all \subseteq Nat /\ all # {} /\ \A x \in all : x <= Len(next)
    BY <1>2
  <1>4. PICK m : m = Max(all)
    OBVIOUS
  <1>5. m \in all /\ \A x \in all : x <= m
    <2> HIDE DEF all
    <2> QED BY <1>2, <1>3, <1>4, MaxIs
  <1>6. m \in 0 .. Len(next)
    BY <1>2, <1>5
  <1>7. Added(next) = SubSeq(next, m + 1, Len(next))
    BY <1>4 DEF Added
  <1>8. ASSUME NEW i \in 1 .. m PROVE next[i] \in Range(chain)
    <2>1. m \in DOMAIN next /\ next[m] \in Range(chain)
      BY <1>5, <1>6
    <2>2. chain \in Chains
      <3>1. Range(<<>>) = {}
        BY DEF Range
      <3> QED BY <2>1, <3>1
    <2>3. i \in DOMAIN chain /\ next[i] = chain[i]
      BY <2>1, <2>2, SharedPrefix
    <2> QED BY <2>3 DEF Range
  <1>9. ASSUME NEW i \in DOMAIN next, i > m PROVE next[i] \notin Range(chain)
    <2>1. i \notin all
      BY <1>2, <1>5, <1>6, <1>9
    <2> QED BY <2>1
  <1> QED BY <1>6, <1>7, <1>8, <1>9

\* Blocks that stay, blocks that are added and blocks that are dropped.
LEMMA ChangedBlocks ==
    ASSUME chain \in Chains \cup {<<>>}, NEW next \in Chains, NEW added, added = Added(next)
    PROVE  /\ added \in Seq(Block)
           /\ Range(next) \subseteq Range(added) \cup Range(chain)
           /\ Range(added) \subseteq Range(next) /\ Range(added) \cap Range(chain) = {}
           /\ \A b \in Range(next) \cap Range(chain) :
                 /\ \A a \in Range(added) :
                       /\ DaaScore[b] < DaaScore[a]
                       /\ \A o \in Holds(b) : o \notin Holds(a) /\ Parent[o] \notin Holds(a)
                 /\ \A d \in Range(chain) \ Range(next) : DaaScore[b] < DaaScore[d]
           /\ \A i, k \in DOMAIN added :
                 /\ i < k => DaaScore[added[i]] < DaaScore[added[k]]
                 /\ \A j \in DOMAIN Outputs[added[i]], l \in DOMAIN Outputs[added[k]] :
                       /\ Outputs[added[i]][j] = Outputs[added[k]][l] => i = k /\ j = l
                       /\ Outputs[added[i]][j] = Parent[Outputs[added[k]][l]] => i < k \/ (i = k /\ j < l)
  <1>1. next \in Seq(Block)
    BY LineageAssumption
  <1>2. Len(next) \in Nat /\ DOMAIN next = 1 .. Len(next)
    BY <1>1
  <1>3. PICK m \in 0 .. Len(next) :
           /\ added = SubSeq(next, m + 1, Len(next))
           /\ \A i \in 1 .. m : next[i] \in Range(chain)
           /\ \A i \in DOMAIN next : i > m => next[i] \notin Range(chain)
    BY AddedIs
  <1>4. /\ added \in Seq(Block) /\ Len(added) = Len(next) - m
        /\ \A i \in DOMAIN added : i \in Nat /\ i + m \in DOMAIN next /\ i + m > m /\ added[i] = next[i + m]
        /\ \A i \in DOMAIN next : i > m => i - m \in DOMAIN added /\ added[i - m] = next[i]
    <2>1. m \in Nat /\ m + 1 \in Nat /\ m + 1 >= 1 /\ m <= Len(next)
      BY <1>2, <1>3
    <2>2. added \in Seq(Block) /\ Len(added) = Len(next) - m /\ \A i \in 1 .. Len(next) - m : added[i] = next[i + m]
      <3>1. \A i \in m + 1 .. Len(next) : next[i] \in Block
        BY <1>1, <1>2, <2>1
      <3>2. m + 1 \in Int /\ Len(next) \in Int
        BY <1>2, <2>1
      <3>3. /\ added \in Seq(Block)
            /\ Len(added) = IF m + 1 <= Len(next) THEN Len(next) - (m + 1) + 1 ELSE 0
            /\ \A i \in 1 .. Len(next) - (m + 1) + 1 : added[i] = next[m + 1 + i - 1]
        BY <1>3, <3>1, <3>2, SubSeqProperties
      <3>4. Len(next) - (m + 1) + 1 = Len(next) - m /\ (~(m + 1 <= Len(next)) => Len(next) - m = 0)
        <4>1. PICK n \in Nat : n = Len(next)
          BY <1>2
        <4>2. m \in Nat /\ m <= n
          BY <2>1, <4>1
        <4>3. n - (m + 1) + 1 = n - m /\ (~(m + 1 <= n) => n - m = 0)
          BY <4>2
        <4> QED BY <4>1, <4>3, SMTT(30)
      <3>5. \A i \in 1 .. Len(next) - m : m + 1 + i - 1 = i + m
        BY <1>2, <2>1, SMTT(30)
      <3>6. Len(added) = Len(next) - m
        BY <3>3, <3>4, ZenonT(60)
      <3>7. \A i \in 1 .. Len(next) - m : added[i] = next[i + m]
        BY <3>3, <3>4, <3>5, ZenonT(60)
      <3> QED BY <3>3, <3>6, <3>7
    <2>3. DOMAIN added = 1 .. Len(next) - m
      BY <2>2
    <2> QED BY <1>2, <2>1, <2>2, <2>3
  <1>5. /\ \A i, j \in DOMAIN next : i < j => DaaScore[next[i]] < DaaScore[next[j]]
        /\ \A i, k \in DOMAIN next :
              \A j \in DOMAIN Outputs[next[i]], l \in DOMAIN Outputs[next[k]] :
                 /\ Outputs[next[i]][j] = Outputs[next[k]][l] => i = k /\ j = l
                 /\ Outputs[next[i]][j] = Parent[Outputs[next[k]][l]] => i < k \/ (i = k /\ j < l)
    <2>1. next \in Seq(Block)
      BY LineageAssumption
    <2>2. \A i, j \in DOMAIN next : i < j => DaaScore[next[i]] < DaaScore[next[j]]
      BY LineageAssumption
    <2> QED BY <2>1, <2>2, ParentComesFirst
  <1>6. Range(next) \subseteq Range(added) \cup Range(chain)
    <2> SUFFICES ASSUME NEW i \in DOMAIN next PROVE next[i] \in Range(added) \cup Range(chain)
      BY DEF Range
    <2>1. CASE i > m
      BY <1>4, <2>1 DEF Range
    <2>2. CASE ~(i > m)
      <3>1. i \in 1 .. m
        BY <1>2, <1>3, <2>2
      <3> QED BY <1>3, <3>1
    <2> QED BY <2>1, <2>2
  <1>7. Range(added) \subseteq Range(next) /\ Range(added) \cap Range(chain) = {}
    BY <1>3, <1>4, SMTT(30) DEF Range
  <1>8. ASSUME NEW b \in Range(next) \cap Range(chain), NEW a \in Range(added)
        PROVE  /\ DaaScore[b] < DaaScore[a]
               /\ \A o \in Holds(b) : o \notin Holds(a) /\ Parent[o] \notin Holds(a)
    <2>1. PICK k \in DOMAIN next : next[k] = b
      BY DEF Range
    <2>2. PICK i \in DOMAIN next : next[i] = a /\ i > m
      BY <1>4 DEF Range
    <2>3. k < i
      BY <1>2, <1>3, <2>1, <2>2
    <2>4. DaaScore[b] < DaaScore[a]
      BY <1>5, <2>1, <2>2, <2>3
    <2>5. ASSUME NEW o \in Holds(b) PROVE o \notin Holds(a) /\ Parent[o] \notin Holds(a)
      <3>1. PICK l \in DOMAIN Outputs[b] : Outputs[b][l] = o
        BY DEF Holds, Range
      <3>2. ASSUME NEW j \in DOMAIN Outputs[a] PROVE Outputs[a][j] # o /\ Outputs[a][j] # Parent[o]
        <4>1. /\ Outputs[next[i]][j] = Outputs[next[k]][l] => i = k /\ j = l
              /\ Outputs[next[i]][j] = Parent[Outputs[next[k]][l]] => i < k \/ (i = k /\ j < l)
          BY <1>5, <2>1, <2>2, <3>1
        <4>2. k \in Nat /\ i \in Nat
          BY <1>2
        <4> QED BY <2>1, <2>2, <2>3, <3>1, <4>1, <4>2
      <3> QED BY <3>2 DEF Holds, Range
    <2> QED BY <2>4, <2>5
  <1>9. ASSUME NEW b \in Range(next) \cap Range(chain), NEW d \in Range(chain) \ Range(next)
        PROVE  DaaScore[b] < DaaScore[d]
    <2>1. chain \in Chains
      <3>1. Range(<<>>) = {}
        BY DEF Range
      <3> QED BY <3>1
    <2>2. chain \in Seq(Block)
      BY <2>1, LineageAssumption
    <2>3. PICK k \in DOMAIN chain : chain[k] = b
      BY DEF Range
    <2>4. PICK i \in DOMAIN chain : chain[i] = d
      BY DEF Range
    <2>5. ~(i <= k)
      <3> SUFFICES ASSUME i <= k PROVE FALSE
        OBVIOUS
      <3>1. \A x \in 1 .. k : x \in DOMAIN chain /\ x \in DOMAIN next /\ chain[x] = next[x]
        BY <2>1, <2>3, SharedPrefix
      <3>2. i \in 1 .. k
        BY <2>2
      <3>3. i \in DOMAIN next /\ chain[i] = next[i]
        BY <3>1, <3>2
      <3> QED BY <2>4, <3>3 DEF Range
    <2>6. k < i
      BY <2>2, <2>5
    <2> QED BY <2>1, <2>3, <2>4, <2>6, LineageAssumption
  <1>10. ASSUME NEW i \in DOMAIN added, NEW k \in DOMAIN added
         PROVE  /\ i < k => DaaScore[added[i]] < DaaScore[added[k]]
                /\ \A j \in DOMAIN Outputs[added[i]], l \in DOMAIN Outputs[added[k]] :
                      /\ Outputs[added[i]][j] = Outputs[added[k]][l] => i = k /\ j = l
                      /\ Outputs[added[i]][j] = Parent[Outputs[added[k]][l]] => i < k \/ (i = k /\ j < l)
    <2>1. PICK x, y \in DOMAIN next : x = i + m /\ y = k + m
      BY <1>4
    <2>2. added[i] = next[x] /\ added[k] = next[y]
      BY <1>4, <2>1
    <2>3. (x = y <=> i = k) /\ (x < y <=> i < k)
      BY <1>3, <1>4, <2>1, SMTT(30)
    <2> QED BY <1>5, <2>2, <2>3
  <1> QED BY <1>4, <1>6, <1>7, <1>8, <1>9, <1>10

\* What one runtime does for the added blocks: their outputs, in order.
Records(R, s, added) ==
    /\ R \in Seq(Item)
    /\ \A k \in DOMAIN R :
          /\ R[k].subgraph = s /\ R[k].unwind = FALSE
          /\ \E b \in Range(added) : R[k].output \in Holds(b) /\ R[k].score = DaaScore[b]
    /\ \A k, l \in DOMAIN R : k < l =>
          /\ R[k].score <= R[l].score /\ R[k].output # R[l].output
          /\ Parent[R[k].output] # R[l].output
    /\ \A b \in Range(added) : \A o \in Holds(b) : \E k \in DOMAIN R : R[k].output = o

LEMMA RecordWorkIs ==
    ASSUME chain \in Chains \cup {<<>>}, NEW next \in Chains, NEW added, added = Added(next),
           NEW s \in Subgraph, NEW R, R = RecordWork(s, added)
    PROVE  Records(R, s, added)
  <1>1. /\ added \in Seq(Block)
        /\ \A i, k \in DOMAIN added :
              /\ i < k => DaaScore[added[i]] < DaaScore[added[k]]
              /\ \A j \in DOMAIN Outputs[added[i]], l \in DOMAIN Outputs[added[k]] :
                    /\ Outputs[added[i]][j] = Outputs[added[k]][l] => i = k /\ j = l
                    /\ Outputs[added[i]][j] = Parent[Outputs[added[k]][l]] => i < k \/ (i = k /\ j < l)
    BY ChangedBlocks
  <1>2. /\ \A i \in DOMAIN added : added[i] \in Block /\ i \in Nat
        /\ \A i \in DOMAIN added : DaaScore[added[i]] \in Nat /\ Outputs[added[i]] \in Seq(Output)
    BY <1>1, ConstantFacts
  <1>3. \A i \in DOMAIN added : \A j \in DOMAIN Outputs[added[i]] :
           Outputs[added[i]][j] \in Output /\ j \in Nat
    BY <1>2
  <1> DEFINE of(i, j) == [subgraph |-> s, unwind |-> FALSE,
                          score |-> DaaScore[added[i]], output |-> Outputs[added[i]][j]]
             ss == [i \in DOMAIN added |-> [j \in DOMAIN Outputs[added[i]] |-> of(i, j)]]
  <1>4. R = FlattenSeq(ss)
    BY DEF RecordWork
  <1>5. \A i \in DOMAIN added : \A j \in DOMAIN Outputs[added[i]] : of(i, j) \in Item
    BY <1>2, <1>3 DEF Item
  <1>6. \A i, j : of(i, j).subgraph = s /\ of(i, j).unwind = FALSE
           /\ of(i, j).score = DaaScore[added[i]] /\ of(i, j).output = Outputs[added[i]][j]
    OBVIOUS
  <1> HIDE DEF of
  <1>7. /\ ss \in Seq(Seq(Item)) /\ Len(ss) = Len(added) /\ DOMAIN ss = DOMAIN added
        /\ \A i \in DOMAIN added : DOMAIN ss[i] = DOMAIN Outputs[added[i]]
        /\ \A i \in DOMAIN added : \A j \in DOMAIN Outputs[added[i]] : ss[i][j] = of(i, j)
    <2> HIDE DEF Item
    <2>1. \A i \in DOMAIN added : ss[i] \in Seq(Item)
      <3> SUFFICES ASSUME NEW i \in DOMAIN added PROVE ss[i] \in Seq(Item)
        OBVIOUS
      <3>1. DOMAIN Outputs[added[i]] = 1 .. Len(Outputs[added[i]]) /\ Len(Outputs[added[i]]) \in Nat
        BY <1>2
      <3>2. ss[i] = [j \in 1 .. Len(Outputs[added[i]]) |-> of(i, j)]
        BY <3>1
      <3> QED BY <1>5, <3>1, <3>2
    <2>2. DOMAIN added = 1 .. Len(added) /\ Len(added) \in Nat
      BY <1>1
    <2>3. ss \in Seq(Seq(Item))
      <3> DEFINE S == Seq(Item)
      <3>1. ss \in [1 .. Len(added) -> S]
        BY <2>1, <2>2
      <3> HIDE DEF S, ss
      <3>2. ss \in Seq(S)
        BY <2>2, <3>1
      <3> QED BY <3>2 DEF S
    <2>4. DOMAIN ss = DOMAIN added
      OBVIOUS
    <2>5. Len(ss) = Len(added)
      <3>1. DOMAIN ss = 1 .. Len(ss) /\ Len(ss) \in Nat
        <4> DEFINE S == Seq(Item)
        <4> HIDE DEF S, ss
        <4>1. ss \in Seq(S) BY <2>3 DEF S
        <4> QED BY <4>1
      <3> HIDE DEF ss
      <3> QED BY <2>2, <2>4, <3>1
    <2> QED BY <2>3, <2>4, <2>5
  <1> HIDE DEF ss
  <1>8. Flat(Item, ss, Len(added), R)
    BY <1>4, <1>7, Flattened
  <1>9. R \in Seq(Item)
    BY <1>8 DEF Flat
  <1>10. PICK row, col \in [DOMAIN R -> Nat] : Flattens(ss, Len(added), R, row, col)
    BY <1>8 DEF Flat
  <1>11. 1 .. Len(added) = DOMAIN added
    BY <1>1
  <1>12. \A k \in DOMAIN R :
            /\ row[k] \in DOMAIN added /\ col[k] \in DOMAIN Outputs[added[row[k]]]
            /\ R[k] = of(row[k], col[k])
    <2> SUFFICES ASSUME NEW k \in DOMAIN R
                 PROVE  /\ row[k] \in DOMAIN added /\ col[k] \in DOMAIN Outputs[added[row[k]]]
                        /\ R[k] = of(row[k], col[k])
      OBVIOUS
    <2>1. /\ row[k] \in 1 .. Len(added) /\ col[k] \in DOMAIN ss[row[k]]
          /\ R[k] = ss[row[k]][col[k]]
      BY <1>10 DEF Flattens
    <2> QED BY <1>7, <1>11, <2>1
  <1>13. ASSUME NEW k \in DOMAIN R
         PROVE  /\ R[k].subgraph = s /\ R[k].unwind = FALSE
                /\ \E b \in Range(added) : R[k].output \in Holds(b) /\ R[k].score = DaaScore[b]
    <2>1. added[row[k]] \in Range(added) /\ R[k].output \in Holds(added[row[k]])
      BY <1>6, <1>12 DEF Range, Holds
    <2> QED BY <1>6, <1>12, <2>1
  <1>14. ASSUME NEW k \in DOMAIN R, NEW l \in DOMAIN R, k < l
         PROVE  /\ R[k].score <= R[l].score /\ R[k].output # R[l].output
                /\ Parent[R[k].output] # R[l].output
    <2>1. PICK i \in DOMAIN added : i = row[k]
      BY <1>12
    <2>2. PICK y \in DOMAIN added : y = row[l]
      BY <1>12
    <2>3. PICK j \in DOMAIN Outputs[added[i]] : j = col[k]
      BY <1>12, <2>1
    <2>4. PICK x \in DOMAIN Outputs[added[y]] : x = col[l]
      BY <1>12, <2>2
    <2>5. i < y \/ (i = y /\ j < x)
      BY <1>10, <1>14, <2>1, <2>2, <2>3, <2>4 DEF Flattens
    <2>6. /\ R[k].score = DaaScore[added[i]] /\ R[k].output = Outputs[added[i]][j]
          /\ R[l].score = DaaScore[added[y]] /\ R[l].output = Outputs[added[y]][x]
      BY <1>6, <1>12, <2>1, <2>2, <2>3, <2>4
    <2>7. /\ i < y => DaaScore[added[i]] < DaaScore[added[y]]
          /\ Outputs[added[i]][j] = Outputs[added[y]][x] => i = y /\ j = x
          /\ Outputs[added[y]][x] = Parent[Outputs[added[i]][j]] => y < i \/ (y = i /\ x < j)
      BY <1>1
    <2>8. i \in Nat /\ y \in Nat /\ j \in Nat /\ x \in Nat
      BY <1>2, <1>3
    <2>9. DaaScore[added[i]] \in Nat /\ DaaScore[added[y]] \in Nat
      BY <1>2
    <2>10. ~(i = y /\ j = x) /\ ~(y < i \/ (y = i /\ x < j))
      BY <2>5, <2>8
    <2>11. DaaScore[added[i]] <= DaaScore[added[y]]
      BY <2>5, <2>7, <2>9
    <2> QED BY <2>6, <2>7, <2>10, <2>11
  <1>15. ASSUME NEW b \in Range(added), NEW o \in Holds(b) PROVE \E k \in DOMAIN R : R[k].output = o
    <2>1. PICK i \in DOMAIN added : added[i] = b
      BY DEF Range
    <2>2. PICK j \in DOMAIN Outputs[b] : Outputs[b][j] = o
      BY DEF Holds, Range
    <2>3. PICK k \in DOMAIN R : row[k] = i /\ col[k] = j
      BY <1>7, <1>10, <1>11, <2>1, <2>2 DEF Flattens
    <2> QED BY <1>6, <1>12, <2>1, <2>2, <2>3
  <1> QED BY <1>9, <1>13, <1>14, <1>15 DEF Records

\* All one runtime does for a chain change.
TodoOf(s, dropped, added) == UnwindWork(s, dropped) \o RecordWork(s, added)

LEMMA TodoIs ==
    ASSUME TypeInv, chain \in Chains \cup {<<>>}, NEW next \in Chains, NEW added, added = Added(next),
           NEW dropped, NEW s \in Subgraph, NEW W, W = TodoOf(s, dropped, added)
    PROVE  /\ W \in Seq(Item)
           /\ \A k \in DOMAIN W :
                 /\ W[k].subgraph = s
                 /\ ~W[k].unwind =>
                       \E b \in Range(added) : W[k].output \in Holds(b) /\ W[k].score = DaaScore[b]
                 /\ W[k].unwind => \A b \in known[s] \cap dropped : W[k].score <= DaaScore[b]
           /\ \A k, l \in DOMAIN W : k < l =>
                 /\ ~W[l].unwind
                 /\ ~W[k].unwind =>
                       /\ W[k].score <= W[l].score /\ W[k].output # W[l].output
                       /\ Parent[W[k].output] # W[l].output
           /\ \A b \in Range(added) : \A o \in Holds(b) : \E k \in DOMAIN W : ~W[k].unwind /\ W[k].output = o
           /\ known[s] \cap dropped # {} => \E k \in DOMAIN W : W[k].unwind
           /\ \A k \in DOMAIN W : W[k].unwind => \E b \in known[s] \cap dropped : W[k].score = DaaScore[b]
  <1>1. PICK R : R = RecordWork(s, added)
    OBVIOUS
  <1>2. /\ R \in Seq(Item)
        /\ \A k \in DOMAIN R :
              /\ R[k].subgraph = s /\ R[k].unwind = FALSE
              /\ \E b \in Range(added) : R[k].output \in Holds(b) /\ R[k].score = DaaScore[b]
        /\ \A k, l \in DOMAIN R : k < l =>
              /\ R[k].score <= R[l].score /\ R[k].output # R[l].output
              /\ Parent[R[k].output] # R[l].output
        /\ \A b \in Range(added) : \A o \in Holds(b) : \E k \in DOMAIN R : R[k].output = o
    <2>1. Records(R, s, added)
      BY <1>1, RecordWorkIs
    <2> QED BY <2>1 DEF Records
  <1>3. CASE known[s] \cap dropped = {}
    <2>1. W = R
      <3>1. W = <<>> \o R
        BY <1>1, <1>3 DEF TodoOf, UnwindWork
      <3> HIDE DEF Item
      <3> QED BY <1>2, <3>1
    <2> QED BY <1>2, <1>3, <2>1
  <1>4. CASE known[s] \cap dropped # {}
    <2> DEFINE T == {DaaScore[b] : b \in known[s] \cap dropped}
    <2>1. PICK m : m = Min(T)
      OBVIOUS
    <2>2. m \in T /\ m \in Nat /\ \A x \in T : m <= x
      <3>1. known[s] \subseteq Block
        BY DEF TypeInv
      <3>2. T \subseteq Nat /\ T # {}
        BY <1>4, <3>1, ConstantFacts
      <3> HIDE DEF T
      <3> QED BY <2>1, <3>2, MinIs
    <2>3. PICK u : u = [subgraph |-> s, unwind |-> TRUE, score |-> m, output |-> None]
      OBVIOUS
    <2>4. u \in Item /\ u.subgraph = s /\ u.unwind = TRUE /\ u.score = m
      BY <2>2, <2>3 DEF Item
    <2>5. W = <<u>> \o R
      BY <1>1, <1>4, <2>1, <2>3 DEF TodoOf, UnwindWork
    <2> HIDE DEF T
    <2>6. /\ W \in Seq(Item)
          /\ 1 \in DOMAIN W /\ W[1] = u
          /\ \A k \in DOMAIN W : k = 1 \/ (1 < k /\ k - 1 \in DOMAIN R /\ W[k] = R[k - 1])
          /\ \A k \in DOMAIN R : k + 1 \in DOMAIN W /\ W[k + 1] = R[k]
          /\ \A k \in DOMAIN W : k \in Nat
      <3> HIDE DEF Item
      <3>1. /\ W \in Seq(Item) /\ Len(W) = Len(R) + 1 /\ Len(R) \in Nat /\ W[1] = u
            /\ \A k \in 1 .. Len(W) : k > 1 => W[k] = R[k - 1]
        BY <1>2, <2>4, <2>5
      <3>2. DOMAIN W = 1 .. Len(R) + 1 /\ DOMAIN R = 1 .. Len(R)
        BY <1>2, <3>1
      <3> QED BY <3>1, <3>2
    <2>7. ASSUME NEW k \in DOMAIN W
          PROVE  /\ W[k].subgraph = s
                 /\ ~W[k].unwind =>
                       \E b \in Range(added) : W[k].output \in Holds(b) /\ W[k].score = DaaScore[b]
                 /\ W[k].unwind => W[k] = u
      <3>1. CASE k = 1
        BY <2>4, <2>6, <3>1
      <3>2. CASE k # 1
        <4>1. PICK l \in DOMAIN R : W[k] = R[l]
          BY <2>6, <3>2
        <4>2. W[k].subgraph = s /\ W[k].unwind = FALSE
          BY <1>2, <4>1
        <4>3. \E b \in Range(added) : W[k].output \in Holds(b) /\ W[k].score = DaaScore[b]
          BY <1>2, <4>1
        <4> QED BY <4>2, <4>3
      <3> QED BY <3>1, <3>2
    <2>8. ASSUME NEW k \in DOMAIN W, NEW l \in DOMAIN W, k < l
          PROVE  /\ ~W[l].unwind
                 /\ ~W[k].unwind =>
                       /\ W[k].score <= W[l].score /\ W[k].output # W[l].output
                       /\ Parent[W[k].output] # W[l].output
      <3>1. l # 1 /\ l - 1 \in DOMAIN R /\ W[l] = R[l - 1]
        BY <2>6, <2>8
      <3>2. CASE k = 1
        BY <1>2, <2>4, <2>6, <3>1, <3>2, ZenonT(60)
      <3>3. CASE k # 1
        <4>1. k - 1 \in DOMAIN R /\ W[k] = R[k - 1] /\ k - 1 < l - 1
          BY <2>6, <2>8, <3>3
        <4> QED BY <1>2, <3>1, <4>1
      <3> QED BY <3>2, <3>3
    <2>9. \A b \in Range(added) : \A o \in Holds(b) : \E k \in DOMAIN W : ~W[k].unwind /\ W[k].output = o
      BY <1>2, <2>6
    <2>10. /\ \A b \in known[s] \cap dropped : u.score <= DaaScore[b]
           /\ \E b \in known[s] \cap dropped : u.score = DaaScore[b]
      BY <2>2, <2>4 DEF T
    <2>11. W[1].unwind
      BY <2>4, <2>6
    <2> QED BY <2>6, <2>7, <2>8, <2>9, <2>10, <2>11
  <1> QED BY <1>3, <1>4

\* All there is to do for a chain change: one runtime after the other.
Fans(W, dropped, added) ==
    /\ W \in Seq(Item)
    /\ \A k \in DOMAIN W :
          /\ W[k].subgraph \in Range(runtimes)
          /\ ~W[k].unwind =>
                \E b \in Range(added) : W[k].output \in Holds(b) /\ W[k].score = DaaScore[b]
          /\ W[k].unwind => /\ \A b \in known[W[k].subgraph] \cap dropped : W[k].score <= DaaScore[b]
                            /\ \E b \in known[W[k].subgraph] \cap dropped : W[k].score = DaaScore[b]
    /\ \A k, l \in DOMAIN W : k < l =>
          /\ ~Before(W[l].subgraph, W[k].subgraph)
          /\ W[k].subgraph = W[l].subgraph =>
                /\ ~W[l].unwind
                /\ ~W[k].unwind =>
                      /\ W[k].score <= W[l].score /\ W[k].output # W[l].output
                      /\ Parent[W[k].output] # W[l].output
    /\ \A s \in Range(runtimes) : \A b \in Range(added) : \A o \in Holds(b) :
          \E k \in DOMAIN W : W[k].subgraph = s /\ ~W[k].unwind /\ W[k].output = o
    /\ \A s \in Range(runtimes) : known[s] \cap dropped # {} =>
          \E k \in DOMAIN W : W[k].subgraph = s /\ W[k].unwind

LEMMA FanOutIs ==
    ASSUME TypeInv, chain \in Chains \cup {<<>>}, NEW next \in Chains, NEW added, added = Added(next),
           NEW dropped, NEW W, W = FanOut(dropped, added)
    PROVE  Fans(W, dropped, added)
  <1>1. /\ runtimes \in Seq(Subgraph) /\ DOMAIN runtimes = 1 .. Len(runtimes) /\ Len(runtimes) \in Nat
        /\ \A i, j \in DOMAIN runtimes : runtimes[i] = runtimes[j] => i = j
        /\ \A i \in DOMAIN runtimes : runtimes[i] \in Subgraph /\ runtimes[i] \in Range(runtimes) /\ i \in Nat
    BY DEF TypeInv, Range
  <1> DEFINE ss == [i \in DOMAIN runtimes |-> TodoOf(runtimes[i], dropped, added)]
  <1>2. W = FlattenSeq(ss)
    BY DEF FanOut, TodoOf
  <1>3. \A i \in DOMAIN runtimes : ss[i] = TodoOf(runtimes[i], dropped, added)
    OBVIOUS
  <1>4. DOMAIN ss = DOMAIN runtimes
    OBVIOUS
  <1>5. \A i \in DOMAIN runtimes : ss[i] \in Seq(Item)
    BY <1>1, <1>3, TodoIs
  <1>6. ss \in Seq(Seq(Item)) /\ Len(ss) = Len(runtimes)
    <2> DEFINE S == Seq(Item)
    <2>1. ss \in [1 .. Len(runtimes) -> S]
      BY <1>1, <1>5
    <2> HIDE DEF S, ss
    <2>2. ss \in Seq(S)
      BY <1>1, <2>1
    <2>3. Len(ss) = Len(runtimes)
      BY <1>1, <1>4, <2>2
    <2> QED BY <2>2, <2>3 DEF S
  <1> HIDE DEF ss
  <1>7. Flat(Item, ss, Len(runtimes), W)
    BY <1>2, <1>6, Flattened
  <1>8. W \in Seq(Item)
    BY <1>7 DEF Flat
  <1>9. PICK row, col \in [DOMAIN W -> Nat] : Flattens(ss, Len(runtimes), W, row, col)
    BY <1>7 DEF Flat
  <1>10. /\ \A k \in DOMAIN W :
              /\ row[k] \in DOMAIN runtimes /\ col[k] \in DOMAIN ss[row[k]]
              /\ W[k] = ss[row[k]][col[k]]
         /\ \A k, l \in DOMAIN W : k < l => row[k] < row[l] \/ (row[k] = row[l] /\ col[k] < col[l])
         /\ \A i \in DOMAIN runtimes : \A j \in DOMAIN ss[i] : \E k \in DOMAIN W : row[k] = i /\ col[k] = j
    BY <1>1, <1>9 DEF Flattens
  <1>11. \A i \in DOMAIN runtimes : \A j \in DOMAIN ss[i] :
            /\ ss[i][j].subgraph = runtimes[i]
            /\ ~ss[i][j].unwind =>
                  \E b \in Range(added) : ss[i][j].output \in Holds(b) /\ ss[i][j].score = DaaScore[b]
            /\ ss[i][j].unwind => /\ \A b \in known[runtimes[i]] \cap dropped : ss[i][j].score <= DaaScore[b]
                                  /\ \E b \in known[runtimes[i]] \cap dropped : ss[i][j].score = DaaScore[b]
    <2> SUFFICES ASSUME NEW i \in DOMAIN runtimes, NEW j \in DOMAIN ss[i]
                 PROVE  /\ ss[i][j].subgraph = runtimes[i]
                        /\ ~ss[i][j].unwind =>
                              \E b \in Range(added) :
                                 ss[i][j].output \in Holds(b) /\ ss[i][j].score = DaaScore[b]
                        /\ ss[i][j].unwind =>
                              /\ \A b \in known[runtimes[i]] \cap dropped : ss[i][j].score <= DaaScore[b]
                              /\ \E b \in known[runtimes[i]] \cap dropped : ss[i][j].score = DaaScore[b]
      OBVIOUS
    <2>1. PICK T : T = ss[i] OBVIOUS
    <2>2. T = TodoOf(runtimes[i], dropped, added) /\ runtimes[i] \in Subgraph
      BY <1>1, <1>3, <2>1
    <2>3. /\ T[j].subgraph = runtimes[i]
          /\ ~T[j].unwind => \E b \in Range(added) : T[j].output \in Holds(b) /\ T[j].score = DaaScore[b]
          /\ T[j].unwind => \A b \in known[runtimes[i]] \cap dropped : T[j].score <= DaaScore[b]
          /\ T[j].unwind => \E b \in known[runtimes[i]] \cap dropped : T[j].score = DaaScore[b]
      BY <2>1, <2>2, TodoIs
    <2> QED BY <2>1, <2>3
  <1>12. \A k \in DOMAIN W : W[k].subgraph = runtimes[row[k]]
    BY <1>10, <1>11
  <1>13. ASSUME NEW k \in DOMAIN W
         PROVE  /\ W[k].subgraph \in Range(runtimes)
                /\ ~W[k].unwind =>
                      \E b \in Range(added) : W[k].output \in Holds(b) /\ W[k].score = DaaScore[b]
                /\ W[k].unwind =>
                      /\ \A b \in known[W[k].subgraph] \cap dropped : W[k].score <= DaaScore[b]
                      /\ \E b \in known[W[k].subgraph] \cap dropped : W[k].score = DaaScore[b]
    <2>1. PICK i \in DOMAIN runtimes, j \in DOMAIN ss[row[k]] : i = row[k] /\ W[k] = ss[i][j]
      BY <1>10
    <2> QED BY <1>1, <1>11, <2>1, SMTT(30)
  <1>14. ASSUME NEW k \in DOMAIN W, NEW l \in DOMAIN W, k < l
         PROVE  /\ ~Before(W[l].subgraph, W[k].subgraph)
                /\ W[k].subgraph = W[l].subgraph =>
                      /\ ~W[l].unwind
                      /\ ~W[k].unwind =>
                            /\ W[k].score <= W[l].score /\ W[k].output # W[l].output
                            /\ Parent[W[k].output] # W[l].output
    <2>1. row[k] < row[l] \/ (row[k] = row[l] /\ col[k] < col[l])
      BY <1>10, <1>14
    <2>2. ~Before(W[l].subgraph, W[k].subgraph)
      <3> SUFFICES ASSUME NEW i \in DOMAIN runtimes, NEW j \in DOMAIN runtimes, i < j,
                          runtimes[i] = runtimes[row[l]], runtimes[j] = runtimes[row[k]]
                   PROVE  FALSE
        BY <1>12 DEF Before
      <3>1. i = row[l] /\ j = row[k]
        BY <1>1, <1>10
      <3> QED BY <1>1, <1>10, <2>1, <3>1
    <2>3. ASSUME W[k].subgraph = W[l].subgraph
          PROVE  /\ ~W[l].unwind
                 /\ ~W[k].unwind =>
                       /\ W[k].score <= W[l].score /\ W[k].output # W[l].output
                       /\ Parent[W[k].output] # W[l].output
      <3>1. row[k] = row[l] /\ row[k] \in DOMAIN runtimes
        BY <1>1, <1>10, <1>12, <2>3
      <3>2. col[k] < col[l]
        BY <1>1, <2>1, <3>1
      <3>3. PICK T : T = ss[row[k]]
        OBVIOUS
      <3>4. T = TodoOf(runtimes[row[k]], dropped, added) /\ runtimes[row[k]] \in Subgraph
        BY <1>1, <1>3, <3>1, <3>3
      <3>5. PICK x \in DOMAIN T, y \in DOMAIN T : x < y /\ W[k] = T[x] /\ W[l] = T[y]
        BY <1>10, <3>1, <3>2, <3>3
      <3>6. /\ ~T[y].unwind
            /\ ~T[x].unwind =>
                  /\ T[x].score <= T[y].score /\ T[x].output # T[y].output
                  /\ Parent[T[x].output] # T[y].output
        BY <3>4, <3>5, TodoIs
      <3> QED BY <3>5, <3>6
    <2> QED BY <2>2, <2>3
  <1>15. ASSUME NEW s \in Range(runtimes)
         PROVE  /\ \A b \in Range(added) : \A o \in Holds(b) :
                      \E k \in DOMAIN W : W[k].subgraph = s /\ ~W[k].unwind /\ W[k].output = o
                /\ known[s] \cap dropped # {} => \E k \in DOMAIN W : W[k].subgraph = s /\ W[k].unwind
    <2>1. PICK i \in DOMAIN runtimes : runtimes[i] = s
      BY DEF Range
    <2>2. PICK T : T = ss[i]
      OBVIOUS
    <2>3. T = TodoOf(s, dropped, added) /\ s \in Subgraph
      BY <1>1, <1>3, <2>1, <2>2
    <2>4. \A j \in DOMAIN T : \E k \in DOMAIN W : W[k].subgraph = s /\ W[k] = T[j]
      BY <1>10, <1>12, <2>1, <2>2
    <2>5. /\ \A b \in Range(added) : \A o \in Holds(b) : \E k \in DOMAIN T : ~T[k].unwind /\ T[k].output = o
          /\ known[s] \cap dropped # {} => \E k \in DOMAIN T : T[k].unwind
      BY <2>3, TodoIs
    <2>6. ASSUME NEW b \in Range(added), NEW o \in Holds(b)
          PROVE  \E k \in DOMAIN W : W[k].subgraph = s /\ ~W[k].unwind /\ W[k].output = o
      <3>1. PICK j \in DOMAIN T : ~T[j].unwind /\ T[j].output = o
        BY <2>5
      <3> QED BY <2>4, <3>1
    <2>7. ASSUME known[s] \cap dropped # {} PROVE \E k \in DOMAIN W : W[k].subgraph = s /\ W[k].unwind
      <3>1. PICK j \in DOMAIN T : T[j].unwind
        BY <2>5, <2>7
      <3> QED BY <2>4, <3>1
    <2> QED BY <2>6, <2>7
  <1> QED BY <1>8, <1>13, <1>14, <1>15 DEF Fans

LEMMA ChainStep ==
    ASSUME LInv, ChainChanged, ~disturbed'
    PROVE  LInv'
  <1>1. PICK next \in Chains :
           /\ work = <<>>
           /\ chain' = next
           /\ known' = [s \in Subgraph |->
                           IF s \in Range(runtimes)
                           THEN (known[s] \ (Range(chain) \ Range(next))) \cup Range(Added(next))
                           ELSE known[s]]
           /\ work' = FanOut(Range(chain) \ Range(next), Added(next))
           /\ UNCHANGED <<runtimes, utxos, head, rows, stopped>>
           /\ Merges(next) => runtimes = AtStart
    BY DEF ChainChanged, Idle, storeVars
  <1>2. PICK added : added = Added(next)
    OBVIOUS
  <1>3. PICK dropped : dropped = Range(chain) \ Range(next)
    OBVIOUS
  <1>4. /\ TypeInv /\ KnownInv /\ WorkInv /\ TrackInv /\ CovenantInv /\ AgreeInv
        /\ RowInv /\ HeadInv /\ OwnInv /\ StrandInv /\ EdgeInv
    BY DEF LInv
  <1>5. chain \in Chains \cup {<<>>}
    BY <1>4 DEF KnownInv
  <1>6. /\ added \in Seq(Block)
        /\ Range(next) \subseteq Range(added) \cup Range(chain)
        /\ Range(added) \subseteq Range(next) /\ Range(added) \cap Range(chain) = {}
        /\ \A b \in Range(next) \cap Range(chain) :
              /\ \A a \in Range(added) :
                    /\ DaaScore[b] < DaaScore[a]
                    /\ \A o \in Holds(b) : o \notin Holds(a) /\ Parent[o] \notin Holds(a)
              /\ \A d \in Range(chain) \ Range(next) : DaaScore[b] < DaaScore[d]
    BY <1>2, <1>5, ChangedBlocks
  <1>7. Fans(work', dropped, added)
    BY <1>1, <1>2, <1>3, <1>4, <1>5, FanOutIs
  <1>8. /\ work' \in Seq(Item)
        /\ \A k \in DOMAIN work' :
              /\ work'[k].subgraph \in Range(runtimes)
              /\ ~work'[k].unwind =>
                    \E b \in Range(added) : work'[k].output \in Holds(b) /\ work'[k].score = DaaScore[b]
              /\ work'[k].unwind =>
                    /\ \A b \in known[work'[k].subgraph] \cap dropped : work'[k].score <= DaaScore[b]
                    /\ \E b \in known[work'[k].subgraph] \cap dropped : work'[k].score = DaaScore[b]
        /\ \A k, l \in DOMAIN work' : k < l =>
              /\ ~Before(work'[l].subgraph, work'[k].subgraph)
              /\ work'[k].subgraph = work'[l].subgraph =>
                    /\ ~work'[l].unwind
                    /\ ~work'[k].unwind =>
                          /\ work'[k].score <= work'[l].score /\ work'[k].output # work'[l].output
                          /\ Parent[work'[k].output] # work'[l].output
        /\ \A s \in Range(runtimes) : \A b \in Range(added) : \A o \in Holds(b) :
              \E k \in DOMAIN work' : work'[k].subgraph = s /\ ~work'[k].unwind /\ work'[k].output = o
        /\ \A s \in Range(runtimes) : known[s] \cap dropped # {} =>
              \E k \in DOMAIN work' : work'[k].subgraph = s /\ work'[k].unwind
    BY <1>7 DEF Fans
  <1>9. \A t, u : Before(t, u)' <=> Before(t, u)
    BY <1>1 DEF Before
  <1>10. \A s \in Range(runtimes) : s \in Subgraph
    BY <1>4 DEF TypeInv, Range
  <1>11. /\ \A s \in Range(runtimes) : known'[s] = (known[s] \ dropped) \cup Range(added)
         /\ \A s \in Subgraph : s \notin Range(runtimes) => known'[s] = known[s]
    BY <1>1, <1>2, <1>3, <1>10
  <1>12. \A s : Cuts(s) = {} /\ Ahead(s) = {}
    BY <1>1 DEF Cuts, Ahead
  <1>13. \A s : Lasting(s) = DOMAIN utxos[s]
    BY <1>12 DEF Lasting
  <1>14. \A s : Lasting(s)' \subseteq Lasting(s)
    BY <1>1, <1>13 DEF Lasting
  <1>15. \A s : Ahead(s)' \subseteq UNION {Holds(b) : b \in Range(added)}
    <2> SUFFICES ASSUME NEW s, NEW k \in DOMAIN work', ~work'[k].unwind
                 PROVE  work'[k].output \in UNION {Holds(b) : b \in Range(added)}
      BY DEF Ahead
    <2>1. PICK b \in Range(added) : work'[k].output \in Holds(b)
      BY <1>8
    <2> QED BY <2>1
  <1>16. \A s \in Range(runtimes) : Ahead(s)' = UNION {Holds(b) : b \in Range(added)}
    <2> SUFFICES ASSUME NEW s \in Range(runtimes), NEW b \in Range(added), NEW o \in Holds(b)
                 PROVE  o \in Ahead(s)'
      BY <1>15
    <2>1. PICK k \in DOMAIN work' : work'[k].subgraph = s /\ ~work'[k].unwind /\ work'[k].output = o
      BY <1>8
    <2> QED BY <2>1 DEF Ahead
  <1>17. TypeInv'
    <2>1. known' \in [Subgraph -> SUBSET Block]
      <3>1. Range(added) \subseteq Block
        BY <1>6 DEF Range
      <3>2. known \in [Subgraph -> SUBSET Block]
        BY <1>4 DEF TypeInv
      <3>3. known' = [s \in Subgraph |-> IF s \in Range(runtimes) THEN (known[s] \ dropped) \cup Range(added)
                                         ELSE known[s]]
        BY <1>1, <1>2, <1>3
      <3> QED BY <3>1, <3>2, <3>3
    <2> QED BY <1>1, <1>4, <1>8, <2>1 DEF TypeInv
  <1>18. KnownInv'
    <2>1. \A s \in Subgraph : known[s] \subseteq Range(chain)
      BY <1>4 DEF KnownInv
    <2>2. ASSUME NEW s \in Subgraph PROVE known'[s] \subseteq Range(chain')
      <3>1. CASE s \in Range(runtimes)
        BY <1>1, <1>3, <1>6, <1>11, <2>1, <3>1
      <3>2. CASE s \notin Range(runtimes)
        BY <1>4, <1>11, <3>2 DEF KnownInv
      <3> QED BY <3>1, <3>2
    <2>3. ASSUME NEW s \in Subgraph, NEW t \in Subgraph, Before(s, t)
          PROVE  known'[t] \subseteq known'[s]
      <3>1. s \in Range(runtimes) /\ t \in Range(runtimes)
        BY <1>4, <2>3, BeforeIsOrder
      <3>2. known[t] \subseteq known[s]
        BY <1>4, <2>3 DEF KnownInv
      <3> QED BY <1>11, <3>1, <3>2
    <2>4. ASSUME NEW s \in Range(AtStart)
          PROVE  s \in Range(runtimes') /\ known'[s] = Range(chain')
      <3>1. s \in Range(runtimes) /\ known[s] = Range(chain)
        BY <1>4 DEF KnownInv
      <3>2. known'[s] = (Range(chain) \ dropped) \cup Range(added)
        BY <1>11, <3>1
      <3> QED BY <1>1, <1>3, <1>6, <3>1, <3>2
    <2>5. \A s \in Subgraph \ Range(runtimes') : known'[s] = {} /\ DOMAIN utxos'[s] = {}
      BY <1>1, <1>4, <1>11 DEF KnownInv
    <2>6. Merges(chain') => runtimes' = AtStart
      BY <1>1
    <2> QED BY <1>1, <1>9, <2>2, <2>3, <2>4, <2>5, <2>6 DEF KnownInv
  <1>19. WorkInv'
    <2>1. ASSUME NEW k \in DOMAIN work'
          PROVE  /\ work'[k].subgraph \in Range(runtimes')
                 /\ ~work'[k].unwind =>
                      \E b \in known'[work'[k].subgraph] :
                          work'[k].output \in Holds(b) /\ work'[k].score = DaaScore[b]
      <3>1. work'[k].subgraph \in Range(runtimes)
        BY <1>8
      <3>2. PICK s : s = work'[k].subgraph
        OBVIOUS
      <3>3. known'[s] = (known[s] \ dropped) \cup Range(added)
        BY <1>11, <3>1, <3>2
      <3>4. ~work'[k].unwind =>
               \E b \in Range(added) : work'[k].output \in Holds(b) /\ work'[k].score = DaaScore[b]
        BY <1>8
      <3> QED BY <1>1, <3>1, <3>2, <3>3, <3>4
    <2>2. \A k, l \in DOMAIN work' : k < l => ~(Before(work[l].subgraph, work[k].subgraph))'
      <3>1. \A k, l \in DOMAIN work' : k < l => ~Before(work'[l].subgraph, work'[k].subgraph)
        BY <1>8
      <3>2. runtimes' = runtimes
        BY <1>1
      <3> QED BY <3>1, <3>2 DEF Before
    <2>3. \A k, l \in DOMAIN work' : k < l =>
             (work'[k].subgraph = work'[l].subgraph =>
                    /\ ~work'[l].unwind
                    /\ ~work'[k].unwind =>
                          /\ work'[k].score <= work'[l].score /\ work'[k].output # work'[l].output
                          /\ Parent[work'[k].output] # work'[l].output)
      BY <1>8
    <2>4. \A s, t \in Subgraph : Before(s, t)' => Ahead(s)' \subseteq Ahead(t)'
      <3> SUFFICES ASSUME NEW s \in Subgraph, NEW t \in Subgraph, Before(s, t)
                   PROVE  Ahead(s)' \subseteq Ahead(t)'
        BY <1>9
      <3>1. s \in Range(runtimes) /\ t \in Range(runtimes)
        BY <1>4, BeforeIsOrder
      <3> QED BY <1>16, <3>1
    <2> QED BY <2>1, <2>2, <2>3, <2>4 DEF WorkInv
  <1>20. TrackInv'
    <2>1. ASSUME NEW s \in Subgraph, NEW o \in Lasting(s)'
          PROVE  /\ \E b \in known'[s] : o \in Holds(b) /\ utxos'[s][o].score = DaaScore[b]
                 /\ o \notin Ahead(s)' /\ Parent[o] \notin Ahead(s)'
                 /\ \A k \in DOMAIN work' :
                       work'[k].subgraph = s /\ ~work'[k].unwind => utxos'[s][o].score <= work'[k].score
      <3>1. o \in Lasting(s) /\ o \in DOMAIN utxos[s] /\ \A x \in Cuts(s)' : utxos[s][o].score < x
        BY <1>1, <1>13, <1>14, <2>1 DEF Lasting
      <3>2. PICK b \in known[s] : o \in Holds(b) /\ utxos[s][o].score = DaaScore[b]
        BY <1>4, <3>1 DEF TrackInv
      <3>3. s \in Range(runtimes)
        BY <1>4, <3>1 DEF KnownInv
      <3>4. b \notin dropped
        <4> SUFFICES ASSUME b \in dropped PROVE FALSE
          OBVIOUS
        <4>1. PICK k \in DOMAIN work' : work'[k].subgraph = s /\ work'[k].unwind
          BY <1>8, <3>2, <3>3
        <4>2. work'[k].score <= DaaScore[b] /\ work'[k].score \in Cuts(s)'
          BY <1>8, <4>1 DEF Cuts
        <4>3. work'[k].score \in Nat /\ DaaScore[b] \in Nat
          <5>1. work'[k] \in Item
            <6> HIDE DEF Item
            <6> QED BY <1>8
          <5>2. b \in Block
            BY <1>4 DEF TypeInv
          <5> QED BY <5>1, <5>2, ConstantFacts DEF Item
        <4> QED BY <3>1, <3>2, <4>2, <4>3
      <3>5. b \in known'[s] /\ b \in Range(next) \cap Range(chain)
        BY <1>3, <1>4, <1>11, <3>3, <3>4 DEF KnownInv
      <3>6. o \notin Ahead(s)' /\ Parent[o] \notin Ahead(s)'
        BY <1>6, <1>15, <3>2, <3>5
      <3>7. ASSUME NEW k \in DOMAIN work', work'[k].subgraph = s, ~work'[k].unwind
            PROVE  utxos'[s][o].score <= work'[k].score
        <4>1. PICK a \in Range(added) : work'[k].score = DaaScore[a]
          BY <1>8, <3>7
        <4>2. DaaScore[b] < DaaScore[a]
          BY <1>6, <3>5
        <4>3. DaaScore[b] \in Nat /\ DaaScore[a] \in Nat
          <5>1. a \in Block /\ b \in Block
            BY <1>4, <1>6 DEF TypeInv, Range
          <5> QED BY <5>1, ConstantFacts
        <4> QED BY <1>1, <3>2, <4>1, <4>2, <4>3
      <3> QED BY <1>1, <3>2, <3>5, <3>6, <3>7
    <2>2. ASSUME NEW s \in Subgraph, NEW b \in known'[s]
          PROVE  Holds(b) \subseteq Lasting(s)' \cup Ahead(s)'
      <3>1. s \in Range(runtimes)
        BY <1>4, <1>11 DEF KnownInv
      <3>2. CASE b \in Range(added)
        BY <1>16, <3>1, <3>2
      <3>3. CASE b \notin Range(added)
        <4>1. b \in known[s] /\ b \notin dropped
          BY <1>11, <3>1, <3>3
        <4>2. b \in Range(next) \cap Range(chain)
          BY <1>3, <1>4, <4>1 DEF KnownInv
        <4> SUFFICES ASSUME NEW o \in Holds(b) PROVE o \in Lasting(s)'
          OBVIOUS
        <4>3. o \in Lasting(s) /\ o \in DOMAIN utxos[s]
          BY <1>4, <1>12, <1>13, <4>1 DEF TrackInv
        <4>4. PICK a \in known[s] : o \in Holds(a) /\ utxos[s][o].score = DaaScore[a]
          BY <1>4, <4>3 DEF TrackInv
        <4>5. a = b
          <5>1. a \in Range(chain) /\ b \in Range(chain)
            BY <1>4, <4>1 DEF KnownInv
          <5> QED BY <1>5, <4>4, <5>1, ChainFacts
        <4>6. ASSUME NEW x \in Cuts(s)' PROVE utxos[s][o].score < x
          <5>1. PICK k \in DOMAIN work' : work'[k].subgraph = s /\ work'[k].unwind /\ x = work'[k].score
            BY DEF Cuts
          <5>2. PICK d \in dropped : x = DaaScore[d]
            BY <1>8, <5>1
          <5> QED BY <1>3, <1>6, <4>2, <4>4, <4>5, <5>2
        <4> QED BY <1>1, <4>3, <4>6 DEF Lasting
      <3> QED BY <3>2, <3>3
    <2> QED BY <2>1, <2>2 DEF TrackInv
  <1>21. CovenantInv'
    BY <1>1, <1>4 DEF CovenantInv, Cov
  <1>22. AgreeInv'
    BY <1>1, <1>4, <1>9, <1>14 DEF AgreeInv, Cov
  <1>23. RowInv' /\ HeadInv' /\ EdgeInv'
    BY <1>1, <1>4 DEF RowInv, HeadInv, HeadsStandOnRows, RowsOf, EdgeInv, Cov
  <1>24. OwnInv'
    BY <1>1, <1>4, <1>14 DEF OwnInv, Cov, Before
  <1>25. StrandInv'
    <2>1. ASSUME NEW c \in DOMAIN head, NEW s \in Subgraph, Before(s, head[c].subgraph)
          PROVE  /\ Parent[c] \in Output
                 /\ \A b \in Range(next) : Parent[c] \in Holds(b) => b \in known'[s]
      <3>1. s \in Range(runtimes)
        BY <1>4, <2>1, BeforeIsOrder
      <3>2. /\ Parent[c] \in Output
            /\ \A b \in Range(chain) : Parent[c] \in Holds(b) => b \in known[s]
        BY <1>4, <2>1 DEF StrandInv
      <3>3. ASSUME NEW b \in Range(next), Parent[c] \in Holds(b) PROVE b \in known'[s]
        BY <1>3, <1>6, <1>11, <3>1, <3>2, <3>3
      <3> QED BY <3>2, <3>3
    <2> QED BY <1>1, <2>1 DEF StrandInv, Before
  <1> QED BY <1>17, <1>18, <1>19, <1>20, <1>21, <1>22, <1>23, <1>24, <1>25 DEF LInv

------------------------------------------------------------------------------

(***************************************************************************)
(* The properties.                                                         *)
(***************************************************************************)

\* As long as the set of runtimes is undisturbed, LInv holds.
LineageInv == ~disturbed => LInv

LEMMA LineageStep == LineageInv /\ [Next]_vars => LineageInv'
  <1> SUFFICES ASSUME LineageInv, [Next]_vars, ~disturbed' PROVE LInv'
    BY DEF LineageInv
  <1>1. ~disturbed
    BY DEF Next, vars, ChainChanged, Unwind, Record, Deploy, Undeploy, Restart
  <1>2. LInv
    BY <1>1 DEF LineageInv
  <1>3. CASE ChainChanged
    BY <1>2, <1>3, ChainStep
  <1>4. CASE Unwind
    BY <1>2, <1>4, UnwindStep
  <1>5. CASE Record
    BY <1>2, <1>5, RecordStep
  <1>6. ASSUME NEW s \in Subgraph, Deploy(s) PROVE LInv'
    <2>1. ~Merges(chain)
      BY <1>6 DEF Deploy
    <2> QED BY <1>2, <1>6, <2>1, DeployStep
  <1>7. ASSUME NEW s \in Subgraph, Undeploy(s) PROVE LInv'
    BY <1>7 DEF Undeploy
  <1>8. CASE Restart
    BY <1>8 DEF Restart
  <1>9. CASE UNCHANGED vars
    BY <1>2, <1>9, StutterStep
  <1> QED BY <1>3, <1>4, <1>5, <1>6, <1>7, <1>8, <1>9 DEF Next

LEMMA LineageHolds == Spec => []LineageInv
  <1>1. Init => LineageInv
    BY LineageInit DEF LineageInv, Init
  <1> QED BY <1>1, LineageStep, PTL DEF Spec

\* The rows of a covenant are numbered from 0 without a gap and its head stands on the last
\* one, whatever chains upstream selects and whenever subgraphs are deployed.
THEOREM HeadsAlwaysMatch == Spec => []HeadsMatchRows
  <1>1. LineageInv => HeadsMatchRows
    BY DEF LineageInv, LInv, HeadInv, HeadsMatchRows
  <1> QED BY <1>1, LineageHolds, PTL

\* No insert meets a row that is there already under its number or its output.
THEOREM KeysAreFree == Spec => []InsertsFindFreeKeys
  <1>1. LineageInv => InsertsFindFreeKeys
    BY DEF LineageInv, LInv, TypeInv, InsertsFindFreeKeys
  <1> QED BY <1>1, LineageHolds, PTL

\* The parent a row names was recorded before it in the same covenant.
THEOREM EdgesAlwaysRecorded == Spec => []EdgesAreRecorded
  <1>1. LineageInv => EdgesAreRecorded
    BY DEF LineageInv, LInv, EdgeInv, EdgesAreRecorded, RowsOf
  <1> QED BY <1>1, LineageHolds, PTL

LEMMA IdleTracks ==
    ASSUME LInv, Idle, NEW s \in Range(AtStart)
    PROVE  /\ s \in Subgraph /\ Lasting(s) = DOMAIN utxos[s] /\ Ahead(s) = {}
           /\ known[s] = Range(chain)
           /\ DOMAIN utxos[s] = {o \in Output : OnChain(o)}
  <1>1. TypeInv /\ KnownInv /\ TrackInv /\ work = <<>>
    BY DEF LInv, Idle
  <1>2. s \in Subgraph /\ known[s] = Range(chain)
    <2>1. AtStart \in Seq(Subgraph)
      BY LineageAssumption
    <2> QED BY <1>1, <2>1 DEF KnownInv, Range
  <1>3. Lasting(s) = DOMAIN utxos[s] /\ Ahead(s) = {}
    BY <1>1 DEF Lasting, Cuts, Ahead
  <1>4. \A o \in DOMAIN utxos[s] : o \in Output /\ \E b \in Range(chain) : o \in Holds(b)
    BY <1>1, <1>2, <1>3 DEF TypeInv, TrackInv
  <1>5. \A b \in Range(chain) : Holds(b) \subseteq DOMAIN utxos[s]
    BY <1>1, <1>2, <1>3 DEF TrackInv
  <1> QED BY <1>2, <1>3, <1>4, <1>5 DEF OnChain, Holds

\* Every subgraph the node started with tracks the outputs on the selected chain, and a
\* descendant carries its ancestors' covenant, on every chain.
THEOREM TrackersAlwaysFollow == Spec => []TrackersFollowChain
  <1>1. LInv => TrackersFollowChain
    <2> SUFFICES ASSUME LInv, Idle, NEW s \in Range(AtStart)
                 PROVE  /\ DOMAIN utxos[s] = {o \in Output : OnChain(o)}
                        /\ \A o \in DOMAIN utxos[s] :
                              utxos[s][o].covenant =
                                  IF Inputs[o] = <<>> THEN o ELSE utxos[s][Inputs[o][1]].covenant
      BY DEF TrackersFollowChain
    <2>1. /\ s \in Subgraph /\ Lasting(s) = DOMAIN utxos[s] /\ Ahead(s) = {}
          /\ known[s] = Range(chain)
          /\ DOMAIN utxos[s] = {o \in Output : OnChain(o)}
      BY IdleTracks
    <2>2. KnownInv /\ TrackInv /\ CovenantInv
      BY DEF LInv
    <2>3. ASSUME NEW o \in DOMAIN utxos[s], Parent[o] = None PROVE utxos[s][o].covenant = o
      <3>1. None \notin DOMAIN utxos[s]
        BY <2>1, ConstantFacts
      <3> QED BY <2>1, <2>2, <2>3, <3>1 DEF CovenantInv, Cov
    <2>4. ASSUME NEW o \in DOMAIN utxos[s], Parent[o] # None
          PROVE  utxos[s][o].covenant = utxos[s][Parent[o]].covenant
      <3>1. PICK b \in Range(chain) : o \in Holds(b)
        BY <2>1, <2>2 DEF TrackInv
      <3>2. PICK a \in Range(chain) : Parent[o] \in Holds(a)
        BY <2>2, <2>4, <3>1, ChainFacts DEF KnownInv
      <3>3. Parent[o] \in DOMAIN utxos[s]
        BY <2>1, <2>2, <3>2 DEF TrackInv
      <3> QED BY <2>1, <2>2, <3>3 DEF CovenantInv, Cov
    <2>5. ASSUME NEW o \in DOMAIN utxos[s]
          PROVE  /\ Inputs[o] = <<>> => Parent[o] = None
                 /\ Inputs[o] # <<>> => Parent[o] = Inputs[o][1] /\ Parent[o] # None
      <3>1. o \in Output
        BY <2>1
      <3>2. Inputs[o] \in Seq(Output) /\ None \notin Output
        BY <3>1, LineageAssumption
      <3>3. Inputs[o] # <<>> => Inputs[o][1] \in Output
        BY <3>2
      <3> QED BY <3>1, <3>2, <3>3 DEF Parent
    <2> QED BY <2>1, <2>3, <2>4, <2>5
  <1>2. LineageInv => TrackersFollowChain
    BY <1>1 DEF LineageInv, TrackersFollowChain
  <1> QED BY <1>2, LineageHolds, PTL

\* The lineage rows are those of the outputs on the selected chain, stamped with the score
\* of the block that holds them there.
THEOREM RowsAlwaysFollow == Spec => []LineageFollowsChain
  <1>1. LInv => LineageFollowsChain
    <2> SUFFICES ASSUME LInv, Idle
                 PROVE  /\ {r.output : r \in rows} = {o \in Output : OnChain(o)}
                        /\ \A r \in rows : r.score \in ScoreOf(r.output)
      BY DEF LineageFollowsChain
    <2>1. TypeInv /\ KnownInv /\ TrackInv /\ RowInv /\ OwnInv /\ work = <<>>
      BY DEF LInv, Idle
    <2>2. ASSUME NEW r \in rows
          PROVE  r.output \in Output /\ OnChain(r.output) /\ r.score \in ScoreOf(r.output)
      <3>1. r.subgraph \in Subgraph /\ r.output \in Output
        BY <2>1 DEF TypeInv, Row
      <3>2. Lasting(r.subgraph) = DOMAIN utxos[r.subgraph]
        BY <2>1 DEF Lasting, Cuts
      <3>3. r.output \in Lasting(r.subgraph) /\ utxos[r.subgraph][r.output].score = r.score
        BY <2>1, <3>2 DEF RowInv
      <3>4. PICK b \in known[r.subgraph] : r.output \in Holds(b) /\ r.score = DaaScore[b]
        BY <2>1, <3>1, <3>3 DEF TrackInv
      <3>5. b \in Range(chain)
        BY <2>1, <3>1 DEF KnownInv
      <3> QED BY <3>1, <3>4, <3>5 DEF OnChain, ScoreOf, Holds
    <2>3. ASSUME NEW o \in Output, OnChain(o) PROVE \E r \in rows : r.output = o
      <3>1. PICK s : s \in Range(AtStart)
        <4>1. AtStart \in Seq(Subgraph) /\ AtStart # <<>>
          BY LineageAssumption
        <4>2. 1 \in DOMAIN AtStart
          BY <4>1
        <4> QED BY <4>2 DEF Range
      <3>2. s \in Subgraph /\ o \in Lasting(s)
        BY <2>3, <3>1, IdleTracks
      <3> QED BY <2>1, <3>2 DEF OwnInv
    <2> QED BY <2>2, <2>3
  <1>2. LineageInv => LineageFollowsChain
    BY <1>1 DEF LineageInv, LineageFollowsChain
  <1> QED BY <1>2, LineageHolds, PTL

==============================================================================
