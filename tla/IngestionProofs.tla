--------------------------- MODULE IngestionProofs ---------------------------
(***************************************************************************)
(* Theorems about Ingestion, for every set of blocks, every assignment of  *)
(* DAA scores and every finality depth.                                    *)
(*                                                                         *)
(* The inductive invariant is the conjunction of the three state           *)
(* properties.  The action properties need all three: OneBlockPerScore     *)
(* excludes that promotion overwrites a committed block, and               *)
(* NothingFinalizedWaits excludes that a flag set by an earlier block      *)
(* commits anything now.                                                   *)
(***************************************************************************)
EXTENDS Ingestion, TLAPS

IInv == TypeOK /\ OneBlockPerScore /\ NothingFinalizedWaits

USE IngestionAssumption

\* Promotion moves a part of the buffered map, and no other block than the incoming
\* one is buffered that was not before.
LEMMA BufferedFacts ==
    ASSUME NEW b \in Block, NEW flags, probabilistic \subseteq Block
    PROVE  /\ Survivors(b) \subseteq probabilistic
           /\ Put(Survivors(b), {b}) \subseteq probabilistic \cup {b}
           /\ b \in Put(Survivors(b), {b})
           /\ Promotable(Put(Survivors(b), {b}), flags) \subseteq Put(Survivors(b), {b})
  BY DEF Survivors, Put, Promotable

\* With one block per score, writing blocks of other scores to a map only adds them.
LEMMA PutAdds ==
    ASSUME NEW map, NEW new,
           \A c \in map, n \in new : ~SameScore(n, c)
    PROVE  Put(map, new) = map \cup new
  BY DEF Put

\* Inserting the incoming block keeps one block per score, and no committed
\* block shares a score with the buffered ones.
LEMMA BufferedUnique ==
    ASSUME IInv, NEW b \in Block, \A c \in committed : ~SameScore(c, b)
    PROVE  /\ \A p, q \in Put(Survivors(b), {b}) : SameScore(p, q) => p = q
           /\ \A p \in Put(Survivors(b), {b}), c \in committed : ~SameScore(p, c)
           /\ committed \cap Put(Survivors(b), {b}) = {}
  <1> DEFINE buffered == Put(Survivors(b), {b})
  <1>1. buffered \subseteq Block /\ buffered \subseteq probabilistic \cup {b}
    BY BufferedFacts DEF IInv, TypeOK
  <1>2. \A p, q \in buffered : SameScore(p, q) => p = q
    BY DEF Put, Survivors, IInv, OneBlockPerScore, TypeOK, SameScore
  <1>3. \A p \in buffered, c \in committed : ~SameScore(p, c)
    BY <1>1 DEF IInv, OneBlockPerScore, TypeOK, SameScore
  <1>4. committed \cap buffered = {}
    BY <1>3 DEF SameScore
  <1> QED BY <1>2, <1>3, <1>4

\* The next block of a notification, and what is left of the notification.
LEMMA NextEntry ==
    ASSUME todo \in Seq(Entry), todo # <<>>
    PROVE  /\ Head(todo).block \in Block /\ Head(todo).final \in BOOLEAN
           /\ Tail(todo) \in Seq(Entry)
  <1>1. Head(todo) \in Entry /\ Tail(todo) \in Seq(Entry) OBVIOUS
  <1> QED BY <1>1 DEF Entry

\* The invariant holds of the empty state the node starts with.
LEMMA InitInvariant == Init => IInv
  BY DEF Init, IInv, TypeOK, OneBlockPerScore, NothingFinalizedWaits, Entry

\* The batch BufferAndPromote commits, and what it leaves behind.
LEMMA PromoteFacts ==
    ASSUME IInv, BufferAndPromote
    PROVE  \E promoted \in SUBSET Block :
              /\ committed' = committed \cup promoted
              /\ promoted \cap probabilistic' = {}
              /\ finalized' = {}
              /\ probabilistic' \cup promoted
                    = Put(Survivors(Head(todo).block), {Head(todo).block})
              /\ writes' = IF promoted = {} THEN writes ELSE Append(writes, promoted)
              /\ \A c \in promoted, p \in probabilistic' : DaaScore[c] < DaaScore[p]
              /\ \A c \in promoted :
                    \/ DaaScore[c] = 0
                    \/ /\ Head(todo).final
                       /\ DaaScore[c] <= DaaScore[Head(todo).block]
                    \/ BelowCutoff(c, Head(todo).block)
  <1> DEFINE b        == Head(todo).block
             final    == Head(todo).final
             buffered == Put(Survivors(b), {b})
             flags    == {p \in buffered : \/ p # b /\ p \in finalized
                                           \/ p = b /\ final
                                           \/ BelowCutoff(p, b)}
             highest  == Promotable(buffered, flags)
             promoted == IF final \/ FinalityDepth # 0 THEN highest ELSE {}
  <1>1. b \in Block /\ final \in BOOLEAN
    BY NextEntry DEF IInv, TypeOK, BufferAndPromote
  <1>2. /\ \A c \in committed : ~SameScore(c, b)
        /\ probabilistic' = buffered \ promoted
        /\ finalized' = flags \ promoted
        /\ committed' = Put(committed, promoted)
        /\ writes' = IF promoted = {} THEN writes ELSE Append(writes, promoted)
    BY DEF BufferAndPromote, Taken
  <1> HIDE DEF b, final
  <1>3. promoted \subseteq highest /\ highest \subseteq buffered /\ buffered \subseteq Block
    BY <1>1, BufferedFacts DEF IInv, TypeOK
  <1>4. committed' = committed \cup promoted
    <2>1. \A c \in committed, n \in promoted : ~SameScore(n, c)
      BY <1>1, <1>2, <1>3, BufferedUnique
    <2> QED BY <2>1, <1>2, PutAdds
  <1>5. \A p \in buffered : DaaScore[p] \in Nat
    BY <1>3, IngestionAssumption
  <1>6. flags \subseteq highest
    <2>1. flags \subseteq buffered
      OBVIOUS
    <2> HIDE DEF flags, buffered
    <2>2. \A q \in flags : q \in buffered /\ DaaScore[q] <= DaaScore[q]
      BY <2>1, <1>5
    <2> QED BY <2>2 DEF Promotable
  <1>7. \A c \in highest, p \in buffered \ highest : DaaScore[c] < DaaScore[p]
    <2> SUFFICES ASSUME NEW c \in highest, NEW p \in buffered \ highest
                 PROVE  DaaScore[c] < DaaScore[p]
      OBVIOUS
    <2>1. DaaScore[p] # 0 /\ \A q \in flags : ~(DaaScore[p] <= DaaScore[q])
      BY DEF Promotable
    <2>2. DaaScore[c] = 0 \/ \E q \in flags : DaaScore[c] <= DaaScore[q]
      BY DEF Promotable
    <2>3. /\ DaaScore[c] \in Nat /\ DaaScore[p] \in Nat
          /\ \A q \in flags : DaaScore[q] \in Nat
      BY <1>3, <1>5
    <2> HIDE DEF buffered, flags, highest
    <2> QED BY <2>1, <2>2, <2>3
  <1>8. ASSUME NEW c \in highest, DaaScore[c] # 0
        PROVE  \/ final /\ DaaScore[c] <= DaaScore[b]
               \/ BelowCutoff(c, b)
    <2>1. PICK q \in flags : DaaScore[c] <= DaaScore[q]
      BY <1>8 DEF Promotable
    <2>2. finalized = {} BY DEF IInv, NothingFinalizedWaits
    <2>3. CASE q = b /\ final
      BY <2>1, <2>3
    <2>4. CASE BelowCutoff(q, b)
      <3>1. DaaScore[c] \in Nat /\ DaaScore[q] \in Nat /\ DaaScore[b] \in Nat
        BY <1>1, <1>3, <1>5, IngestionAssumption
      <3>2. BelowCutoff(c, b)
        BY <2>1, <2>4, <3>1, IngestionAssumption DEF BelowCutoff
      <3> QED BY <3>2
    <2> QED BY <2>1, <2>2, <2>3, <2>4
  <1>9. \/ promoted = highest
        \/ promoted = {} /\ flags = {}
    BY DEF BelowCutoff, IInv, NothingFinalizedWaits
  <1>10. promoted \in SUBSET Block BY <1>3
  <1>11. probabilistic' \cup promoted = buffered BY <1>2, <1>3
  <1>12. promoted \cap probabilistic' = {} BY <1>2
  <1>13. finalized' = {} BY <1>2, <1>6, <1>9
  <1> HIDE DEF promoted, highest, buffered, flags
  <1>14. \A c \in promoted : \/ DaaScore[c] = 0
                             \/ final /\ DaaScore[c] <= DaaScore[b]
                             \/ BelowCutoff(c, b)
    BY <1>3, <1>8
  <1>15. \A c \in promoted, p \in probabilistic' : DaaScore[c] < DaaScore[p]
    BY <1>2, <1>3, <1>7, <1>9
  <1> QED BY <1>2, <1>4, <1>10, <1>11, <1>12, <1>13, <1>14, <1>15 DEF b, final, buffered

\* Every step keeps the invariant.
LEMMA StepInvariant == IInv /\ [Next]_ingestionVars => IInv'
  <1> SUFFICES ASSUME IInv, [Next]_ingestionVars
               PROVE  IInv'
    OBVIOUS
  <1> USE DEF IInv, NothingFinalizedWaits
  <1>1. ASSUME NEW b \in Block, NEW final \in BOOLEAN, BlockAdded(b, final)
        PROVE  IInv'
    <2>1. [block |-> b, final |-> final] \in Entry BY DEF Entry
    <2>2. todo' \in Seq(Entry) BY <1>1, <2>1 DEF BlockAdded
    <2> QED BY <1>1, <2>2 DEF BlockAdded, TypeOK, OneBlockPerScore
  <1>2. ASSUME NEW removed \in SUBSET Block, NEW added \in AddedLists,
               VirtualChainChanged(removed, added)
        PROVE  IInv'
    <2>1. TypeOK'
      BY <1>2, IngestionAssumption DEF VirtualChainChanged, TypeOK
    <2>2. OneBlockPerScore'
      BY <1>2 DEF VirtualChainChanged, OneBlockPerScore
    <2>3. finalized' = {}
      BY <1>2 DEF VirtualChainChanged
    <2> QED BY <2>1, <2>2, <2>3
  <1>3. ASSUME NEW from \in GapBounds, NEW to \in GapBounds, RecoveryRequired(from, to)
        PROVE  IInv'
    <2>1. probabilistic' \subseteq probabilistic /\ finalized' = {}
      BY <1>3 DEF RecoveryRequired
    <2>2. recovery' \subseteq GapBounds \X GapBounds
      BY <1>3 DEF RecoveryRequired
    <2>3. UNCHANGED <<committed, todo, writes, unwinds>>
      BY <1>3 DEF RecoveryRequired
    <2>4. TypeOK' BY <2>1, <2>2, <2>3 DEF TypeOK
    <2>5. OneBlockPerScore' BY <2>1, <2>3 DEF OneBlockPerScore
    <2> QED BY <2>1, <2>4, <2>5
  <1>4. CASE IgnoreBlock
    <2>1. todo' \in Seq(Entry) BY <1>4 DEF IgnoreBlock, TypeOK
    <2> QED BY <1>4, <2>1 DEF IgnoreBlock, TypeOK, OneBlockPerScore
  <1>5. CASE BufferAndPromote
    <2> DEFINE b        == Head(todo).block
               buffered == Put(Survivors(b), {b})
    <2>1. b \in Block /\ todo' \in Seq(Entry)
      BY <1>5, NextEntry DEF BufferAndPromote, TypeOK
    <2>2. (\A c \in committed : ~SameScore(c, b)) /\ UNCHANGED <<unwinds, recovery>>
      BY <1>5 DEF BufferAndPromote, Taken
    <2>3. PICK promoted \in SUBSET Block :
              /\ committed' = committed \cup promoted
              /\ promoted \cap probabilistic' = {}
              /\ finalized' = {}
              /\ probabilistic' \cup promoted = buffered
              /\ writes' = IF promoted = {} THEN writes ELSE Append(writes, promoted)
      BY <1>5, PromoteFacts
    <2> HIDE DEF b
    <2>4. buffered \subseteq Block
      BY <2>1, BufferedFacts DEF TypeOK
    <2>5. writes' \in Seq(SUBSET Block)
      BY <2>3 DEF TypeOK
    <2>6. TypeOK'
      BY <2>1, <2>2, <2>3, <2>4, <2>5 DEF TypeOK
    <2>7. OneBlockPerScore'
      <3>1. /\ \A p, q \in buffered : SameScore(p, q) => p = q
            /\ \A p \in buffered, c \in committed : ~SameScore(p, c)
            /\ committed \cap buffered = {}
        BY <2>1, <2>2, BufferedUnique
      <3>2. committed' \cup probabilistic' = committed \cup buffered
        BY <2>3
      <3>3. committed' \cap probabilistic' = {}
        BY <2>3, <3>1
      <3>4. \A x, y \in committed \cup buffered : SameScore(x, y) => x = y
        BY <3>1 DEF OneBlockPerScore, SameScore
      <3> QED BY <3>2, <3>3, <3>4 DEF OneBlockPerScore, SameScore
    <2> QED BY <2>3, <2>6, <2>7
  <1>6. CASE Return
    BY <1>6 DEF Return, TypeOK, OneBlockPerScore
  <1>7. CASE UNCHANGED ingestionVars
    BY <1>7 DEF ingestionVars, TypeOK, OneBlockPerScore
  <1> QED
    BY <1>1, <1>2, <1>3, <1>4, <1>5, <1>6, <1>7 DEF Next, Notify, ApplyBlock

\* The state properties hold in every reachable state: in particular promotion
\* never overwrites a committed block, whatever the order of notifications.
THEOREM Invariance == Spec => []IInv
  BY InitInvariant, StepInvariant, PTL DEF Spec

\* IngestionState and its transition stay in their types, and a flag stays on a
\* buffered block.
THEOREM IngestionTypeOK == Spec => []TypeOK
  <1>1. IInv => TypeOK BY DEF IInv
  <1> QED BY <1>1, Invariance, PTL

\* The committed and the probabilistic map together hold one block per DAA score.
THEOREM CommittedAndProbabilisticDisjoint == Spec => []OneBlockPerScore
  <1>1. IInv => OneBlockPerScore BY DEF IInv
  <1> QED BY <1>1, Invariance, PTL

\* apply_block commits every block it learns to be final before it returns.
THEOREM FinalBlocksAreCommitted == Spec => []NothingFinalizedWaits
  <1>1. IInv => NothingFinalizedWaits BY DEF IInv
  <1> QED BY <1>1, Invariance, PTL

\* Only promotion adds to the committed map, and only a chain change takes from it.
LEMMA CommittedChanges ==
    ASSUME IInv, [Next]_ingestionVars
    PROVE  \/ BufferAndPromote
           \/ /\ committed' \subseteq committed
              /\ committed \ committed' \subseteq unwinds'
  <1>1. ASSUME NEW removed, NEW added, VirtualChainChanged(removed, added)
        PROVE  /\ committed' \subseteq committed
               /\ committed \ committed' \subseteq unwinds'
    BY <1>1 DEF VirtualChainChanged
  <1>2. ASSUME committed' = committed
        PROVE  /\ committed' \subseteq committed
               /\ committed \ committed' \subseteq unwinds'
    BY <1>2
  <1> QED
    BY <1>1, <1>2 DEF Next, Notify, ApplyBlock, BlockAdded, RecoveryRequired,
                      IgnoreBlock, Return, ingestionVars

\* The transition apply_notification returns names every block that left or entered
\* the committed map, so a caller that persists it misses none.
THEOREM TransitionComplete == Spec => TransitionTellsAll
  <1>1. IInv /\ [Next]_ingestionVars =>
          [ /\ committed \ committed' \subseteq unwinds'
            /\ committed' \ committed \subseteq UNION {writes'[i] : i \in DOMAIN writes'}
          ]_ingestionVars
    <2> SUFFICES ASSUME IInv, [Next]_ingestionVars
                 PROVE  /\ committed \ committed' \subseteq unwinds'
                        /\ committed' \ committed
                              \subseteq UNION {writes'[i] : i \in DOMAIN writes'}
      OBVIOUS
    <2>1. CASE BufferAndPromote
      <3>1. PICK promoted \in SUBSET Block :
                /\ committed' = committed \cup promoted
                /\ writes' = IF promoted = {} THEN writes ELSE Append(writes, promoted)
        BY <2>1, PromoteFacts
      <3>2. CASE promoted = {}
        BY <3>1, <3>2
      <3>3. CASE promoted # {}
        <4>1. writes \in Seq(SUBSET Block) BY DEF IInv, TypeOK
        <4>2. /\ Len(writes) + 1 \in DOMAIN writes'
              /\ writes'[Len(writes) + 1] = promoted
          BY <3>1, <3>3, <4>1
        <4>3. promoted \subseteq UNION {writes'[i] : i \in DOMAIN writes'}
          BY <4>2
        <4> QED BY <3>1, <4>3
      <3> QED BY <3>2, <3>3
    <2>2. CASE ~BufferAndPromote
      BY <2>2, CommittedChanges
    <2> QED BY <2>1, <2>2
  <1> QED BY <1>1, Invariance, PTL DEF Spec, TransitionTellsAll

\* What apply_block promotes lies below everything it leaves probabilistic.
THEOREM PromotedPrefix == Spec => PromotionTakesPrefix
  <1>1. IInv /\ [Next]_ingestionVars =>
          [ \A c \in committed' \ committed, p \in probabilistic' :
                DaaScore[c] < DaaScore[p] ]_ingestionVars
    <2> SUFFICES ASSUME IInv, [Next]_ingestionVars
                 PROVE  \A c \in committed' \ committed, p \in probabilistic' :
                            DaaScore[c] < DaaScore[p]
      OBVIOUS
    <2>1. CASE BufferAndPromote
      BY <2>1, PromoteFacts
    <2>2. CASE ~BufferAndPromote
      BY <2>2, CommittedChanges
    <2> QED BY <2>1, <2>2
  <1> QED BY <1>1, Invariance, PTL DEF Spec, PromotionTakesPrefix

\* Finality alone commits: upstream's flag, depth below the applied block, or score 0.
THEOREM OnlyFinalCommits == Spec => CommitsOnlyFinal
  <1>1. IInv /\ [Next]_ingestionVars =>
          [ \A c \in committed' \ committed :
              \/ DaaScore[c] = 0
              \/ /\ Head(todo).final
                 /\ DaaScore[c] <= DaaScore[Head(todo).block]
              \/ BelowCutoff(c, Head(todo).block) ]_ingestionVars
    <2> SUFFICES ASSUME IInv, [Next]_ingestionVars
                 PROVE  \A c \in committed' \ committed :
                          \/ DaaScore[c] = 0
                          \/ /\ Head(todo).final
                             /\ DaaScore[c] <= DaaScore[Head(todo).block]
                          \/ BelowCutoff(c, Head(todo).block)
      OBVIOUS
    <2>1. CASE BufferAndPromote
      BY <2>1, PromoteFacts
    <2>2. CASE ~BufferAndPromote
      BY <2>2, CommittedChanges
    <2> QED BY <2>1, <2>2
  <1> QED BY <1>1, Invariance, PTL DEF Spec, CommitsOnlyFinal
==============================================================================
