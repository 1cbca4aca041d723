------------------------------ MODULE Ingestion ------------------------------
(***************************************************************************)
(* The chain-ingestion state machine of kasgraph-node: `IngestionState`    *)
(* and `apply_notification` (crates/kasgraph-node/src/main.rs).            *)
(*                                                                         *)
(* The node keeps two maps keyed by DAA score: blocks it has committed and *)
(* blocks it only believes in (probabilistic).  A notification from the    *)
(* chain changes the maps and yields a transition: the committed blocks to *)
(* unwind and the blocks to commit, which the caller then persists.  A     *)
(* map is modelled as the set of its values; writing to a map replaces     *)
(* whatever was stored at the same score (operator Put).                   *)
(*                                                                         *)
(* Blocks arriving in one VirtualChainChanged are applied one after        *)
(* another inside the handler; each application is a step here, and no     *)
(* other notification is taken before the transition has been returned.    *)
(*                                                                         *)
(* Where two or more definitions of one operator stand together, the last  *)
(* is the code's; the ones before it are faulty variants, used by no       *)
(* action, with which TLC was made to show that a property can fail.       *)
(***************************************************************************)
EXTENDS Integers, Sequences

CONSTANTS
    Block,          \* block hashes
    DaaScore,       \* the DAA score of every block
    FinalityDepth,  \* KASGRAPH_FINALITY_DEPTH; 0 stands for "off", as in the code
    AddedLists,     \* the lists of added chain blocks upstream may send
    GapBounds       \* the DAA scores a RecoveryRequired range may start or end at

Entry == [block : Block, final : BOOLEAN]

ASSUME IngestionAssumption ==
    /\ DaaScore \in [Block -> Nat]
    /\ FinalityDepth \in Nat
    /\ AddedLists \subseteq Seq(Entry)
    /\ GapBounds \subseteq Nat

VARIABLES
    committed,      \* IngestionState.committed
    probabilistic,  \* IngestionState.probabilistic
    finalized,      \* the probabilistic blocks whose is_finalized flag is set
    todo,           \* blocks of the current notification still to be applied
    writes,         \* IngestionTransition.committed_writes: one batch per block applied
    unwinds,        \* IngestionTransition.committed_unwinds
    recovery        \* IngestionTransition.recovery_requested: {} or one range

ingestionVars ==
    <<committed, probabilistic, finalized, todo, writes, unwinds, recovery>>

------------------------------------------------------------------------------

(***************************************************************************)
(* Map operations.                                                         *)
(***************************************************************************)

SameScore(b, c) == DaaScore[b] = DaaScore[c]

\* BTreeMap::insert for each block of `new`.
Put(map, new) == {c \in map : \A n \in new : ~SameScore(n, c)} \cup new

\* derived_finalized_cutoff: "some block as high as `b` finalizes a block as low as `c`".
BelowCutoff(c, b) ==
    FinalityDepth # 0 /\ DaaScore[c] <= DaaScore[b] - FinalityDepth

\* The score of `b` is already committed, to `b` itself or to another block.
TakenByItself(b) == b \in committed
Taken(b) == \E c \in committed : SameScore(c, b)

\* What is left of the probabilistic map once the blocks that conflict with `b`
\* are rolled back: everything at or above its score, except `b` itself.
Survivors(b) == {p \in probabilistic : DaaScore[p] < DaaScore[b] \/ p = b}

\* highest_finalized_daa and the promotable range below it.  With no flagged
\* block the highest finalized score defaults to 0.
PromotableStrict(map, flags) ==
    {p \in map : \E q \in flags : DaaScore[p] < DaaScore[q]}
PromotableFlagged(map, flags) == map \cap flags
PromotableByDefault(map, flags) ==
    {p \in map : flags = {} \/ \E q \in flags : DaaScore[p] <= DaaScore[q]}
Promotable(map, flags) ==
    {p \in map : DaaScore[p] = 0 \/ \E q \in flags : DaaScore[p] <= DaaScore[q]}

\* No notification is being handled.
Idle == todo = <<>> /\ writes = <<>> /\ unwinds = {} /\ recovery = {}

------------------------------------------------------------------------------

Init ==
    /\ committed = {}
    /\ probabilistic = {}
    /\ finalized = {}
    /\ todo = <<>>
    /\ writes = <<>>
    /\ unwinds = {}
    /\ recovery = {}

(***************************************************************************)
(* The three notifications.                                                *)
(***************************************************************************)

BlockAdded(b, final) ==
    /\ Idle
    /\ todo' = <<[block |-> b, final |-> final]>>
    /\ UNCHANGED <<committed, probabilistic, finalized, writes, unwinds, recovery>>

VirtualChainChangedUnreported(removed, added) ==
    /\ Idle
    /\ probabilistic' = probabilistic \ removed
    /\ finalized' = finalized \ removed
    /\ committed' = committed \ removed
    /\ todo' = added
    /\ UNCHANGED <<unwinds, writes, recovery>>

VirtualChainChangedBufferOnly(removed, added) ==
    /\ Idle
    /\ probabilistic' = probabilistic \ removed
    /\ finalized' = finalized \ removed
    /\ todo' = added
    /\ UNCHANGED <<committed, unwinds, writes, recovery>>

VirtualChainChanged(removed, added) ==
    /\ Idle
    /\ probabilistic' = probabilistic \ removed
    /\ finalized' = finalized \ removed
    /\ committed' = committed \ removed
    /\ unwinds' = committed \cap removed
    /\ todo' = added
    /\ UNCHANGED <<writes, recovery>>

RecoveryFromAnchor(from, to) ==
    /\ Idle
    /\ LET inRange == {p \in probabilistic : DaaScore[p] \in from - 1 .. to}
       IN  /\ probabilistic' = probabilistic \ inRange
           /\ finalized' = finalized \ inRange
    /\ recovery' = {<<from - 1, to>>}
    /\ UNCHANGED <<committed, todo, writes, unwinds>>

RecoveryRequired(from, to) ==
    /\ Idle
    /\ LET inRange == {p \in probabilistic : DaaScore[p] \in from..to}
       IN  /\ probabilistic' = probabilistic \ inRange
           /\ finalized' = finalized \ inRange
    /\ recovery' = {<<from, to>>}
    /\ UNCHANGED <<committed, todo, writes, unwinds>>

(***************************************************************************)
(* apply_block, for the next block of the notification.                    *)
(***************************************************************************)

\* The score is already committed: a duplicate or a conflict, ignored either way.
IgnoreBlock ==
    /\ todo # <<>>
    /\ Taken(Head(todo).block)
    /\ todo' = Tail(todo)
    /\ UNCHANGED <<committed, probabilistic, finalized, writes, unwinds, recovery>>

\* Otherwise the block is buffered, flags are refreshed, and everything up to the
\* highest flagged score moves to the committed map in ascending order.  Without a
\* finality depth nothing moves for a block upstream does not call final.
BufferAndPromote ==
    /\ todo # <<>>
    /\ LET b        == Head(todo).block
           final    == Head(todo).final
           buffered == Put(Survivors(b), {b})
           flags    == {p \in buffered : \/ p # b /\ p \in finalized
                                         \/ p = b /\ final
                                         \/ BelowCutoff(p, b)}
           promoted == IF final \/ FinalityDepth # 0 THEN Promotable(buffered, flags) ELSE {}
       IN  /\ ~Taken(b)
           /\ probabilistic' = buffered \ promoted
           /\ finalized' = flags \ promoted
           /\ committed' = Put(committed, promoted)
           /\ writes' = IF promoted = {} THEN writes ELSE Append(writes, promoted)
    /\ todo' = Tail(todo)
    /\ UNCHANGED <<unwinds, recovery>>

ApplyBlock == IgnoreBlock \/ BufferAndPromote

\* The transition is handed to the caller.
Return ==
    /\ todo = <<>>
    /\ ~Idle
    /\ writes' = <<>>
    /\ unwinds' = {}
    /\ recovery' = {}
    /\ UNCHANGED <<committed, probabilistic, finalized, todo>>

Notify ==
    \/ \E b \in Block, final \in BOOLEAN : BlockAdded(b, final)
    \/ \E removed \in SUBSET Block, added \in AddedLists :
           VirtualChainChanged(removed, added)
    \/ \E from, to \in GapBounds : RecoveryRequired(from, to)

Next == Notify \/ ApplyBlock \/ Return

Spec == Init /\ [][Next]_ingestionVars

------------------------------------------------------------------------------

(***************************************************************************)
(* Properties.                                                             *)
(***************************************************************************)

\* Every variable stays in its type; a flag belongs to a buffered block.
TypeOK ==
    /\ committed \subseteq Block
    /\ probabilistic \subseteq Block
    /\ finalized \subseteq probabilistic
    /\ todo \in Seq(Entry)
    /\ writes \in Seq(SUBSET Block)
    /\ unwinds \subseteq Block
    /\ recovery \subseteq GapBounds \X GapBounds

\* The two maps together never hold two blocks of one DAA score: promotion never
\* meets a committed block at its score, so committing never overwrites one.
OneBlockPerScore ==
    /\ committed \cap probabilistic = {}
    /\ \A b, c \in committed \cup probabilistic : SameScore(b, c) => b = c

\* No block known to be final is left waiting in the probabilistic map once a
\* block has been applied.
NothingFinalizedWaits == finalized = {}

\* Memory and the transition agree: a block leaves the committed map only if it is
\* reported for unwinding, and enters it only if it is reported for writing, so
\* a caller that persists the transition keeps the store equal to memory.
TransitionTellsAll ==
    [][ /\ committed \ committed' \subseteq unwinds'
        /\ committed' \ committed \subseteq UNION {writes'[i] : i \in DOMAIN writes'}
      ]_ingestionVars

\* Promotion takes a whole prefix: what stays probabilistic lies above every
\* block committed by the same step.
PromotionTakesPrefix ==
    [][ \A c \in committed' \ committed, p \in probabilistic' :
            DaaScore[c] < DaaScore[p] ]_ingestionVars

\* A block above the finality window is never committed by depth alone: each
\* block a step commits lies at or below one that is final, either by upstream's
\* flag or by depth under the block being applied (a score of 0 counts as final).
CommitsOnlyFinal ==
    [][ \A c \in committed' \ committed :
            \/ DaaScore[c] = 0
            \/ /\ Head(todo).final
               /\ DaaScore[c] <= DaaScore[Head(todo).block]
            \/ BelowCutoff(c, Head(todo).block) ]_ingestionVars

==============================================================================
