-------------------------- MODULE SelectedChainIndex --------------------------
(* What one subgraph promises those who read its tables and follow its       *)
(* proof-of-indexing chain: the blocks indexed are a pile.  A block is laid  *)
(* on top of all others and completed, with a checkpoint that hashes onto    *)
(* the one below, before the next is begun; a reorganization takes a part    *)
(* of the top away at once, its checkpoints included.  Nothing below the top *)
(* ever changes.                                                             *)
(*                                                                           *)
(* Indexer implements it (docs/references/BLOCKDAG_REORG_SEMANTICS.md).      *)
EXTENDS Integers, SequencesExt

CONSTANTS Block, DaaScore

VARIABLES
    index,   \* the blocks indexed
    poi      \* from DAA score to the hash published for it

pile == <<index, poi>>

Covered == {DaaScore[b] : b \in index}

Complete == DOMAIN poi = Covered

\* The hash on top: of all the blocks below, one after the other.
Top == IF DOMAIN poi = {} THEN <<>> ELSE poi[Max(DOMAIN poi)]

Init == index = {} /\ poi = <<>>

Begin(b) ==
    /\ Complete
    /\ \A c \in index : DaaScore[c] < DaaScore[b]
    /\ index' = index \cup {b}
    /\ UNCHANGED poi

Publish(b) ==
    /\ b \in index /\ DaaScore[b] \notin DOMAIN poi
    /\ DOMAIN poi' = DOMAIN poi \cup {DaaScore[b]}
    /\ Restrict(poi', DOMAIN poi) = poi
    /\ Front(poi'[DaaScore[b]]) = Top
    /\ UNCHANGED index

TakeAway(from) ==
    /\ Complete
    /\ index' = {b \in index : DaaScore[b] < from}
    /\ poi' = Restrict(poi, {s \in DOMAIN poi : s < from})

Next ==
    \/ \E b \in Block : Begin(b) \/ Publish(b) \/ TakeAway(DaaScore[b])

Spec == Init /\ [][Next]_pile
===============================================================================
