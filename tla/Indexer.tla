------------------------------- MODULE Indexer -------------------------------
(***************************************************************************)
(* One indexed subgraph with a mapping loaded: the ingestion state machine *)
(* of module Ingestion, the upstream node that feeds it, and the Postgres  *)
(* tables `apply_and_persist_notification` maintains                       *)
(* (crates/kasgraph-node/src/main.rs, crates/kasgraph-store/src/lib.rs).   *)
(*                                                                         *)
(* Every store call is one transaction and one step here, so the process   *)
(* may stop between any two of them.  What memory held is then lost; on    *)
(* restart only the head of the POI chain is read back.                    *)
(*                                                                         *)
(* Upstream keeps a selected chain.  It reports every change of the chain  *)
(* (dropped suffix, new suffix) in one VirtualChainChanged, and may        *)
(* announce a block with BlockAdded before the chain includes it.          *)
(*                                                                         *)
(* Data is abstracted to what the properties tell apart. A block carries   *)
(* at most one detector hit and one spend. The mapping is a fold: the      *)
(* entity version a block writes is the version it read with the block     *)
(* appended. The hash of a prior POI and of entity bytes is the sequence   *)
(* of all the bytes hashed so far, so two hashes are equal only if their   *)
(* inputs were.                                                            *)
(*                                                                         *)
(* As in Ingestion, the last of several definitions of one operator that   *)
(* stand together is the code's, the others are faulty variants of it.     *)
(***************************************************************************)
EXTENDS Integers, SequencesExt

CONSTANTS
    Block, DaaScore, FinalityDepth,   \* as in Ingestion
    Extensions,       \* the block sequences upstream may extend its chain with
    Emitting,       \* blocks with detector hits, which the mapping handles
    Spending,       \* blocks that spend any covenant locked so far, which it handles too
    UpstreamFinal,  \* blocks upstream serves with isFinalized set
    DeepReorgs,     \* may a chain change drop blocks that are final?
    SideBlocks,     \* may a BlockAdded announce a block the chain never accepts?
    MaxChanges,     \* bound: chain changes and announcements in a behaviour
    MaxRestarts     \* bound: crashes in a behaviour

Table == {"pattern", "utxo", "lineage", "spend"}

ASSUME IndexerAssumption ==
    /\ DaaScore \in [Block -> Nat]
    /\ FinalityDepth \in Nat
    /\ Extensions \subseteq Seq(Block)
    /\ Emitting \cup Spending \subseteq Block
    /\ UpstreamFinal \subseteq Block
    /\ DeepReorgs \in BOOLEAN
    /\ SideBlocks \in BOOLEAN
    /\ MaxChanges \in Nat
    /\ MaxRestarts \in Nat

VARIABLES
    committed, probabilistic, finalized, todo, writes, unwinds, recovery,
                  \* as in Ingestion
    chain,        \* upstream's selected chain
    announced,    \* blocks announced ahead of the chain change that accepts them
    accepted,     \* history: every block a VirtualChainChanged has added
    changes,      \* chain changes and announcements so far
    up,           \* is the node running?
    restarts,     \* crashes so far
    pc,           \* where apply_and_persist_notification is
    prior,        \* IngestionState.prior_poi
    dispatched,   \* the entity version the current block's hits produced
    recorded,     \* kasgraph_committed_block
    rows,         \* per table, the blocks whose rows it holds
    entities,     \* entity_versions: from DAA score to version
    checkpoints   \* kasgraph_poi: from DAA score to hash

ingestionVars ==
    <<committed, probabilistic, finalized, todo, writes, unwinds, recovery>>
upstreamVars == <<chain, announced, accepted, changes>>
storeVars    == <<recorded, rows, entities, checkpoints>>
handlerVars  == <<pc, prior, dispatched>>
vars == <<ingestionVars, upstreamVars, up, restarts, handlerVars, storeVars>>

Report(seq) ==
    [i \in DOMAIN seq |-> [block |-> seq[i], final |-> seq[i] \in UpstreamFinal]]

Node == INSTANCE Ingestion
            WITH AddedLists <- {Report(s) : s \in Extensions}, GapBounds <- {}

------------------------------------------------------------------------------

Tip(seq)      == IF seq = <<>> THEN 0 ELSE DaaScore[seq[Len(seq)]]
Rising(seq)   == \A i, j \in DOMAIN seq : i < j => DaaScore[seq[i]] < DaaScore[seq[j]]
Scores(set)   == {DaaScore[b] : b \in set}

\* A table keyed by DAA score: upsert, and the row with the highest score.
Upsert(table, score, row) ==
    [s \in DOMAIN table \cup {score} |-> IF s = score THEN row ELSE table[s]]
Latest(table) == IF DOMAIN table = {} THEN <<>> ELSE table[Max(DOMAIN table)]

\* Upstream has told the node that `b` is final, or that a block so much higher exists.
KnownFinal(b) ==
    \E x \in Range(chain) \cup announced :
        \/ x \in UpstreamFinal /\ DaaScore[b] <= DaaScore[x]
        \/ Node!BelowCutoff(b, x)

\* The node runs and waits for a notification.
Ready == up /\ pc = "apply" /\ Node!Idle

Init ==
    /\ Node!Init
    /\ chain = <<>> /\ announced = {} /\ accepted = {} /\ changes = 0
    /\ up = TRUE /\ restarts = 0 /\ pc = "apply" /\ prior = <<>> /\ dispatched = <<>>
    /\ recorded = {}
    /\ rows = [t \in Table |-> {}]
    /\ entities = <<>>
    /\ checkpoints = <<>>

------------------------------------------------------------------------------

(***************************************************************************)
(* Upstream.                                                               *)
(***************************************************************************)

\* The chain drops all but its first `keep` blocks and continues with `suffix`.
ReplaceSuffix(keep, suffix) ==
    LET next == SubSeq(chain, 1, keep) \o suffix
        dropped == {chain[i] : i \in keep + 1 .. Len(chain)}
    IN  /\ changes < MaxChanges
        /\ changes' = changes + 1
        /\ suffix # <<>> /\ Rising(next)
        /\ SideBlocks \/ announced \subseteq Range(suffix)
        /\ DeepReorgs \/ /\ Tip(next) >= Tip(chain)
                         /\ \A b \in dropped : ~KnownFinal(b)
        /\ chain' = next
        /\ announced' = {}
        /\ accepted' = accepted \cup Range(suffix)

\* The node is told of a chain change.
ChainChanged ==
    /\ Ready
    /\ \E keep \in 0 .. Len(chain), suffix \in Extensions :
          /\ ReplaceSuffix(keep, suffix)
          /\ Node!VirtualChainChanged({chain[i] : i \in keep + 1 .. Len(chain)},
                                      Report(suffix))
    /\ UNCHANGED <<up, restarts, handlerVars, storeVars>>

\* The chain changes while the node is down.
ChainChangedUnseen ==
    /\ ~up
    /\ \E keep \in 0 .. Len(chain), suffix \in Extensions : ReplaceSuffix(keep, suffix)
    /\ UNCHANGED <<ingestionVars, up, restarts, handlerVars, storeVars>>

\* The node is told of a block before the chain accepts it.  Unless SideBlocks, the
\* block is one the next chain change accepts, and not flagged final until then.
Announce ==
    /\ Ready
    /\ changes < MaxChanges /\ changes' = changes + 1
    /\ \E b \in Block \ Range(chain) :
          /\ \/ SideBlocks
             \/ announced = {} /\ DaaScore[b] > Tip(chain) /\ b \notin UpstreamFinal
          /\ announced' = announced \cup {b}
          /\ Node!BlockAdded(b, b \in UpstreamFinal)
    /\ UNCHANGED <<chain, accepted, up, restarts, handlerVars, storeVars>>

------------------------------------------------------------------------------

(***************************************************************************)
(* The node, handling one notification.  First memory is updated.          *)
(***************************************************************************)

ApplyBlock ==
    /\ up /\ pc = "apply"
    /\ Node!ApplyBlock
    /\ UNCHANGED <<upstreamVars, up, restarts, handlerVars, storeVars>>

\* Moves the handler from one store call to the next; memory is not touched.
Step(from, to) ==
    /\ up /\ pc = from /\ pc' = to
    /\ UNCHANGED <<committed, probabilistic, finalized, todo, recovery,
                   upstreamVars, up, restarts>>

(***************************************************************************)
(* Then the unwound blocks leave the store, table by table.                *)
(***************************************************************************)

\* The lowest unwound score: from here on the per-subgraph tables are cleared.
HighestUnwound == Max(Scores(unwinds))
Cutoff == Min(Scores(unwinds))

\* unwind_committed_blocks_for_subgraph: one transaction, by block hash.
UnwindCommitted ==
    /\ Step("apply", "unwind entities")
    /\ todo = <<>> /\ unwinds # {}
    /\ LET removed == unwinds \cap recorded
       IN  /\ recorded' = recorded \ removed
           /\ rows' = [rows EXCEPT !["pattern"] = @ \ removed]
           /\ checkpoints' = Restrict(checkpoints, DOMAIN checkpoints \ Scores(removed))
    /\ UNCHANGED <<writes, unwinds, prior, dispatched, entities>>

\* unwind_entity_versions.
UnwindEntities ==
    /\ Step("unwind entities", "unwind utxos")
    /\ entities' = Restrict(entities, {s \in DOMAIN entities : s < Cutoff})
    /\ UNCHANGED <<writes, unwinds, prior, dispatched, recorded, rows, checkpoints>>

\* unwind_covenant_utxos, unwind_covenant_spends, unwind_covenant_lineage.
UnwindRows(table, from, to) ==
    /\ Step(from, to)
    /\ rows' = [rows EXCEPT ![table] = {b \in @ : DaaScore[b] < Cutoff}]
    /\ UNCHANGED <<writes, unwinds, prior, dispatched, recorded, entities, checkpoints>>

UnwindUtxos   == UnwindRows("utxo", "unwind utxos", "unwind spends")
UnwindSpends  == UnwindRows("spend", "unwind spends", "unwind lineage")
UnwindLineage == UnwindRows("lineage", "unwind lineage", "reseed")

\* The POI chain continues from the highest surviving checkpoint.
ReseedForgotten ==
    /\ Step("reseed", "apply")
    /\ unwinds' = {}
    /\ UNCHANGED <<writes, prior, dispatched, storeVars>>

Reseed ==
    /\ Step("reseed", "apply")
    /\ prior' = Latest(checkpoints)
    /\ unwinds' = {}
    /\ UNCHANGED <<writes, dispatched, storeVars>>

(***************************************************************************)
(* Then the newly committed blocks are written, in ascending score order   *)
(* within a batch.                                                         *)
(***************************************************************************)

HighestWrite == CHOOSE b \in Head(writes) : \A c \in Head(writes) : DaaScore[b] >= DaaScore[c]
CurrentWrite == CHOOSE b \in Head(writes) : \A c \in Head(writes) : DaaScore[b] <= DaaScore[c]

\* The writes left once the current block is done.
RestOfWrites ==
    IF Head(writes) = {CurrentWrite}
    THEN Tail(writes)
    ELSE <<Head(writes) \ {CurrentWrite}>> \o Tail(writes)

\* record_committed_block.
RecordBlockForgotten ==
    /\ Step("apply", "hits")
    /\ todo = <<>> /\ unwinds = {} /\ writes # <<>>
    /\ UNCHANGED <<writes, unwinds, prior, dispatched, storeVars>>

RecordBlock ==
    /\ Step("apply", "hits")
    /\ todo = <<>> /\ unwinds = {} /\ writes # <<>>
    /\ recorded' = recorded \cup {CurrentWrite}
    /\ UNCHANGED <<writes, unwinds, prior, dispatched, rows, entities, checkpoints>>

\* Rows for the current block, if it is one of `blocks`.
WriteRow(table, blocks) ==
    rows' = [rows EXCEPT ![table] = @ \cup ({CurrentWrite} \cap blocks)]

\* Per hit: insert_detected_pattern, track_covenant_utxo, persist_lineage.
WritePatterns ==
    /\ Step("hits", "utxos")
    /\ WriteRow("pattern", Emitting)
    /\ UNCHANGED <<writes, unwinds, prior, dispatched, recorded, entities, checkpoints>>

WriteUtxos ==
    /\ Step("utxos", "lineage")
    /\ WriteRow("utxo", Emitting)
    /\ UNCHANGED <<writes, unwinds, prior, dispatched, recorded, entities, checkpoints>>

WriteLineage ==
    /\ Step("lineage", "dispatch")
    /\ WriteRow("lineage", Emitting)
    /\ UNCHANGED <<writes, unwinds, prior, dispatched, recorded, entities, checkpoints>>

\* The mapping run over the latest entity state, and upsert_entity_version.
NextVersion == Append(Latest(entities), CurrentWrite)
UpsertVersion == entities' = Upsert(entities, DaaScore[CurrentWrite], NextVersion)

\* dispatch_committed_hits.
Dispatch ==
    /\ Step("dispatch", "spends")
    /\ IF CurrentWrite \in Emitting
       THEN UpsertVersion /\ dispatched' = NextVersion
       ELSE dispatched' = <<>> /\ UNCHANGED entities
    /\ UNCHANGED <<writes, unwinds, prior, recorded, rows, checkpoints>>

\* The current block consumes an output that lookup_covenant_utxo finds.
SpendFound == CurrentWrite \in Spending /\ rows["utxo"] # {}

\* record_covenant_spend.
WriteSpends ==
    /\ Step("spends", "dispatch spends")
    /\ IF SpendFound THEN WriteRow("spend", Spending) ELSE UNCHANGED rows
    /\ UNCHANGED <<writes, unwinds, prior, dispatched, recorded, entities, checkpoints>>

\* dispatch_spend_hit; its versions are not added to `dispatched`.
DispatchSpends ==
    /\ Step("dispatch spends", "checkpoint")
    /\ IF SpendFound THEN UpsertVersion ELSE UNCHANGED entities
    /\ UNCHANGED <<writes, unwinds, prior, dispatched, recorded, rows, checkpoints>>

\* compute_poi over the dispatched entities (committed_poi_input), and
\* insert_poi_checkpoint.
WriteCheckpoint ==
    /\ Step("checkpoint", "apply")
    /\ prior' = Append(prior, dispatched)
    /\ checkpoints' = Upsert(checkpoints, DaaScore[CurrentWrite], prior')
    /\ writes' = RestOfWrites /\ dispatched' = <<>>
    /\ UNCHANGED <<unwinds, recorded, rows, entities>>

Persist ==
    \/ UnwindCommitted \/ UnwindEntities \/ UnwindUtxos \/ UnwindSpends
    \/ UnwindLineage \/ Reseed
    \/ RecordBlock \/ WritePatterns \/ WriteUtxos \/ WriteLineage \/ Dispatch
    \/ WriteSpends \/ DispatchSpends \/ WriteCheckpoint

------------------------------------------------------------------------------

(***************************************************************************)
(* The process stops, by a crash or by an error a store call returned, and *)
(* is started again (make_subgraph_runtime).                               *)
(***************************************************************************)

Crash ==
    /\ up /\ restarts < MaxRestarts
    /\ up' = FALSE
    /\ restarts' = restarts + 1
    /\ committed' = {} /\ probabilistic' = {} /\ finalized' = {}
    /\ todo' = <<>> /\ writes' = <<>> /\ unwinds' = {} /\ recovery' = {}
    /\ pc' = "apply" /\ prior' = <<>> /\ dispatched' = <<>>
    /\ UNCHANGED <<upstreamVars, storeVars>>

RestartFromZero ==
    /\ ~up
    /\ up' = TRUE
    /\ UNCHANGED <<ingestionVars, upstreamVars, restarts, handlerVars, storeVars>>

Restart ==
    /\ ~up
    /\ up' = TRUE
    /\ prior' = Latest(checkpoints)
    /\ UNCHANGED <<ingestionVars, upstreamVars, restarts, pc, dispatched, storeVars>>

NodeStep == ApplyBlock \/ Persist

Next == ChainChanged \/ ChainChangedUnseen \/ Announce \/ NodeStep \/ Crash \/ Restart

\* The handler runs to its end unless the process stops.
Spec == Init /\ [][Next]_vars /\ WF_vars(NodeStep)

------------------------------------------------------------------------------

(***************************************************************************)
(* Properties.                                                             *)
(***************************************************************************)

\* When every chain change has been handled, the two maps hold the selected chain:
\* committed blocks are a prefix of it and probabilistic ones the rest.
IndexFollowsSelectedChain ==
    Ready /\ announced = {} =>
        /\ committed \cup probabilistic = Range(chain)
        /\ \A c \in committed, p \in probabilistic : DaaScore[c] < DaaScore[p]

\* When a notification has been handled the store records exactly the blocks memory
\* holds committed, and each has its checkpoint and its rows in every table: unwinding
\* by hash and unwinding by score agree, and no store call was forgotten.
StoreMatchesMemory ==
    LET locks  == committed \cap Emitting
        spends == {b \in committed \cap Spending : \E c \in locks : DaaScore[c] <= DaaScore[b]}
    IN
    Ready =>
        /\ recorded = committed
        /\ DOMAIN checkpoints = Scores(committed)
        /\ DOMAIN entities = Scores(locks \cup spends)
        /\ \A t \in Table \ {"spend"} : rows[t] = locks
        /\ rows["spend"] = spends

Index == INSTANCE SelectedChainIndex WITH index <- recorded, poi <- checkpoints

\* The recorded blocks and the checkpoints are the pile of SelectedChainIndex,
\* however deep the reorganizations: blocks are recorded in the order of their scores
\* although they are promoted in batches, one is complete before the next, and what
\* is unwound by hash is always a part of the top.
IndexIsAPile == Index!Spec

\* The entity version and the POI a fresh ingest of the first `n` chain blocks reaches.
Handled(i) ==
    LET spends == chain[i] \in Spending /\ \E j \in 1 .. i : chain[j] \in Emitting
    IN  (IF chain[i] \in Emitting THEN <<chain[i]>> ELSE <<>>)
            \o (IF spends THEN <<chain[i]>> ELSE <<>>)
ReplayedEntity(n) == FlattenSeq([i \in 1 .. n |-> Handled(i)])
ReplayedPoi(n) ==
    [i \in 1 .. n |-> IF chain[i] \in Emitting
                      THEN Append(ReplayedEntity(i - 1), chain[i])
                      ELSE <<>>]

\* The replay-safety contract of docs/references/BLOCKDAG_REORG_SEMANTICS.md: whatever
\* reorganizations happened on the way, the entity state and the checkpoints in the
\* store are those a from-genesis ingest of the committed part of the selected
\* chain computes.
ReplaySafe ==
    Ready /\ announced = {} =>
        \E n \in 0 .. Len(chain) :
            /\ recorded = Range(SubSeq(chain, 1, n))
            /\ Latest(entities) = ReplayedEntity(n)
            /\ DOMAIN checkpoints = Scores(recorded)
            /\ \A i \in 1 .. n : checkpoints[DaaScore[chain[i]]] = ReplayedPoi(i)

\* verify_poi_chain succeeds on the stored checkpoints, even after crashes: in score
\* order each one hashes onto the one before it.
PoiChainVerifies ==
    \A s \in DOMAIN checkpoints :
        LET below == {r \in DOMAIN checkpoints : r < s}
        IN  /\ checkpoints[s] # <<>>
            /\ SubSeq(checkpoints[s], 1, Len(checkpoints[s]) - 1)
                 = IF below = {} THEN <<>> ELSE checkpoints[Max(below)]

\* While upstream respects finality, a published checkpoint is never changed or
\* removed, and new ones only appear above it, whenever the node crashes.
CheckpointsAreStable ==
    [][ \A s \in DOMAIN checkpoints :
            /\ s \in DOMAIN checkpoints' /\ checkpoints'[s] = checkpoints[s]
            /\ \A r \in DOMAIN checkpoints' \ DOMAIN checkpoints : s < r ]_vars

\* No crash leaves a derived row, an entity version or a checkpoint of a block the
\* store does not record as committed.
RowsBelongToCommittedBlocks ==
    pc = "apply" /\ unwinds = {} =>
        /\ \A t \in Table : rows[t] \subseteq recorded
        /\ DOMAIN entities \cup DOMAIN checkpoints \subseteq Scores(recorded)

\* A committed block was accepted by some VirtualChainChanged: BlockAdded alone
\* commits nothing (docs/references/BLOCKDAG_REORG_SEMANTICS.md).
CommittedWasAccepted == committed \subseteq accepted

\* A chain block that sinks below the finality depth is checkpointed, unless the
\* chain drops it first.
DeepBlocksAreCheckpointed ==
    \A b \in Block :
        (\E x \in Range(chain) : b \in Range(chain) /\ Node!BelowCutoff(b, x))
            ~> (b \notin Range(chain) \/ DaaScore[b] \in DOMAIN checkpoints)

==============================================================================
