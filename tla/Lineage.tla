------------------------------- MODULE Lineage -------------------------------
(***************************************************************************)
(* Covenant lineage (KIP-20) as kasgraph-node keeps it for several         *)
(* subgraphs at once: `fan_out_notification`, `classify_lineage` and       *)
(* `persist_lineage` (crates/kasgraph-node/src/main.rs) over the lineage   *)
(* tables of crates/kasgraph-store/src/lib.rs.                             *)
(*                                                                         *)
(* The tables of lineage heads and rows are shared by all subgraphs; every *)
(* subgraph has its own map of committed blocks and its own tracker of     *)
(* covenant outputs.  One notification is handled by one runtime after the *)
(* other, in the order of the runtime set, and the set itself follows the  *)
(* registry of deployed subgraphs between notifications.                   *)
(*                                                                         *)
(* A block is committed as soon as the chain accepts it and unwound when   *)
(* the chain drops it: what is committed when is the subject of Ingestion, *)
(* and a process that stops half-way that of Indexer.  A covenant is named *)
(* by the output that opened it (`genesis_covenant_id`), and an output     *)
(* carries the covenant of the first tracked output that its transaction   *)
(* consumes.  Two blocks may hold the same transaction, as blocks of two   *)
(* branches do.                                                            *)
(*                                                                         *)
(* As in Ingestion, the last of several definitions of one operator that   *)
(* stand together is the code's, the others are faulty variants of it.     *)
(***************************************************************************)
EXTENDS Integers, SequencesExt, FiniteSetsExt

CONSTANTS
    Subgraph,
    Registered,  \* the subgraphs, in the order the registry lists them
    Block,
    DaaScore,    \* the DAA score of every block
    Output,      \* covenant outputs
    Outputs,     \* the covenant outputs of every block, in detection order
    Inputs,      \* the covenant outputs that the transaction of each output consumes, in
                 \* the order of its inputs
    None,
    Chains,      \* the chains upstream may select
    AtStart,     \* the runtime set the node starts with
    MaxChanges,  \* bound: chain changes in a behaviour
    MaxReloads   \* bound: deployments, removals and restarts in a behaviour

ASSUME LineageAssumption ==
    /\ Registered \in Seq(Subgraph) /\ Range(Registered) = Subgraph
    /\ DaaScore \in [Block -> Nat]
    /\ Outputs \in [Block -> Seq(Output)]
    /\ None \notin Output
    /\ Inputs \in [Output -> Seq(Output)]
    /\ Chains \subseteq Seq(Block)
    /\ \A c \in Chains : \A i, j \in DOMAIN c :
          i < j => DaaScore[c[i]] < DaaScore[c[j]]
    /\ \A c, d \in Chains : \A i \in DOMAIN c :
          c[i] \in Range(d) => IsPrefix(SubSeq(c, 1, i), d)
    \* a chain brings an output once, after those it consumes
    /\ \A c \in Chains : \A i, k \in DOMAIN c :
          \A j \in DOMAIN Outputs[c[i]], l \in DOMAIN Outputs[c[k]] :
             /\ Outputs[c[i]][j] = Outputs[c[k]][l] => i = k /\ j = l
             /\ Outputs[c[i]][j] \in Range(Inputs[Outputs[c[k]][l]])
                    => i < k \/ (i = k /\ j < l)
    \* and the outputs an output consumes are on the chain that brings it
    /\ \A c \in Chains : \A b \in Range(c) : \A o \in Range(Outputs[b]) :
          \A p \in Range(Inputs[o]) : \E a \in Range(c) : p \in Range(Outputs[a])
    /\ AtStart \in Seq(Subgraph) /\ AtStart # <<>> /\ IsInjective(AtStart)
    /\ MaxChanges \in Nat /\ MaxReloads \in Nat

VARIABLES
    chain,       \* upstream's selected chain
    runtimes,    \* the runtime set, in fan-out order
    known,       \* per subgraph, IngestionState.committed
    utxos,       \* per subgraph, covenant_utxos: from output to covenant and score
    head,        \* kasgraph_covenant_lineage_head: from covenant to its head
    rows,        \* kasgraph_covenant_lineage_row
    work,        \* what is left to do for the notification, in order
    stopped,     \* a store call returned an error, which ends the process
    disturbed,   \* history: a runtime was removed, the node was restarted, or a subgraph
                 \* deployed late met a merge
    changes,     \* chain changes so far
    reloads      \* deployments, removals and restarts so far

storeVars == <<utxos, head, rows>>
vars == <<chain, runtimes, known, storeVars, work, stopped, disturbed, changes, reloads>>

------------------------------------------------------------------------------

Idle == work = <<>> /\ ~stopped

\* Rows of a covenant, and the highest of a set of rows.
RowsOf(c)    == {r \in rows : r.covenant = c}
Highest(set) == CHOOSE r \in set : \A q \in set : q.seq <= r.seq

\* A head that stands on row `r`.
HeadAt(owner, r) == [subgraph |-> owner, current |-> r.output, count |-> r.seq + 1]

Init ==
    /\ chain = <<>> /\ changes = 0 /\ reloads = 0
    /\ runtimes = AtStart
    /\ known = [s \in Subgraph |-> {}]
    /\ utxos = [s \in Subgraph |-> <<>>]
    /\ head = <<>> /\ rows = {}
    /\ work = <<>> /\ stopped = FALSE /\ disturbed = FALSE

------------------------------------------------------------------------------

(***************************************************************************)
(* A chain change reaches every runtime, one after the other               *)
(* (fan_out_notification).  What one runtime does for it: unwind what it   *)
(* had committed of the dropped blocks, from their lowest score on, and    *)
(* record every output of the added blocks.                                *)
(***************************************************************************)

UnwindWork(s, dropped) ==
    LET unwound == known[s] \cap dropped
    IN  IF unwound = {} THEN <<>>
        ELSE <<[subgraph |-> s, unwind |-> TRUE,
                score |-> Min({DaaScore[b] : b \in unwound}), output |-> None]>>

RecordWork(s, added) ==
    FlattenSeq([i \in DOMAIN added |->
        [j \in DOMAIN Outputs[added[i]] |->
            [subgraph |-> s, unwind |-> FALSE,
             score |-> DaaScore[added[i]], output |-> Outputs[added[i]][j]]]])

FanOut(dropped, added) ==
    FlattenSeq([i \in DOMAIN runtimes |->
        UnwindWork(runtimes[i], dropped) \o RecordWork(runtimes[i], added)])

\* The part of a chain above the last block it shares with the current one.
Added(next) ==
    LET shared == {i \in DOMAIN next : next[i] \in Range(chain)}
    IN  SubSeq(next, Max({0} \cup shared) + 1, Len(next))

\* Does a transaction of the chain consume more than one covenant output?  A subgraph that
\* was deployed late may track only some of these, and name the covenant otherwise.
Merges(c) == \E b \in Range(c) : \E o \in Range(Outputs[b]) : Len(Inputs[o]) > 1

ChainChanged ==
    /\ Idle
    /\ changes < MaxChanges /\ changes' = changes + 1
    /\ \E next \in Chains :
          LET dropped == Range(chain) \ Range(next)
              added   == Added(next)
          IN  /\ added # <<>>
              /\ chain' = next
              /\ known' = [s \in Subgraph |->
                              IF s \in Range(runtimes)
                              THEN (known[s] \ dropped) \cup Range(added)
                              ELSE known[s]]
              /\ work' = FanOut(dropped, added)
              /\ disturbed' = (disturbed \/ (Merges(next) /\ runtimes # AtStart))
    /\ UNCHANGED <<runtimes, storeVars, stopped, reloads>>

------------------------------------------------------------------------------

(***************************************************************************)
(* unwind_covenant_utxos and unwind_covenant_lineage, from a score on.     *)
(***************************************************************************)

\* The rows an unwind by subgraph `s` leaves.
SurvivingAbove(s, from) == {r \in rows : r.subgraph # s \/ r.score <= from}
Surviving(s, from)      == {r \in rows : r.subgraph # s \/ r.score < from}

\* Heads of `s` that have no row left go; the others move to the highest row that
\* `s` itself recorded.
RepointedNever(s, left) ==
    Restrict(head, {c \in DOMAIN head :
                       head[c].subgraph = s => \E r \in left : r.covenant = c})
Repointed(s, left) ==
    LET kept == {c \in DOMAIN head :
                    head[c].subgraph = s => \E r \in left : r.covenant = c}
        own(c) == {r \in left : r.covenant = c /\ r.subgraph = s}
    IN  [c \in kept |-> IF head[c].subgraph = s /\ own(c) # {}
                        THEN HeadAt(s, Highest(own(c)))
                        ELSE head[c]]

Unwind ==
    /\ work # <<>> /\ ~stopped /\ Head(work).unwind
    /\ LET s    == Head(work).subgraph
           from == Head(work).score
           left == Surviving(s, from)
       IN  /\ utxos' = [utxos EXCEPT ![s] =
                          Restrict(@, {o \in DOMAIN @ : @[o].score < from})]
           /\ rows' = left
           /\ head' = Repointed(s, left)
    /\ work' = Tail(work)
    /\ UNCHANGED <<chain, runtimes, known, stopped, disturbed, changes, reloads>>

(***************************************************************************)
(* classify_lineage, track_covenant_utxo and persist_lineage, for one      *)
(* output a runtime meets in a block it commits.                           *)
(***************************************************************************)

\* The inputs of its transaction that spend an output `s` tracks, and the output that
\* the first of them spends.
Tracked(s, o) == {n \in DOMAIN Inputs[o] : Inputs[o][n] \in DOMAIN utxos[s]}

LastParentOf(s, o) ==
    IF Tracked(s, o) = {} THEN None ELSE Inputs[o][Max(Tracked(s, o))]
ParentOf(s, o) ==
    IF Tracked(s, o) = {} THEN None ELSE Inputs[o][Min(Tracked(s, o))]

\* The covenant the output belongs to: its own, unless it continues another.
CovenantOfGenesis(s, o) == o
CovenantOf(s, o) ==
    LET parent == ParentOf(s, o)
    IN  IF parent = None THEN o ELSE utxos[s][parent].covenant

\* covenant_lineage_row_exists.
RecordedHere(s, c, o) == \E r \in RowsOf(c) : r.output = o /\ r.subgraph = s
Recorded(s, c, o)     == \E r \in RowsOf(c) : r.output = o

\* next_lineage_step: the row takes the head's count as its number.
NextSeq(c) == IF c \in DOMAIN head THEN head[c].count ELSE 0

Record ==
    /\ work # <<>> /\ ~stopped /\ ~Head(work).unwind
    /\ LET s     == Head(work).subgraph
           o     == Head(work).output
           score == Head(work).score
           c     == CovenantOf(s, o)
           row   == [covenant |-> c, subgraph |-> s, seq |-> NextSeq(c), output |-> o,
                     parent |-> ParentOf(s, o), score |-> score]
           owner == IF c \in DOMAIN head THEN head[c].subgraph ELSE s
           clash == \E r \in RowsOf(c) : r.seq = row.seq \/ r.output = o
       IN  /\ utxos' = [utxos EXCEPT ![s] =
                          [p \in DOMAIN @ \cup {o} |->
                              IF p = o THEN [covenant |-> c, score |-> score] ELSE @[p]]]
           /\ IF Recorded(s, c, o)
              THEN /\ work' = Tail(work)
                   /\ UNCHANGED <<head, rows, stopped>>
              ELSE \* the head is written first; then a key of the row may be taken
                   /\ head' = [d \in DOMAIN head \cup {c} |->
                                  IF d = c THEN HeadAt(owner, row) ELSE head[d]]
                   /\ rows' = IF clash THEN rows ELSE rows \cup {row}
                   /\ stopped' = clash
                   /\ work' = IF clash THEN <<>> ELSE Tail(work)
    /\ UNCHANGED <<chain, runtimes, known, disturbed, changes, reloads>>

------------------------------------------------------------------------------

(***************************************************************************)
(* Between notifications the runtime set follows the registry              *)
(* (reconcile_subgraph_runtimes), or the node is restarted.  A new runtime *)
(* knows no block (make_subgraph_runtime); the tables stay.                *)
(***************************************************************************)

Reload ==
    /\ Idle
    /\ reloads < MaxReloads /\ reloads' = reloads + 1
    /\ UNCHANGED <<chain, storeVars, work, stopped, changes>>

\* A newly deployed subgraph joins at the end.
Deploy(s) ==
    /\ Reload
    /\ s \notin Range(runtimes)
    /\ runtimes' = Append(runtimes, s)
    /\ disturbed' = (disturbed \/ Merges(chain))
    /\ UNCHANGED known

\* A removed one leaves; an empty registry changes nothing.
Undeploy(s) ==
    /\ Reload
    /\ s \in Range(runtimes) /\ Len(runtimes) > 1
    /\ runtimes' = SelectSeq(runtimes, LAMBDA r : r # s)
    /\ known' = [known EXCEPT ![s] = {}]
    /\ disturbed' = TRUE

\* build_subgraph_runtimes lists the set anew, in the registry's order.
Restart ==
    /\ Reload
    /\ runtimes' = SelectSeq(Registered, LAMBDA s : s \in Range(runtimes))
    /\ known' = [s \in Subgraph |-> {}]
    /\ disturbed' = TRUE

Next ==
    \/ ChainChanged \/ Unwind \/ Record
    \/ \E s \in Subgraph : Deploy(s) \/ Undeploy(s)
    \/ Restart

Spec == Init /\ [][Next]_vars

------------------------------------------------------------------------------

(***************************************************************************)
(* Properties.                                                             *)
(***************************************************************************)

OnChain(o) == \E b \in Range(chain) : o \in Range(Outputs[b])
ScoreOf(o) == {DaaScore[b] : b \in {x \in Range(chain) : o \in Range(Outputs[x])}}

\* Every head stands on the highest of its covenant's rows, whose numbers run from
\* 0 without a gap, and every row has a head.
HeadsStandOnRows ==
    /\ {r.covenant : r \in rows} = DOMAIN head
    /\ \A c \in DOMAIN head :
          /\ {r.seq : r \in RowsOf(c)} = 0 .. head[c].count - 1
          /\ \E r \in RowsOf(c) : head[c] = HeadAt(head[c].subgraph, r)

\* So it is after every notification, whatever reorganizations and late deployments
\* happened, as long as the set of runtimes is undisturbed.
HeadsMatchRows == Idle /\ ~disturbed => HeadsStandOnRows

\* The lineage rows are those of the outputs on the selected chain, each stamped
\* with the score of the block that holds it there: a reorganization that moves
\* a transaction to another block moves its row.
LineageFollowsChain ==
    Idle /\ ~disturbed =>
        /\ {r.output : r \in rows} = {o \in Output : OnChain(o)}
        /\ \A r \in rows : r.score \in ScoreOf(r.output)

\* Each subgraph the node started with tracks exactly the outputs on the selected
\* chain, and a descendant carries the covenant of the first output it consumes.
TrackersFollowChain ==
    Idle /\ ~disturbed =>
        \A s \in Range(AtStart) :
            /\ DOMAIN utxos[s] = {o \in Output : OnChain(o)}
            /\ \A o \in DOMAIN utxos[s] :
                  utxos[s][o].covenant =
                      IF Inputs[o] = <<>> THEN o ELSE utxos[s][Inputs[o][1]].covenant

\* Rows point back along their covenant: the parent a row names was recorded in the
\* same covenant under a lower number, even when covenants fork and merge.
EdgesAreRecorded ==
    Idle /\ ~disturbed =>
        \A r \in rows :
            \/ r.parent = None
            \/ \E q \in RowsOf(r.covenant) : q.output = r.parent /\ q.seq < r.seq

\* However many runtimes meet an output, in the first block or again after a
\* reorganization, no insert meets a taken key, which would end the process.
InsertsFindFreeKeys == ~disturbed => ~stopped

==============================================================================
