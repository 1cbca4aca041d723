------------------------------- MODULE Pipeline -------------------------------
(* One committed block on its way through kasgraph-node, from the scripts of *)
(* its outputs to the rows and the checkpoint of one subgraph:               *)
(* `block_from_rpc`, the loop over committed writes of                       *)
(* `apply_and_persist_notification`, the mapping host (mapping_host.rs), the *)
(* sandboxed guest (kasgraph-mapping) and the stream hub (kasgraph-stream).  *)
(*                                                                           *)
(* The guest is a program of host calls that runs on a budget of fuel; it    *)
(* reads entities from a snapshot, and what it writes counts only if it      *)
(* returns.  Blocks come one after the other, a reorganization takes the     *)
(* last ones back.  Which blocks are committed when is the subject of        *)
(* Ingestion, a crash between two store calls that of Indexer, and the       *)
(* lineage tables that of Lineage; all three are left out here.              *)
EXTENDS Detectors, Kcc20, SequencesExt, FiniteSetsExt

CONSTANTS
    Tx,         \* transactions, numbered as their hashes sort
    Inputs,     \* per transaction the outpoints it spends
    Outputs,    \* per transaction the scripts of its outputs
    Blocks,     \* the blocks that may be committed, as sequences of transactions
    Registry,   \* the registered patterns
    Mappings,   \* the mappings that may be loaded, Unmapped for none
    Unmapped,
    Fuel,       \* host calls a guest may make before its fuel is gone
    Filters,    \* the filter lists a subscriber may come with
    Capacity,   \* of the broadcast channel
    MaxBlocks,  \* bound: blocks on the chain
    MaxReorgs,  \* bound: reorganizations
    MaxAttach   \* bound: events published before the subscriber comes

Outpoints == Tx \X Nat

ASSUME PipelineAssumption ==
    /\ Tx \subseteq Nat
    /\ Inputs \in [Tx -> Seq(Outpoints)]
    /\ Outputs \in [Tx -> Seq(Seq(Nat))]
    /\ Blocks \subseteq Seq(Tx)
    /\ Registry \in Seq(Range(Registry))
    /\ \A i \in DOMAIN Registry :
        IsFingerprint(Registry[i].matcher, Nat) /\ Valid(Registry[i].matcher)
    /\ \A m \in Mappings \ {Unmapped} : \A h \in DOMAIN m.exports :
        m.exports[h] \in Seq(Range(m.exports[h]))
    /\ Fuel \in Nat
    /\ Capacity \in Nat \ {0}
    /\ MaxBlocks \in Nat /\ MaxReorgs \in Nat

VARIABLES
    mapping,     \* the loaded mapping
    chain,       \* the committed blocks, lowest first
    patterns,    \* rows of detected_patterns
    utxos,       \* covenant_utxos: from outpoint to the row
    spends,      \* covenant_spends: from <<spending tx, outpoint>> to the row
    versions,    \* entity_versions: from <<entity, score>> to the data
    checkpoints, \* the POI input of every block
    phase,       \* where the loop over committed writes is
    at,          \* the hit or spend it is at
    snapshot,    \* what store_get reads
    dispatched,  \* the records of the block's locked handlers
    guest,       \* the instance a handler runs in
    events,      \* everything published, oldest first
    sub,         \* one subscription
    reorgs

tables == <<patterns, utxos, spends, versions>>
handling == <<at, snapshot, dispatched, guest>>
vars == <<mapping, chain, tables, checkpoints, phase, handling, events, sub, reorgs>>

NoGuest == [running |-> FALSE]
Empty == [x \in {} |-> x]
NoSub == [attached |-> FALSE]

Daa == Len(chain)
Block == chain[Daa]

-------------------------------------------------------------------------------
(* What a block holds.                                                       *)

TxHits ==
    [tx \in Tx |-> FlattenSeq([i \in DOMAIN Outputs[tx] |->
        DetectInOutput(Registry, Outputs[tx][i], tx, i - 1)])]

HitsOf == [block \in Blocks |-> FlattenSeq([i \in DOMAIN block |-> TxHits[block[i]]])]

InputsOfTx(tx) ==
    [j \in DOMAIN Inputs[tx] |-> [spending |-> tx, previous |-> Inputs[tx][j]]]

InputsOf == [block \in Blocks |-> FlattenSeq([i \in DOMAIN block |-> InputsOfTx(block[i])])]

\* The inputs in the order of a map keyed by the spending transaction.
ByTransaction ==
    [block \in Blocks |->
        FlattenSeq([n \in 1..(Max(Range(block) \cup {0}) + 1) |->
            IF n - 1 \in Range(block) THEN InputsOfTx(n - 1) ELSE <<>>])]

Hits == HitsOf[Block]

\* The inputs that spend a tracked output.
SpendsOf(block, tracked) ==
    LET inputs == ByTransaction[block]
    IN  FlattenSeq([i \in DOMAIN inputs |->
            IF inputs[i].previous \in tracked THEN <<inputs[i]>> ELSE <<>>])

Spends == SpendsOf(Block, DOMAIN utxos)

-------------------------------------------------------------------------------
(* The descriptor, the guest and the host functions.                         *)

\* The first data source that selects the kind and binds the event.
Resolve(sources, kind, event) ==
    LET Binds(ds) == kind \in ds.patterns /\ event \in DOMAIN ds.handlers
    IN  SelectInSeq(sources, Binds)

HasHandler(kind, event) == Resolve(mapping.sources, kind, event) # 0

Handler(kind, event) ==
    mapping.sources[Resolve(mapping.sources, kind, event)].handlers[event]

\* An instance of its own for every event; it fails at once if the module
\* exports no such handler.
Instantiate(handler, event) ==
    [running |-> TRUE, handler |-> handler, event |-> event,
     step |-> 1, seen |-> <<>>, ops |-> <<>>, fuel |-> Fuel,
     outcome |-> IF handler \in DOMAIN mapping.exports THEN "runs" ELSE "failed"]

Program == mapping.exports[guest.handler]

Running == guest.running /\ guest.outcome = "runs"
Returned == guest.running /\ guest.outcome = "returned"
Failed == guest.running /\ guest.outcome = "failed"

Op(entity, data) == [entity |-> entity, data |-> data]

ReadEntity(entities, entity) ==
    IF entity \in DOMAIN entities THEN entities[entity] ELSE <<>>

\* Mutant: the instance starts without a budget.
HostCallUnmetered(call) ==
    /\ Running /\ guest.step <= Len(Program) /\ Program[guest.step] = call
    /\ guest' = CASE call.call = "get" -> [guest EXCEPT !.step = @ + 1, !.seen = ReadEntity(snapshot, call.entity)]
                  [] call.call = "set" -> [guest EXCEPT !.step = @ + 1, !.ops = Append(@, Op(call.entity, Append(guest.seen, guest.event)))]
                  [] call.call = "loop" -> guest
                  [] OTHER -> [guest EXCEPT !.outcome = "failed"]
    /\ UNCHANGED <<mapping, chain, tables, checkpoints, phase, at, snapshot, dispatched, events, sub, reorgs>>

\* A host call: a read from the snapshot, a write, a loop that does not end, or
\* one that traps: a malformed write, a pointer out of bounds, unreachable code.
HostCall(call) ==
    /\ Running /\ guest.step <= Len(Program) /\ Program[guest.step] = call
    /\ guest' =
        IF guest.fuel = 0
        THEN [guest EXCEPT !.outcome = "failed"]
        ELSE LET g == [guest EXCEPT !.fuel = @ - 1]
             IN  CASE call.call = "get" ->
                        [g EXCEPT !.step = @ + 1, !.seen = ReadEntity(snapshot, call.entity)]
                   [] call.call = "set" ->
                        [g EXCEPT !.step = @ + 1,
                                  !.ops = Append(@, Op(call.entity, Append(g.seen, g.event)))]
                   [] call.call = "loop" -> g
                   [] OTHER -> [g EXCEPT !.outcome = "failed"]
    /\ UNCHANGED <<mapping, chain, tables, checkpoints, phase, at, snapshot, dispatched, events, sub, reorgs>>

Return ==
    /\ Running /\ guest.step > Len(Program)
    /\ guest' = [guest EXCEPT !.outcome = "returned"]
    /\ UNCHANGED <<mapping, chain, tables, checkpoints, phase, at, snapshot, dispatched, events, sub, reorgs>>

-------------------------------------------------------------------------------
(* Store.                                                                    *)

Put(table, key, row) ==
    [k \in {key} \cup DOMAIN table |-> IF k = key THEN row ELSE table[k]]

\* One version per entity and score: the last record written wins.
Upsert(table, records) ==
    LET writing(k) == {i \in DOMAIN records : <<records[i].entity, records[i].daa>> = k}
        keys == {<<r.entity, r.daa>> : r \in Range(records)}
    IN  [k \in keys \cup DOMAIN table |->
            IF k \in keys THEN records[Max(writing(k))].data ELSE table[k]]

Latest(table) ==
    [entity \in {k[1] : k \in DOMAIN table} |->
        table[<<entity, Max({k[2] : k \in {q \in DOMAIN table : q[1] = entity}})>>]]

Stamped(ops, daa) ==
    [i \in DOMAIN ops |-> [entity |-> ops[i].entity, daa |-> daa, data |-> ops[i].data]]

\* The POI input: the records of each entity, in the order they were emitted.
CanonicalEntities(records) ==
    [entity \in {r.entity : r \in Range(records)} |->
        SelectSeq(records, LAMBDA r : r.entity = entity)]

CanonicalBlock(block) == [block |-> block, rows |-> Range(HitsOf[block])]

\* The covenant of an output: that of the first tracked one its transaction
\* spends, or a new one named after the output.
CovenantOf(hit, tracked) ==
    LET inputs == Inputs[hit.tx]
        spending == {i \in DOMAIN inputs : inputs[i] \in DOMAIN tracked}
    IN  IF spending = {} THEN <<hit.tx, hit.index>>
        ELSE tracked[inputs[Min(spending)]].covenant

-------------------------------------------------------------------------------
Init ==
    /\ mapping \in Mappings
    /\ chain = <<>>
    /\ patterns = {}
    /\ utxos = Empty
    /\ spends = Empty
    /\ versions = Empty
    /\ checkpoints = <<>>
    /\ phase = "idle"
    /\ at = 1
    /\ snapshot = Empty
    /\ dispatched = <<>>
    /\ guest = NoGuest
    /\ events = <<>>
    /\ sub = NoSub
    /\ reorgs = 0

OnChain(tx) == \E d \in DOMAIN chain : tx \in Range(chain[d])

Commit(block) ==
    /\ phase = "idle"
    /\ Len(chain) < MaxBlocks
    \* upstream: no transaction twice, and none that spends what is spent
    /\ \A tx \in Range(block) :
        /\ ~OnChain(tx)
        /\ \A o \in Range(Inputs[tx]) :
            /\ OnChain(o[1]) \/ Outputs[o[1]] = <<>>
            /\ \A other \in Tx \ {tx} :
                o \in Range(Inputs[other]) => ~OnChain(other) /\ other \notin Range(block)
    /\ chain' = Append(chain, block)
    /\ phase' = "hits"
    /\ at' = 1
    /\ dispatched' = <<>>
    /\ UNCHANGED <<mapping, tables, checkpoints, snapshot, guest, events, sub, reorgs>>

Tracked(hit) ==
    Put(utxos, <<hit.tx, hit.index>>,
        [daa |-> Daa, kind |-> hit.kind, covenant |-> CovenantOf(hit, utxos),
         state |-> hit.payload])

\* What the hub gets: the hit as it was detected.
StreamEvent(hit) == [daa |-> Daa, kind |-> hit.kind, tx |-> hit.tx, index |-> hit.index]

HandleHit ==
    /\ phase = "hits" /\ at <= Len(Hits)
    /\ LET hit == Hits[at]
       IN  /\ patterns' = patterns \cup {[daa |-> Daa, hit |-> hit]}
           /\ events' = Append(events, StreamEvent(hit))
           /\ utxos' = IF mapping = Unmapped THEN utxos ELSE Tracked(hit)
    /\ at' = at + 1
    /\ UNCHANGED <<mapping, chain, spends, versions, checkpoints, phase, snapshot, dispatched, guest, sub, reorgs>>

\* Where the loop goes once the locked part of a block is done.
ToSpends ==
    /\ at' = 1
    /\ IF mapping # Unmapped /\ InputsOf[Block] # <<>>
       THEN phase' = "spends" /\ snapshot' = Latest(versions')
       ELSE phase' = "checkpoint" /\ UNCHANGED snapshot

HitsHandled ==
    /\ phase = "hits" /\ at > Len(Hits)
    /\ IF mapping # Unmapped /\ Hits # <<>>
       THEN /\ phase' = "locked"
            /\ at' = 1
            /\ snapshot' = Latest(versions)
            /\ UNCHANGED versions
       ELSE UNCHANGED versions /\ ToSpends
    /\ UNCHANGED <<mapping, chain, patterns, utxos, spends, checkpoints, dispatched, guest, events, sub, reorgs>>

\* A hit is told without its covenant: it was detected before any was assigned.
LockedEvent(hit, daa) ==
    [event |-> "CovenantLocked", state |-> hit.payload, daa |-> daa]

DispatchLocked ==
    /\ phase = "locked" /\ at <= Len(Hits) /\ ~guest.running
    /\ LET hit == Hits[at]
       IN  IF HasHandler(hit.kind, "CovenantLocked")
           THEN /\ guest' = Instantiate(Handler(hit.kind, "CovenantLocked"), LockedEvent(hit, Daa))
                /\ UNCHANGED at
           ELSE at' = at + 1 /\ UNCHANGED guest
    /\ UNCHANGED <<mapping, chain, tables, checkpoints, phase, snapshot, dispatched, events, sub, reorgs>>

\* Mutant: the writes a handler made before it failed are kept.
EmittedAnyway == guest.ops

\* A handler that fails emits nothing.
Emitted == IF Returned THEN guest.ops ELSE <<>>

LockedDispatched ==
    /\ phase = "locked"
    /\ Returned \/ Failed
    /\ dispatched' = dispatched \o Stamped(Emitted, Daa)
    /\ guest' = NoGuest
    /\ at' = at + 1
    /\ UNCHANGED <<mapping, chain, tables, checkpoints, phase, snapshot, events, sub, reorgs>>

StoreDispatched ==
    /\ phase = "locked" /\ at > Len(Hits)
    /\ versions' = Upsert(versions, dispatched)
    /\ ToSpends
    /\ UNCHANGED <<mapping, chain, patterns, utxos, spends, checkpoints, dispatched, guest, events, sub, reorgs>>

\* The rows of those outpoints that are tracked.
RowsOf(outpoints) == Restrict(utxos, outpoints \cap DOMAIN utxos)

CreatedBy(tx) == RowsOf({o \in DOMAIN utxos : o[1] = tx})
ConsumedBy(tx) == RowsOf(Range(Inputs[tx]))

States(rows) == [o \in DOMAIN rows |-> rows[o].state]

IsAsset(row) == row.kind = "KCC20Asset"

AssetsOf(rows) == Restrict(rows, {o \in DOMAIN rows : IsAsset(rows[o])})

\* Only a transaction that consumes KCC20 receipts and no other covenant has
\* an operation.
OperationOf(consumed, created) ==
    IF \A row \in Range(consumed) : IsAsset(row)
    THEN SpendOperation(States(consumed), States(AssetsOf(created)))
    ELSE Undetermined

Operation(tx) == OperationOf(ConsumedBy(tx), CreatedBy(tx))

LineageContinues(tx, covenant) ==
    \E o \in DOMAIN utxos : o[1] = tx /\ utxos[o].covenant = covenant

SpendKey(s) == <<s.spending, s.previous>>

SpendEvent(s, daa) ==
    LET spent == utxos[s.previous]
    IN  [event |-> "CovenantSpent", covenant |-> spent.covenant,
         operation |-> Operation(s.spending),
         continues |-> LineageContinues(s.spending, spent.covenant),
         state |-> spent.state, daa |-> daa]

DispatchSpend ==
    /\ phase = "spends" /\ at <= Len(Spends) /\ ~guest.running
    /\ \E s \in {Spends[at]} :
       LET spent == utxos[s.previous]
       IN  /\ spends' = Put(spends, SpendKey(s),
                [daa |-> Daa, kind |-> spent.kind, covenant |-> spent.covenant,
                 continues |-> LineageContinues(s.spending, spent.covenant)])
           /\ IF Operation(s.spending) # Undetermined /\ HasHandler(spent.kind, "CovenantSpent")
              THEN /\ guest' = Instantiate(Handler(spent.kind, "CovenantSpent"), SpendEvent(s, Daa))
                   /\ UNCHANGED at
              ELSE at' = at + 1 /\ UNCHANGED guest
    /\ UNCHANGED <<mapping, chain, patterns, utxos, versions, checkpoints, phase, snapshot, dispatched, events, sub, reorgs>>

SpendDispatched ==
    /\ phase = "spends"
    /\ Returned \/ Failed
    /\ versions' = Upsert(versions, Stamped(Emitted, Daa))
    /\ guest' = NoGuest
    /\ at' = at + 1
    /\ UNCHANGED <<mapping, chain, patterns, utxos, spends, checkpoints, phase, snapshot, dispatched, events, sub, reorgs>>

SpendsHandled ==
    /\ phase = "spends" /\ at > Len(Spends)
    /\ phase' = "checkpoint"
    /\ UNCHANGED <<mapping, chain, tables, checkpoints, handling, events, sub, reorgs>>

PoiInput == IF mapping = Unmapped THEN CanonicalBlock(Block) ELSE CanonicalEntities(dispatched)

Checkpoint ==
    /\ phase = "checkpoint"
    /\ checkpoints' = Append(checkpoints, PoiInput)
    /\ phase' = "idle"
    /\ UNCHANGED <<mapping, chain, tables, handling, events, sub, reorgs>>

-------------------------------------------------------------------------------
(* A reorganization, and the subscriber.                                     *)

\* Mutant: what unwound blocks wrote is kept.
UnwindVersionsNever(from) == versions' = versions

UnwindVersions(from) == versions' = Restrict(versions, {k \in DOMAIN versions : k[2] < from})

\* Mutant: the cutoff itself survives.
UnwindUtxosAbove(from) == utxos' = Restrict(utxos, {k \in DOMAIN utxos : utxos[k].daa <= from})

UnwindUtxos(from) == utxos' = Restrict(utxos, {k \in DOMAIN utxos : utxos[k].daa < from})

UnwindSpends(from) == spends' = Restrict(spends, {k \in DOMAIN spends : spends[k].daa < from})

Unwind(from) ==
    /\ phase = "idle"
    /\ reorgs < MaxReorgs
    /\ chain' = SubSeq(chain, 1, from - 1)
    /\ checkpoints' = SubSeq(checkpoints, 1, from - 1)
    /\ patterns' = {p \in patterns : p.daa < from}
    /\ UnwindVersions(from)
    /\ UnwindUtxos(from)
    /\ UnwindSpends(from)
    /\ reorgs' = reorgs + 1
    /\ UNCHANGED <<mapping, phase, handling, events, sub>>

\* A filter names a kind, or is "all"; no event carries a covenant id.
Wanted(event) == \E f \in Range(sub.filters) : f \in {"all", event.kind}

Subscribe(filters) ==
    /\ ~sub.attached
    /\ phase # "stopped"
    /\ Len(events) <= MaxAttach
    /\ sub' = [attached |-> TRUE, filters |-> filters, from |-> Len(events),
               next |-> Len(events), got |-> 0, lagged |-> 0, closed |-> FALSE]
    /\ UNCHANGED <<mapping, chain, tables, checkpoints, phase, handling, events, reorgs>>

Lag == Len(events) - Capacity - sub.next

\* Mutant: after a lag the subscription goes on with what comes next.
ReceiveFromHead ==
    /\ sub.attached /\ sub.next < Len(events)
    /\ sub' = IF Lag > 0
              THEN [sub EXCEPT !.lagged = @ + Lag, !.next = Len(events)]
              ELSE [sub EXCEPT !.next = @ + 1,
                               !.got = IF Wanted(events[sub.next + 1]) THEN @ + 1 ELSE @]
    /\ UNCHANGED <<mapping, chain, tables, checkpoints, phase, handling, events, reorgs>>

\* One turn of the loop of recv: the events overwritten meanwhile are
\* reported as a number, an event nobody asked for is passed over.
Receive ==
    /\ sub.attached /\ sub.next < Len(events)
    /\ sub' = IF Lag > 0
              THEN [sub EXCEPT !.lagged = @ + Lag, !.next = @ + Lag]
              ELSE [sub EXCEPT !.next = @ + 1,
                               !.got = IF Wanted(events[sub.next + 1]) THEN @ + 1 ELSE @]
    /\ UNCHANGED <<mapping, chain, tables, checkpoints, phase, handling, events, reorgs>>

\* The hub goes with the node.
Stop ==
    /\ phase = "idle"
    /\ phase' = "stopped"
    /\ UNCHANGED <<mapping, chain, tables, checkpoints, handling, events, sub, reorgs>>

ReceiveClosed ==
    /\ phase = "stopped"
    /\ sub.attached /\ ~sub.closed /\ sub.next = Len(events)
    /\ sub' = [sub EXCEPT !.closed = TRUE]
    /\ UNCHANGED <<mapping, chain, tables, checkpoints, phase, handling, events, reorgs>>

Calls ==
    UNION {UNION {Range(m.exports[h]) : h \in DOMAIN m.exports} : m \in Mappings \ {Unmapped}}

Step ==
    \/ HandleHit
    \/ HitsHandled
    \/ DispatchLocked
    \/ \E call \in Calls : HostCall(call)
    \/ Return
    \/ LockedDispatched
    \/ StoreDispatched
    \/ DispatchSpend
    \/ SpendDispatched
    \/ SpendsHandled
    \/ Checkpoint

Next ==
    \/ \E block \in Blocks : Commit(block)
    \/ Step
    \/ \E from \in DOMAIN chain : Unwind(from)
    \/ \E filters \in Filters : Subscribe(filters)
    \/ Receive
    \/ Stop
    \/ ReceiveClosed

\* The node's task is scheduled: it goes on as long as it has a step.
Fairness == WF_vars(Step)

Spec == Init /\ [][Next]_vars /\ Fairness
-------------------------------------------------------------------------------
(* Properties.                                                               *)

Outpoint(hit) == <<hit.tx, hit.index>>

\* Every variable has its type; the loop is at a hit or a spend of its block
\* and a guest runs only while handlers are dispatched.
TypeOK ==
    /\ mapping \in Mappings
    /\ chain \in Seq(Blocks) /\ Len(chain) <= MaxBlocks
    /\ DOMAIN utxos \subseteq Outpoints
    /\ DOMAIN spends \subseteq Tx \X Outpoints
    /\ \A k \in DOMAIN versions : k[2] \in DOMAIN chain
    /\ Len(checkpoints) = Len(chain) - (IF phase \in {"idle", "stopped"} THEN 0 ELSE 1)
    /\ phase \in {"idle", "hits", "locked", "spends", "checkpoint", "stopped"}
    /\ phase \in {"hits", "locked"} => at \in 1..(Len(Hits) + 1)
    /\ phase = "spends" => at \in 1..(Len(Spends) + 1)
    /\ guest.running => phase \in {"locked", "spends"} /\ guest.fuel \in 0..Fuel
    /\ reorgs \in 0..MaxReorgs

Settled == phase \in {"idle", "stopped"}

\* A handler run from its description, not step by step: it counts if it is
\* exported, makes no call that traps or loops, and stays in the budget.
Completes(handler) ==
    /\ handler \in DOMAIN mapping.exports
    /\ Len(mapping.exports[handler]) <= Fuel
    /\ \A call \in Range(mapping.exports[handler]) : call.call \in {"get", "set"}

SeenAt(program, entities, i) ==
    LET reads == {j \in 1..(i - 1) : program[j].call = "get"}
    IN  IF reads = {} THEN <<>> ELSE ReadEntity(entities, program[Max(reads)].entity)

OpsOf(handler, event, entities) ==
    LET program == mapping.exports[handler]
        op == [i \in DOMAIN program |->
                IF program[i].call = "set"
                THEN <<Op(program[i].entity, Append(SeenAt(program, entities, i), event))>>
                ELSE <<>>]
    IN  IF Completes(handler) THEN FlattenSeq(op) ELSE <<>>

LockedRecords(d, entities) ==
    LET hits == HitsOf[chain[d]]
    IN  FlattenSeq([i \in DOMAIN hits |->
            IF HasHandler(hits[i].kind, "CovenantLocked")
            THEN Stamped(OpsOf(Handler(hits[i].kind, "CovenantLocked"),
                               LockedEvent(hits[i], d), entities), d)
            ELSE <<>>])

SpentRecords(d, entities) ==
    LET inputs == SpendsOf(chain[d], DOMAIN utxos)
        kind(s) == utxos[s.previous].kind
    IN  FlattenSeq([i \in DOMAIN inputs |->
            IF /\ Operation(inputs[i].spending) # Undetermined
               /\ HasHandler(kind(inputs[i]), "CovenantSpent")
            THEN Stamped(OpsOf(Handler(kind(inputs[i]), "CovenantSpent"),
                               SpendEvent(inputs[i], d), entities), d)
            ELSE <<>>])

\* From the versions before a block to those after its locked handlers, and
\* after its spend handlers.
AfterLocked(table, d) == Upsert(table, LockedRecords(d, Latest(table)))
AfterSpends(table, d) == Upsert(table, SpentRecords(d, Latest(table)))

VersionsAfter[d \in 0..MaxBlocks] ==
    IF d = 0 THEN Empty
    ELSE AfterSpends(AfterLocked(VersionsAfter[d - 1], d), d)

\* What is indexed is a function of the selected chain: whatever was indexed
\* and unwound before, the entity versions are those of a run over the chain
\* in which all locked handlers of a block see the entities before it, all
\* its spend handlers see those after its locked ones, and a handler that
\* traps, loops, exceeds its fuel or is not exported leaves nothing; and every
\* checkpoint hashes what that run dispatches for its block.
EntitiesFollowChain ==
    Settled =>
        IF mapping = Unmapped
        THEN versions = Empty /\ checkpoints = [d \in DOMAIN chain |-> CanonicalBlock(chain[d])]
        ELSE /\ versions = VersionsAfter[Len(chain)]
             /\ checkpoints = [d \in DOMAIN chain |->
                    CanonicalEntities(LockedRecords(d, Latest(VersionsAfter[d - 1])))]

OnChainAt(d) == Range(HitsOf[chain[d]])

\* No two registered patterns match one output.
OneKind ==
    \A tx \in Tx : \A i \in DOMAIN Outputs[tx] : \A k, l \in DOMAIN Registry :
        /\ Matches(Registry[k].matcher, Outputs[tx][i])
        /\ Matches(Registry[l].matcher, Outputs[tx][i])
        => k = l

\* The tracker and the spend rows are those of the selected chain, with
\* nothing left of a block that was unwound: every detected output is tracked
\* at its block with its state, under the covenant of the tracked output its
\* transaction spends or a new one; and the spend rows are exactly the inputs
\* of chain transactions that spend a tracked output, each saying whether its
\* covenant goes on.
SpendsFollowChain ==
    Settled /\ mapping # Unmapped =>
        /\ DOMAIN utxos = UNION {{Outpoint(h) : h \in OnChainAt(d)} : d \in DOMAIN chain}
        /\ \A d \in DOMAIN chain : \A h \in OnChainAt(d) :
            /\ utxos[Outpoint(h)].daa = d
            /\ utxos[Outpoint(h)].state = h.payload
            /\ utxos[Outpoint(h)].covenant = CovenantOf(h, utxos)
        /\ DOMAIN spends =
            UNION {{<<i.spending, i.previous>> : i \in {j \in Range(InputsOf[chain[d]]) :
                j.previous \in DOMAIN utxos}} : d \in DOMAIN chain}
        /\ \A k \in DOMAIN spends :
            /\ k[1] \in Range(chain[spends[k].daa])
            /\ spends[k].covenant = utxos[k[2]].covenant
            /\ spends[k].continues <=>
                \E o \in DOMAIN utxos : o[1] = k[1] /\ utxos[o].covenant = utxos[k[2]].covenant

\* Tokens in tracked outputs, read from the scripts on the chain.
AssetAmounts(outpoints) ==
    LET assets == {h \in UNION {OnChainAt(d) : d \in DOMAIN chain} :
                    h.kind = "KCC20Asset" /\ Outpoint(h) \in outpoints}
    IN  SumFunction([h \in assets |-> LittleEndian(h.payload["amount"])])

\* A handler is told of a mint exactly if the transaction leaves more tokens
\* in the covenants the indexer tracks than it consumes, of a burn exactly if
\* it leaves less: a mapping that adds up mints and burns knows the supply.
OperationFollowsSupply ==
    phase = "spends" /\ guest.running =>
        LET tx == Spends[at].spending
            before == AssetAmounts(Range(Inputs[tx]))
            after == AssetAmounts({tx} \X Nat)
        IN  /\ guest.event.operation = "mint" <=> after > before
            /\ guest.event.operation = "burn" <=> after < before

\* What a subscriber misses it is told of: of the events that match its
\* filters and were published since it came, those it has been through and
\* did not get are never more than the lags reported to it, none comes twice,
\* and at the end of the stream it has been through everything.
NoSilentLoss ==
    sub.attached =>
        LET wanted == {i \in (sub.from + 1)..sub.next : Wanted(events[i])}
        IN  /\ sub.got <= Cardinality(wanted)
            /\ Cardinality(wanted) - sub.got <= sub.lagged
            /\ sub.closed => sub.next = Len(events)

\* Whatever the mapping does, a block that was begun is finished: a handler
\* that traps or never returns does not stall the indexer.
EveryBlockEnds == ~Settled ~> Settled
===============================================================================
