# KasGraph in TLA+

A model of the KasGraph indexer (`src/`): how it gets its blocks and recognizes
covenants in them, what the node does with the notifications it is fed, what it
leaves in Postgres, and what becomes of all this when the chain reorganizes,
endpoints fail, the connection drops or the process stops. Modules are checked
with TLC; theorems about eight parts of it are proved with TLAPS.

Source references are relative to `src/`; `main.rs` is
`crates/kasgraph-node/src/main.rs`, *store*, *rpc*, *poi* and *stream* are the
`lib.rs` of `kasgraph-store`, `kasgraph-rpc`, `kasgraph-poi` and `kasgraph-stream`.

## 1. The system

KasGraph follows the selected chain of a Kaspa node, detects covenant patterns in
the transactions of its blocks, runs WASM mappings over the hits of blocks it
considers final, and serves the result over GraphQL. Kaspa is a block DAG: blocks
carry a DAA score, the *virtual selected-parent chain* (VSPC) picks one branch,
and `docs/references/BLOCKDAG_REORG_SEMANTICS.md` says how an indexer is to follow
its changes.

```
 kaspad --ws--> subscription driver --bounded channel--> ingestion loop
 (external)     run_continuous_subscription               run_continuous_ingestion
                                                             | fan_out_notification
                                                             v
                                              per subgraph: IngestionState (memory)
                                                             |
                                                             v   one call = one transaction
                                              Postgres (committed blocks, patterns, UTXOs,
                                              spends, lineage, entity versions, POI)
                                                             |            |
                                                   NOTIFY / stream hub    read-only queries
                                                             v            v
                                                    GraphQL API, subscriptions, MCP server
```

### Components

| Component | State it keeps | Operations | Correct when | Model |
|---|---|---|---|---|
| RPC client, endpoints, probes (rpc 44-710) | health per endpoint, rotation of the backups, audit log | ask one endpoint after the other, probe, drain | a request is served if an endpoint can; every block served is audited once | `Endpoints` |
| Wire messages (rpc 1159-1527) | - | classify a message | no notification is taken for an answer | `Envelopes` |
| Subscription driver (rpc 806-1157) | link, attempts, `last_emitted_daa`, `pending_gap_check` | connect, read, send, back off, report a gap | no message lost unnoticed; ends when told | `Feed` |
| Ingestion loop and gap recovery (`main.rs` 560-770, rpc recovery) | receiver, current recovery | take, handle, recover, drain the audit, leave | memory converges to the chain; both tasks end | `Feed`, `Endpoints` |
| Bootstrap and bounded ingest (`main.rs` 448-472, 1816-1901) | - | fetch a batch or read the stream, hand it on | all of it audited | `Endpoints` |
| Ingestion state machine (`main.rs` 1895-2165) | maps `committed` and `probabilistic`, keyed by DAA score | `apply_notification`: BlockAdded, VirtualChainChanged, RecoveryRequired | one block per score; what is final is committed, nothing else; the returned transition tells every change | `Ingestion` |
| Notification persistence (`main.rs` 817-1310, store) | Postgres tables per subgraph | five unwind calls, reseed, eight write calls per block | store = memory = selected chain; a replay gives the same result | `Indexer`, `Pipeline` |
| POI chain (poi, `main.rs` 1276) | `prior_poi`, `kasgraph_poi` rows | checkpoint, re-anchor, verify | the chain verifies and never changes once final | `Indexer`, `Pipeline` |
| Pattern detectors (`kasgraph-detectors`) | none | match a script, extract fields, derive a fingerprint | a match is in bounds; a derived fingerprint matches its samples | `Detectors`, `Patterns` |
| Mapping host, WASM runtime (`mapping_host.rs`, `kasgraph-mapping`) | a guest per event | resolve a handler, run it, collect its writes | a handler that fails leaves nothing; none stalls the node | `Pipeline` |
| KCC-20 operations (`kcc20_operation.rs`) | none | classify a spend | mints and burns add up to the supply | `Kcc20` |
| Covenant lineage (`main.rs` 1615-1740, store 520-760, 1095-1165) | shared head and row tables, per-subgraph UTXO tracker | classify, track, persist, unwind | rows = covenant outputs on the chain; the head is the last row | `Lineage`, `Indexer` |
| Runtimes and registry (`main.rs` 1380-1580) | ordered set of runtimes | deploy, undeploy, restart | a new runtime does not disturb the others | `Lineage` (as far as lineage needs it) |
| Legacy KRC-20/721 ledgers and journal (detectors, `legacy_ledger.rs`, store 1171-1431) | balances, owners, journal rows | apply, record, unwind, replay | supply is held; replay = state | `Inscriptions`, `LegacyJournal` |
| Stream hub (stream) | broadcast ring | publish, subscribe, receive | what is lost is reported | `Pipeline` |
| GraphQL subscriptions (`api/src/pg-listen.ts`, `subscriptions.ts`) | one listener client, subscribers with their queues | subscribe, pull, leave, connect, close, deliver | who stays gets every event once; nobody left, no listener | `PgListen` |
| GraphQL API | - | queries | - | no: read-only (`PgListen` has its shutdown) |
| Deploy endpoint, MCP, CLI, SDK, site, examples | - | - | - | no: stateless or content |

### What is hard here

* **Reorganizations.** A VSPC change drops and adds blocks; memory, nine tables
  and a hash chain must follow. Committed blocks are unwound by hash, derived rows
  by score.
* **Promotion.** A block is committed because of a *later* block, by a score
  comparison, in a different notification from the one that brought it.
* **Crashes.** A notification is up to a dozen transactions; memory is rebuilt
  from one row.
* **Lost messages.** The connection may take messages with it; the only evidence
  later is a jump in DAA scores, found by one task and repaired by another with
  notifications queued between them.
* **Foreign code.** Mappings are WASM modules that may trap or never return, between
  reads of a snapshot and writes that must count all or not at all.
* **Shared clients.** Three tasks ask endpoints through one client, with one health
  table, one rotation counter and one audit log, and endpoints fail meanwhile.
* **Awaits.** The API's listener client is connected and closed across several awaits,
  while subscribers come and go.
* **Sharing.** Subgraphs are isolated but for the lineage tables, where several
  runtimes write the same keys one after the other.

`PROJECT.json` lists these as hazards, each at its line with the properties that
would catch it.

## 2. The modules

A comment above each definition says what it stands for; `PROJECT.json` maps it to
source lines. Where definitions of one operator stand together (`Promotable`,
`PromotableStrict`, ...), the last is the code's and the others, also marked
"Mutant" in the later modules, are faulty variants used by no action: each was put
in the code's place to see TLC find a property violated.

### Getting blocks

**`Endpoints`** is `MultiRpcClient` and the two modes of the node that use it. A
request (`calls`) walks `FailoverChain` one endpoint at a time: `Ask` is the
endpoint's answer or the timeout, `Answered` and `Refused` what the client makes of
it, so that other requests, the probe loop (`Probe`, `ProbeAnswered`) and the
draining of the audit log (`TakeLog`, `StoreRecord`, `StoreFails`) come in between.
The rotation counter is kept modulo the number of backups. `steady` and `served`
are history. External: the endpoints, which are up, answer with errors or are down,
and change (`Flip`). `Bootstrap...` is the one-shot mode, `Preflight`, `LoopRecovers`,
`LoopDrains` and `DriverReads` the continuous one.

**`Envelopes`** is what a wire message is taken for: `Parsed` of a message (a function
from its keys) is a notification, a list of hashes, an answer to a subscription,
nothing or an error. `Endpoints` reads the stream through it.

**`Feed`** is the driver, the channel and the loop as two tasks that interleave,
over an instance of `Ingestion`. The driver is down, connecting, up or stopped:
`Dial` begins an attempt, `Connect` is the server's answer to it, which may never
come; only while up (`NoticeClosed`) and between attempts (`Stop`) does the driver
see that the receiver is gone. `StreamEnds` and `AttemptFails` lose what is
on the wire; `Read` does the gap check; `Send` waits for room in the channel;
`TakeGap` and `Recover` refetch. A gap with no known block below it would be
recovered from a configured list of hashes, if there is one; `GapsHaveAnchor` says that
the case does not arise, so `GiveUpRecovery` stands for it. Upstream is a tree of blocks
whose selected tip moves (`Advance`). `base` is the tip of the connection on which the
first notification was emitted: what earlier connections announced and lost is
recovered by nobody, since the gap check has no score to compare with.

### From blocks to rows

**`Ingestion`** is `IngestionState`. The two `BTreeMap`s are sets of blocks (the
key is a function of the value); `Put` replaces what is stored at the same score.
`finalized` holds the `is_finalized` flags of buffered blocks. A notification is
`BlockAdded`, `VirtualChainChanged` or `RecoveryRequired`; its added blocks wait in
`todo` and are applied one per step by `IgnoreBlock` or
`BufferAndPromote` (the paths through `apply_block`); `Return` hands over the
transition (`writes`, `unwinds`, `recovery`). `rolled_back_probabilistic` is left
out: the caller only logs it.

**`Indexer`** is `apply_and_persist_notification` for one subgraph with a mapping.
It instantiates `Ingestion` for memory (`Node!...`) and adds upstream's chain, the
tables and a program counter: one action per store call, in the code's order, so
that `Crash` can come between any two. Upstream is external: `ChainChanged` replaces
a suffix of its chain and tells the node, `ChainChangedUnseen` does so while the
node is down, `Announce` sends a BlockAdded ahead. The mapping is a fold, a hash
the sequence of everything hashed.

**`SelectedChainIndex`** is the abstract promise `Indexer` implements: the recorded
blocks are a pile that grows at its top, one complete block after the other with a
checkpoint hashed onto the one below, and loses a part of the top in one step. The
mapping takes `recorded` for `index` and `checkpoints` for `poi`.

**`Pipeline`** is the inside of one committed block that `Indexer` abstracts: from the
scripts of its outputs (`Detectors`) through hits, tracker, entity snapshot, handler
dispatch, spends and their operations (`Kcc20`) to the POI input. A mapping is a
list of data sources and handlers that are programs of host calls; `Instantiate`
gives every event a guest of its own, `HostCall` is one call on its fuel, and
`LockedDispatched` and `SpendDispatched` are what the host makes of its end. `Unwind`
takes blocks back, and a subscriber of the stream hub follows with `Receive`.

**`Detectors`** has matching, extraction, validation and derivation of fingerprints
over sequences of bytes, **`Patterns`** the windows of all registered patterns (the
bytes of the patterns are left out), **`Kcc20`** the operation inference.

**`Lineage`** is `classify_lineage`, `persist_lineage` and
`unwind_covenant_lineage` for several subgraphs. A chain change fills `work` with
what the runtimes do for it one after the other; `Unwind` and `Record` each do one
piece. `Deploy`, `Undeploy` and `Restart` change the runtime set between
notifications. `Inputs` has the covenant outputs that the transaction of an output
spends, in the order of its inputs; `ParentOf` is the first of them that the subgraph
tracks. `disturbed` remembers that a runtime was removed, the node restarted, or a late
subgraph met a merge. `LineageAssumption` has the facts of a UTXO chain: scores rise, two
chains agree up to any block they share, a chain brings an output once and
after those it consumes. It also takes the consumed outputs to be brought by
blocks of the same chain: the node reads the transactions of chain blocks only, so a
covenant opened in a block that is merged into the chain but not on it is out of its sight,
and is not among the `Inputs` of an output that continues it. That this is the same on
every branch is an assumption: with two branches of which one brings the consumed output,
`TrackersFollowChain` would not even say which covenant is meant.

**`Inscriptions`** has the pure part of the legacy tokens: what is an inscription, both
ledgers' operations with u64 amounts (`MaxU64`), and the journal's columns and how an
inscription is rebuilt from them. **`LegacyJournal`** applies inscriptions as they
arrive, records the accepted ones with `MAX(seq) + 1`, unwinds rows by score and
replays what is left in the order the store fetches it. Nothing in the node calls
this code at this commit; the module calls it in the order the store's comments and
tests do.

### Serving

**`PgListen`** is the API's listener client and the bus behind it. A step is what
JavaScript runs between two awaits: a client goes through `Connected`, `Heard`
(Postgres executes LISTEN), `Listening`, and, once `Close` has let go of it,
`Unlistened` and `Ended`, while subscribers `Subscribe`, `Pull`, `Leave` (return() up to its
await) and `Finish` (the check for the last one). `conns` keeps every client made, for
an old one may still be closing when the next connects; `wire` is what Postgres has
sent to it. It shares no state with the other modules but the inserted rows.

The `MC...` modules give the constants values and evaluate pure operators
over bounded inputs: `MCPipeline` checks that all registered patterns are laid out
soundly and that derived fingerprints match their samples over all pairs of
short scripts, `MCEndpoints` that no spelling of a notification is taken for the
answer to a subscription.

How they compose: `Indexer` and `Feed` contain `Ingestion` by `INSTANCE`, so the
module the proofs are about is the very one they run; `Indexer` maps to
`SelectedChainIndex`; `Pipeline` extends `Detectors` and `Kcc20`, `Endpoints` extends
`Envelopes`, `LegacyJournal` extends `Inscriptions`.

## 3. What is checked

| Run | What it shows | Bounds, and why they are enough |
|---|---|---|
| `ingestion` | Under **any** order of **any** notifications the maps stay consistent, promotion takes a prefix of final blocks, and the transition tells every change of the committed map. | Five blocks, two at one score and one at score 0 (the edge of `highest_finalized_daa`), depth 2, added lists of two blocks in any order, any removed set. No counter: the state space is exhausted. |
| `indexer_reorg` | Without crashes and side blocks, and whatever depth the reorganizations have, memory follows the chain, the store follows memory, the stored entities and POIs are those of a fresh ingest of the committed prefix, every deep block is checkpointed, and `Indexer` implements `SelectedChainIndex`. | Six blocks, two each at scores 1 and 2, depth 2 so that promotions come in batches, five chain changes or announcements: enough to commit, drop a committed block, replace it at the same score, and commit again. |
| `indexer_restart` | With crashes between any two store calls, as long as upstream drops no final block, the POI chain verifies, no row is orphaned, checkpoints never change. | As above, no depth but upstream's final flags; four changes and two restarts, so a restart can meet what an earlier one left. |
| `feed` | Through lost connections and messages, gap check and refetch bring the node back to the chain, if no dropped block was hidden from it; a reported gap holds nothing the node knows, and a block to recover from is always there; both tasks end together, if no connection attempt stays pending. | A chain of five blocks with a jump in the scores, a branch of three; capacity 1 (the sender blocks), one retry, four changes, three lost connections. |
| `lineage` | Through reorganizations that move, fork and merge covenants, and late deployments, heads stand on gapless rows, rows are the outputs on the chain, trackers and edges agree, a merge continues the covenant its first input spends, and no insert meets a taken key. | Three subgraphs, one of them deployed late; a covenant that forks, its transaction in rival blocks of different scores; a second covenant that a transaction, again in two rival blocks, merges with the first; six changes, two changes of the runtime set. The properties are claimed until the runs are `disturbed`, see below. |
| `pg_listen` | In whatever order subscribers come and go while the client connects, listens or closes, each gets every event at most once and in order, misses none from the moment Postgres listens for it, and gets a listener in the end; the client goes with the last of them. | Two subscribers, one with a filter, that may come back any number of times; three events; two clients, so that one can close while the other connects. |
| `legacy` | Whatever inscriptions arrive, are rejected, redelivered, dropped by reorganizations or lost in a crash, both ledgers are those of a replay of the chain from genesis; journaled operations replay as accepted, holders own what is minted. | One tick of both standards, a cap of 3 that equals the largest u64, so that sums reach both edges; ten transactions, five on the chain at a time (`MaxLength`), two scores, one reorganization or crash (`MaxTurns`). |
| `pipeline` | Whatever was indexed and unwound before, entities, tracker, spend rows and POI inputs are those of one pass over the chain; operations follow the supply; handlers that fail leave nothing, and those that do not return stall nothing; a slow subscriber is told what it misses. | A token with a minter branch and a vault: an issue, a transfer, a mint, a burn, a transaction that mixes both; blocks with several hits and spends in an order that is not that of the hashes; four mappings (none, one that folds, one that traps and loops, one with two data sources and a handler that is missing); fuel 3; three blocks on the chain, one reorganization; a ring of two events, the subscriber comes before the second. |
| `endpoints` | While endpoints fail and recover, and requests of three tasks interleave, a request fails only if no endpoint could serve it all along, each block served is in rows and log once and in order, and health follows the endpoints. | A primary that lags, two backups (so the walk wraps), one of them not capable; two requests besides the first, so that one starts at another backup than its predecessor; one change of an endpoint; one block fetched twice. |

Deadlock checking is off in every run: upstream may stop sending, and the bounds
run out.

### Where the code does not do what it says

Three runs end in a counterexample to something a document or comment states
(`findings` in `PROJECT.json` quotes the lines).

| Run | Statement | What happens |
|---|---|---|
| `side_block` | BlockAdded alone commits nothing | A block that is only announced is buffered, and committed when the chain has grown past it. |
| `torn_unwind` | an unwind is one transaction | A crash after its first call leaves entity versions and rows of blocks no longer recorded; no later unwind finds them. |
| `hidden_reorg` | a gap can hide removes, which are found and unwound | The gap check compares scores only; a branch change that ends at a known score goes unnoticed, a longer one leaves the dropped blocks below the gap. |

More disagreements met while modelling. The models do in each case what the code
does; no run is spent on them.

Persistence:

* A restart does not fetch what was buffered, or what came while the node was down
  (main.rs 1413; the comment at 1405 says ingestion "resumes, not restarts"). The POI
  chain verifies across the hole.
* A checkpoint hashes the records of the locked handlers only: entity versions
  written for spends are left out (main.rs 1227; the comment at 1276 says it commits
  to "the real indexed state"). `EntitiesFollowChain` states what is hashed.
* Without a mapping the POI input includes `served_by` and the final flag, which the
  chain does not determine, against the comment at main.rs 2206 ("same chain → same POI hash").
* All handlers of a block read the same snapshot, so of two records for one
  entity the later wins, and the POI has both: mapping_host.rs 88 ("insertion
  order is irrelevant") does not hold there. Spends are dispatched in the order of
  transaction hashes, not of the block.
* `unwind_covenant_lineage` re-points only heads of the unwinding subgraph, from
  rows it recorded itself (store 1149; `BLOCKDAG_REORG_SEMANTICS.md` 45 asks for the
  surviving row of highest number). With the owner of a head gone the head stays
  above the rows. With `InsertsFindFreeKeys` stated without `~disturbed`, TLC
  goes on to a collision: subgraph `sb` opens a covenant, `sa` is deployed later;
  after a restart `sa` runs first and records the rows under `sb`'s head. A
  reorganization re-points that head below rows of `sa`, and the next insert takes a
  number in use, which ends the node.
* A subgraph deployed late does not track the outputs opened before it, so it files
  their successors as covenants of their own. `TrackersFollowChain` therefore
  speaks of the subgraphs the node started with.
* A late subgraph may name a transaction that spends outputs of two covenants after the
  second, where the others name it after the first. When a reorganization drops that
  transaction, an earlier runtime takes the head of the second covenant back to its own last
  row before the late one has unwound its own, and gives out the number of that row again,
  against "the next sequence number is the count of states already recorded" (main.rs 1731):
  the insert fails and ends the node. `disturbed` is therefore set when a subgraph deployed
  late meets a merge (`Merges`).

Delivery and detection:

* `run_continuous_subscription` is documented to exit when its receiver is dropped (rpc 467).
  Connecting and subscribing are awaited without a timeout and without a look at the receiver
  (rpc 976-983), so with a server that takes the connection and says nothing the driver stays,
  and so does `driver_handle.await` (main.rs 762): the node hangs in its shutdown. In `Feed`
  the driver then stays at `connecting`; `BothTasksEnd` without its assumption is false.
* A KCC-20 operation is inferred from tracked receipts only, and a transaction that
  also consumes another covenant has none: its spends are recorded, never dispatched.
* `StreamFilter::CovenantId` matches no hit: hits are published before a covenant is
  assigned (stream 27, main.rs 1762). Filters by address and ticker read keys that
  are nested in `detector_payload`. After a lag the stream goes on from the oldest
  event kept, not "from the current head". Events of blocks unwound later are not retracted.
* A last GraphQL subscriber that leaves while the listener is still connecting finds
  no client to close, so the client outlives it (`abandoned` in `ListenerIsReleased`).
  A failed connect is rethrown into a promise nobody awaits (pg-listen.ts 87, 152),
  which ends a Node.js process; a connection that fails during UNLISTEN is an
  unhandled error event; one that fails while listening is logged and never replaced.

Requests:

* A health probe counts any JSON answer, an error too, while a fetch of a block the
  endpoint does not have marks it as unhealthy.
* Audit records taken from the log are lost when an insert fails, those in the log
  when the loop leaves. A recovery without an anchor skips the draining and the
  check of the message limit (`continue`, main.rs 705). Blocks fetched before one that
  fails in the same batch are audited though never indexed.
* The capability check may be answered by another endpoint than the one whose
  stream is subscribed to.
* `read_notifications_ws` with `max_messages` 0 reads to the end and then drops
  everything (rpc 1119).

Legacy tokens:

* Zero-amount operations leave balances of 0, which krc20_ledger.rs 39 says are pruned.
* A rejected inscription leaves no row, so a second delivery is tried again, out
  of its order, and may then be accepted. The model leaves such deliveries out
  (`RedeliverRejected`).

### Assumptions

* Notifications are handled one at a time and in order (the loop owns the state;
  `main.rs` 640-755). `apply_notification` does not await.
* A store call either happens as a whole or not at all: each is one statement or
  one transaction in the store.
* `Indexer` without `SideBlocks`: what upstream announces ahead is what its next
  chain change accepts, and is not flagged final before. Without `DeepReorgs`: no
  block the node may regard as final is dropped. Both are switched on where a run
  asks what happens otherwise.
* `Feed` without `HiddenReorgs`: blocks are dropped only while the connection is up,
  and a message that drops blocks is not lost. Upstream never flags a block final
  there, as the live node does not. The DAA score of a chain block is above that of its selected
  parent (`FeedAssumption`), which the driver's test for fresh scores relies on (rpc 1016-1050).
* `Pipeline`: a transaction is in one block of the chain, and its inputs are outputs
  of transactions; which mapping is loaded does not change while it runs.
* `LegacyJournal`: transactions come in score order, one at a time; an inscription that
  was rejected does not come again. A crash between the ledger and the journal loses the
  transaction: `Restart` takes it off the chain the ledgers are compared with, since nothing
  in the code says who would deliver it again. That the two agree is therefore claimed of what
  was journaled, not of a transaction lost so.
* `Endpoints`: a request times out if it is not answered.
* `PgListen`: Postgres delivers in order to each connection that listens, the executor
  asks for one event at a time, and errors no code handles end the process.

### Fairness

`Indexer`: weak fairness of `NodeStep`, the handler's own steps: it runs to its end
unless the process stops. Nothing is assumed of upstream or of crashes;
`DeepBlocksAreCheckpointed` therefore speaks only of a block whose successor has
already come.

`Feed`: weak fairness of `DriverStep` and of `LoopStep`. They are two tokio tasks, each
scheduled when it can run; reading and sending race with `sender.closed()`, and RPC
calls have timeouts (a recovery that fails is the alternative `GiveUpRecovery` of the
same step). `Connect` and `AttemptFails` are not part of `DriverStep`: nothing in the code
makes a connection attempt end, so `BothTasksEnd` speaks of behaviours in which none stays
pending for ever; without that condition TLC finds the hang described above.
Disconnections, failures and shutdown are not fair.

`Pipeline`: weak fairness of `Step`, the node's task within a block, host calls
included. A guest that loops takes a host call per unit of fuel, so `EveryBlockEnds`
rests on the fuel and not on the guest. Commits, reorganizations and subscribers are
not fair.

`Endpoints`: weak fairness of the steps of each request, which end by an answer or a
timeout, and of the probe loop, a task of its own. Draining, messages and the
endpoints' changes are not fair. `HealthFollowsEndpoints` says of an endpoint that
stays up only that it is taken for up again and again, because every failed
fetch marks it as unhealthy until the next probe.

`PgListen`: weak fairness of `ConnectStep`: an attempt to connect succeeds or fails in
the end. This is an assumption about Postgres and the network, not about the code: the `pg`
client is made without a connect timeout (pg-listen.ts 144-152), so an attempt that is never
answered keeps every subscriber waiting. Nothing is assumed of subscribers, of the closing of an old client or of
Postgres.

`Ingestion`, `Lineage` and `LegacyJournal` have only safety properties and state none.

## 4. What is proved

Each proof module extends the module it is about and uses only that module's named
assumptions on the constants. A leaf that needs more than a second or two names the
prover that closes it and gives it time to spare (`SMTT(30)`, `ZenonT(60)`), so that
the proofs also check on a busy machine.

**`IngestionProofs`** proves the six properties of run `ingestion` for every set of
blocks, every assignment of scores, every finality depth and every set of added
lists, from `IngestionAssumption` alone (scores and depth are naturals, the added
lists are finite sequences).

The inductive invariant is `IInv == TypeOK /\ OneBlockPerScore /\ NothingFinalizedWaits`.
No part of it is inductive alone, and the action properties need all of it:

* `OneBlockPerScore` after a promotion needs that what is promoted meets no committed
  block at its score. `Taken` guarantees that for the incoming block; for blocks
  buffered earlier it is the invariant itself (`BufferedUnique`).
* `NothingFinalizedWaits` holds because `Promotable` takes everything at or below the
  highest flag, the flagged blocks included. `CommitsOnlyFinal` needs it of
  the *previous* state: no flag left over from an earlier block may commit anything now.
* `TransitionTellsAll` needs `OneBlockPerScore`: were promotion to overwrite a
  committed block (`PutAdds` fails), that block would leave the map without being
  reported as unwound, and the store would keep it.
* `PromotionTakesPrefix` is order reasoning over `Promotable` (`PromoteFacts`), with
  scores in the naturals by the type invariant and `IngestionAssumption`.

`Invariance` is `Spec => []IInv`, proved with one step per action; each property
follows from it, the action properties with one step of `Next`.

**`EndpointProofs`** proves both safety properties of run `endpoints` for any backups,
blocks and number of requests, from `EndpointsAssumption`.

* `RequestsFindAServer`. `WalkCovers` is the arithmetic: from any start, `Len(Backups)`
  steps modulo that length reach every backup, so `FailoverChain` has every endpoint
  (`ChainFacts`). The invariant `RInv` says of a request under way that its chain covers
  all endpoints and that those before its position, or at it once it has refused,
  are not among the `steady` ones, which do serve. When the chain is exhausted
  nothing steady is left. A `Flip` takes its endpoint out of every `steady`.
* `AuditIsComplete`. `AInv` adds that taken records exist only while draining, and that a
  bootstrap run has no request left when it drains and serves nothing afterwards.
  Then each step moves a record across one of the two borders in
  `rows \o draining \o audit_log`, or appends one to the log and to `served`.

**`LegacyProofs`** is about the ledgers and the journal for any ticks, addresses,
amounts and caps, from `InscriptionsAssumption` and `LegacyJournalAssumption`.

* `RowsRebuild`: the columns of every operation rebuild into that operation.
* `CapsHold`: `LInv` keeps `minted <= max`, collection ids below their size and owners only
  of minted items, through unwinds and replays, where every row goes through
  the same operations again.
* `OneReplayOrder`: numbers of a tick differ, because `MAX(seq) + 1` is taken over a
  journal whose numbers are bounded (`NextSeqFacts`), and an unwind only removes rows;
  so at most one row is the next to be replayed.
* `BurnedItemsStay` (no run checks it) is `BurnedStaysBurned` from `CapsHold`'s invariant, one step of `Next`.
* `SupplyIsAlwaysHeld`: the sum of balances is a fold over a set of addresses whose
  order is a `CHOOSE`, so the work is to show that it is a sum. For finite sets the
  fold's recursion has a solution (`AdditionExists`), any two solutions agree whatever
  elements they pick (`AnyOrder`), and the total splits at any element (`TotalSplits`):
  then a credit adds its amount and a debit takes it away (`CreditAdds`,
  `DebitSubtracts`), and every operation keeps `Held`. The set of addresses may be infinite;
  that a tick has finitely many holders is part of `Held`.
* `LegacyTypes`: a balance is at most the supply, the supply at most the cap, the cap
  below 2^64; the additions the code does unchecked do not wrap.
* `LedgersFollowTheChain` and `ReplayAlwaysAccepts`: the ledgers are those of the inscriptions
  on the chain, and a replay accepts every row it reads back. Both assume `~RedeliverRejected`;
  without it they are false, because nothing remembers a rejected inscription: a mint comes
  before its deploy and is rejected, comes again after it and is accepted, out of the order of the chain.
  `ChainLedgerInv` says for each tick which beginning of the chain its ledger has
  been through: all of it, or during a rebuild what stands before the next
  row to replay. `HistoryExists` and `OneHistory` make the ledger after a beginning of the chain a value
  (the recursion has exactly one solution); `NothingBetween` is why a replay may skip what
  left no row: an inscription that was rejected changes nothing.

**`IndexerProofs`** is about `Indexer` for any blocks, scores, finality depth, chain
extensions and any number of reorganizations and crashes, from `IndexerAssumption`
and hypotheses each theorem states:

* `~SideBlocks`: upstream announces no block that its next chain change does not accept.
  Run `side_block` shows that the conclusions are false without it.
* `MaxRestarts = 0 \/ RespectsFinality` (with the former, `Orderly`): if the node may
  crash, upstream drops no block the node may regard as final, and no block
  has score 0, which the code takes for final whatever the depth (`Promotable`, the default of
  `highest_finalized_daa`); only genesis has it. Run `torn_unwind` shows
  that rows are orphaned otherwise.
* `MaxRestarts = 0` where the conclusion speaks of what a crash loses (whatever was
  buffered, see section 3).

The inductive invariant `IInv` says that all the node holds stands in one ascending line
of blocks, the selected chain with the announced block on top: what the store keeps
(`PileInv`), what waits to be written (`QueueInv`), what is only probabilistic (`MapInv`), what
the notification still brings (`PendingInv`). Each part needs the next: a promotion takes
a prefix of the probabilistic blocks because they are above the committed ones; an
unwind, by hash for blocks and by score for rows, removes the same blocks because what
is kept is below; and a POI checkpoint continues from the last one because both the
queue and the pile are ascending (`PoiInv`). `FinalInv` is what finality adds.

* `PoiChainAlwaysVerifies`, `IndexAlwaysFollowsSelectedChain`, `CommittedWasAlwaysAccepted`
  read off the invariant; `CheckpointsStayStable` is one step of it.
* `IndexImplementsPile` is the refinement: initial states map to initial states, and
  each step to a step of `SelectedChainIndex` or a stutter: recording a block begins it,
  its checkpoint publishes it, the first unwind call takes the top away.
* `TablesFollowRecorded` says for each program counter what each table holds: the rows of
  the recorded blocks, with those it has yet to lose and without the one it has yet to get
  (`Covered`). At rest that is `StoreAlwaysMatchesMemory`.
* `RowsAlwaysBelongToCommittedBlocks` is the part that survives crashes: the next call may never come, but
  no table is ever ahead of `kasgraph_committed_block`.
* `AlwaysReplaySafe`: at rest the entity versions and checkpoints are those of a fresh ingest
  of the selected chain, whatever was recorded and unwound before. It assumes no side
  blocks and no crash, for after a crash the next chain change is against a chain
  the node has not followed. The blocks kept are a beginning of the chain
  (`KeptIsFirst`), and versions and checkpoints are functions of that beginning alone
  (`ReplayDependsOnPrefix`): the recursion that defines them looks no further than
  the block it is at, so that an unwind of rows by score leaves exactly the value
  for the shorter beginning. `ReplayInv` (theorem `StoreFollowsReplay`) says this for every
  program counter, with the block that is half-way through its writes apart.

**`FeedProofs`** proves `GapHoldsNothingKnown` for any tree of blocks, scores, channel capacity,
retries and disconnections, `HiddenReorgs` included, from `FeedAssumption`, and `Converges` under
the hypothesis `HiddenReorgs = FALSE`, which run `hidden_reorg` shows to be needed. The first is a claim
about two tasks at different times: the driver computes the gap from the last score it
emitted, the loop rolls the range back when it takes the gap from the channel. The
invariant `GapsInv` is about the queue between them: everything known, waiting to be
applied, or about to be refetched lies at or below `last`, and in outbox and channel a
gap lies above all that stands in front of it and all the node knows. `NodeTakes` is the
step in which a message leaves the channel for the node; `RecoverStep` needs that the
refetched blocks lie in the gap that was asked for (`AmongIs`).

`NodeConverges` looks at everything between upstream and the maps as one queue, the channel, the
outbox and the wire, from the point of view of one block. A message brings a block, removes it, or
leaves it where it is (`Through`: all it brings stands above the block); how two queues behind
one another act follows from how each does (`QueueConcat`). The inductive invariant `ConvergeInv` has these parts:

* `StaleInv`: whatever upstream has dropped, if the node knows it, a queued message removes it, and
  whatever queued message brings it, a later one removes it. So nothing else is kept at rest.
* `FollowInv`: of each block selected above `base`, the last queued message
  about it brings it, or the node keeps it or is about to apply or refetch it and nothing queued
  disturbs it, or it is `Overdue`: above all that was emitted, with the check for a gap still to
  come. At rest only "the node keeps it" is left.
* The second half of `Follows` is what survives a lost wire: once no message there removes a block, what was emitted
  is by itself enough for every block up to `last_emitted_daa`. The blocks above it are the ones the
  check finds missing.
* `WireInv` is why the check misses none: an announced block lies above what comes before
  it, and what comes after it at a lower score was announced earlier; a change parts the scores before and behind it. That
  holds because scores rise along a chain and each change is to a heavier tip (`WireAnnounced`).
* `NodeInv`: the node keeps one block of a score, and a gap that is waited for lies above all it keeps, so that the
  anchor of its recovery is the highest kept block and the refetched chain continues it
  (`RecoverArrives`). Replacing a block of the same score loses nothing: `ApplyArrives`
  finds the kept one either dropped upstream, with its removal still queued, or on the chain and the same.

**`PgListenProofs`** proves the three safety properties of run `pg_listen` for any number of
subscribers, events, clients and failures, from `PgListenAssumption`. Several clients may
be about at once, so the invariant says which of them counts: at most one is between
`connect()` and UNLISTEN and `connectPromise` tells whether there is one (`ClientInv`); its wire
holds just the last events inserted (`ConnInv`); what a subscriber has got is older
than all of those (`OrderInv`), so that the next to arrive is new to everybody, and what it has not got
is still on that wire (`MissInv`). `ReleaseInv` pairs `connectPromise` with somebody who is there.

**`PipelineProofs`** proves `NoSilentLoss` for any ring, filters and events. The invariant counts the positions
asked for between the subscription and its cursor: a receive moves the cursor
by one and gets what it passes, a lag moves it by what it reports (`AskedGrows`, `NextAsked`).

*The tables*, in the same module, for any transactions, patterns, mappings, fuel and number of
reorganizations, from `PipelineAssumption`. The lists the code walks are flattened
lists of lists; `FlatMember`, `FlatNext` and the lemmas on `Joined` say what is in them and what one
step of a loop adds.

* `PipelineTypes`: `TypeInv` ties the place of the loop to the block it is in, and a running guest
  to the program it was instantiated from.
* `SpendsAlwaysFollowChain`: `FollowInv` holds within a block too. `Handled(d)` is what the loop
  has tracked so far, all hits of the blocks below; `UtxoInv` says the tracker holds just
  that, `SpendInv` the same of the spend rows. A covenant's name is looked up in the tracker as it was when
  the output was met; it stays right because what a transaction of the chain spends lies in an
  earlier block (`Elsewhere`), so that later rows, and the unwind of later rows, change no answer.
  One row stands for all hits in one output, so the payload it holds is right only if there is one
  hit: hypothesis `OneKind`, no two registered patterns match one output, which
  `MCPipeline` evaluates for its registry. All else is proved without it.
* `EntitiesAlwaysFollowChain` needs no such hypothesis. `EntitiesInv` says of each block done that
  the versions up to it are what the block makes of the versions up to the one before
  (`HistoryInv`; `Until(table, d)` is that prefix, which an unwind cuts exactly), and of the block in work how far
  the handlers have come (`Present`). `GuestRuns` follows the guest call by call and meets
  `OpsOf`, the description of what a program writes before it returns, traps or is out of fuel, in
  `Progress`. That the records of a block do not depend on rows the tracker got
  later is `Agree`. `VersionsAfter`, the run over the chain the property compares with, is a
  recursive function: that its recursion has a solution is shown by the least counterexample.
* `OperationAlwaysFollowsSupply` compares two sums, one over the rows the spend path reads, one over the
  hits on the chain. `RowsFollowScripts` matches each row with the one hit it stands for (`UtxoInv`,
  `OneKind` again), and `SumReindex` says that terms that match have equal sums. The library's
  sum adds in an order `CHOOSE` fixes; `TotalRemove` shows, by the smallest set that would tell,
  that no order matters. Amounts are numbers (`AmountIs`) because extraction stays within the script.

**Fingerprints**, also in `PipelineProofs`, are for every script, with no assumption: one derived from
samples matches all of them (`DerivedMatchesItsSamples`), its head is the longest they
share (`DerivedHeadIsLongest`), by the least-number argument about the first byte
that differs (`LeastNatural`), extraction stays within the script
(`ExtractionIsInBounds`), and what an exact pattern's windows cover does not decide a
match (`WindowsDoNotDecide`).

**`LineageProofs`** proves the five properties of run `lineage` for any number of subgraphs,
chains, scores and covenants, and however late a subgraph is deployed, from `LineageAssumption`. They
are claimed until the run is `disturbed`, and so is the inductive invariant: `LineageInv ==
~disturbed => LInv`. Section 3 says what goes wrong after that. `RecordParent` is where
merges come in: a runtime that tracks any of the outputs a transaction consumes tracks the
first, for there is no other, or all runtimes were there from the start and know the whole chain.

Several runtimes are half-way through one notification, so `LInv` is about what each has
still to do: `Cuts`, the scores it has yet to unwind from; `Ahead`, the outputs it has yet to
record; `Lasting`, what it tracks and will not unwind. `WorkInv` orders the list: runtime by
runtime, unwinds before records, parents before their successors. `TrackInv` says that
`Lasting` and `Ahead` are together what the runtime's committed blocks hold.

The hard part is the shared tables. A runtime deletes its own rows only, and counts on from
whatever head it finds. That leaves no gap because all rows of a covenant are of one
subgraph, the head's (`RowInv`): the first in fan-out order that tracks the covenant's outputs
(`OwnInv`), which therefore unwinds and records them before anybody else gets to them. A late
subgraph may open covenants under names of its own. It keeps them: an earlier
runtime knows the output such a covenant's first one consumed, and never files that
one as a genesis (`StrandInv`, `RecordOwner`). `AgreeInv` says how the names of two runtimes
relate, `EdgeInv` that parents come first.

* `UnwindStep`, `RecordStep`, `ChainStep` and `DeployStep` are the actions, on lemmas about what each does to the parts of `LInv`.
* A chain change fills `work` by flattening a list of lists. `FlattenSeq` is a recursive
  function in the library; `Flattened` shows where the elements of a flattened list come from and in which order,
  by the least counterexample, since there is no induction rule to cite.
* `SharedPrefix` and `ChangedBlocks`: what a chain change adds lies above all it keeps, so `Min` of the dropped
  scores cuts exactly between them.

### What stays with TLC

* Liveness (`DeepBlocksAreCheckpointed`, `BothTasksEnd`, `SubscriberIsServed`, `EveryBlockEnds`,
  `HealthFollowsEndpoints`): out of the prover's reach, as is `ENABLED`.
* That `Classify` tells a rotation of the controller from a transfer, and what `LittleEndian` reads, beyond
  that it is a number: runs evaluate them.
* `GapsHaveAnchor`: run `feed` checks it.

## 5. What is not modelled

* In `Indexer`: the append-only reorg audit rows; the RPC audit row written before each block
  (`insert_rpc_block_audit`, main.rs 953), one more call a crash may follow, whose table no
  property is about; several hits or spends in one block (`Pipeline` has them, without crashes).
* In `Feed`: delays, the message limit as a count, what a recovery from the configured list of
  hashes would bring into the maps (its requests are in `Endpoints`); endpoint failover is in
  `Endpoints`.
* In `Endpoints`: the framing of HTTP and websocket, decoding of blocks, the JSONL
  stream, environment parsing.
* In `Pipeline`: materializing and loading a module, the byte ABI, stream filters by
  address and ticker.
* In `LegacyJournal`: the `subgraph` column. There is one subgraph, for which the store's
  unwind and fetch (store 1683, 1688, which filter by it) and its existence check, `MAX(seq)`
  and `ON CONFLICT (tx_hash)` (which do not) speak of the same rows. With a second one
  they would not: it passes over, as already recorded, every operation the first one has
  journaled, so that a ledger rebuilt from its own rows lacks them.
* In `Patterns`: the fixed bytes of the patterns, only their lengths and windows.
* In `Lineage`: a crash between head and row, successors recorded for spends,
  queries. No module has two runtimes with all their tables, or a mapping that is
  replaced while it runs.
* In `PgListen`: payload checks, `throw()`, what the supervisor does after a crash.
* The components marked "no" in section 1: read-only queries, generators of files,
  requests without state, or content. `kasgraph-rpc/examples` are smoke tests against a
  live node.

## 6. Plan

1. `Ingestion`, its run and proofs. *Done.*
2. `Indexer` over it: reorganizations, crashes, POI. *Done, safety proved.* The promise `SelectedChainIndex` and that `Indexer` implements it. *Proved.*
3. `Feed`: both tasks, gaps. *Done, gaps and that the node converges proved.* `Endpoints`, `Envelopes`: failover, health, audit,
   bootstrap. *Done, safety proved.*
4. `Lineage`: shared tables, several subgraphs. *Done, without torn writes; all properties proved.*
5. `Pipeline`, `Detectors`, `Patterns`, `Kcc20`: from scripts to rows, mappings, the stream
   hub. *Done; all safety properties proved.*
6. `Inscriptions`, `LegacyJournal`: the legacy ledgers and their journal. *Done; caps, supply,
   numbering, burns and that replays follow the chain proved.*
7. `PgListen`: the API's listener against subscribers that come and go. *Done, safety proved.*
8. Every safety property a passing run checks is a theorem but `GapsHaveAnchor`, which is left to
   prove; liveness stays with the runs.
9. Left: a second subgraph in `LegacyJournal`.
