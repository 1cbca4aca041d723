------------------------------ MODULE Endpoints ------------------------------
(* The RPC client of kasgraph-node (kasgraph-rpc): one primary endpoint and  *)
(* its backups, asked one after the other until one answers; the health      *)
(* table that requests and a probe loop write; the audit log of the blocks   *)
(* served, which the ingestion loop drains into the store; and the two modes *)
(* of the node that issue the requests.  The requests of the ingestion loop, *)
(* of the subscription driver and of the probe loop interleave: they share   *)
(* the health table, the audit log and the rotation of the backups.          *)
EXTENDS Integers, Sequences, FiniteSets, Functions, Envelopes

CONSTANTS
    Primary,     \* the primary endpoint
    Backups,     \* the backups, a sequence
    Hash,        \* the hashes of blocks
    Holds,       \* per endpoint the blocks it can serve
    Delta,       \* per endpoint the chain it reports after the anchor
    Capable,     \* the endpoints that speak the subscription protocol
    Configured,  \* block hashes in the configuration
    Messages,    \* messages the notification stream may bring
    MaxRequests, \* bound: requests of the loop and the driver
    MaxFlips     \* bound: changes of an endpoint

Endpoint == {Primary} \cup Range(Backups)
Callers == {"loop", "driver"}
Status == {"up", "erring", "down"}

ASSUME EndpointsAssumption ==
    /\ Backups \in Seq(Range(Backups))
    /\ Holds \in [Endpoint -> SUBSET Hash]
    /\ Delta \in [Endpoint -> Seq(Hash)]
    /\ Capable \subseteq Endpoint
    /\ Configured \in Seq(Hash)
    /\ \A m \in Messages : Parsed(m).is = "hashes" => Parsed(m).added \in Seq(Hash)
    /\ MaxRequests \in Nat /\ MaxFlips \in Nat

VARIABLES
    mode,              \* KASGRAPH_INGEST_MODE
    phase,             \* of the node
    status,            \* external: how each endpoint behaves
    health,            \* what the client believes of it
    next_backup_index,
    calls,             \* per caller its request
    probe,             \* the probe loop: the endpoint it is at, and the answer
    audit_log,
    draining,          \* records taken from the log and not yet stored
    rows,              \* rows of kasgraph_rpc_block_audit, in order of insertion
    served,            \* history: every block an endpoint served, in order
    requests, flips    \* bounded counters

client == <<health, next_backup_index, calls, probe>>
audit == <<audit_log, draining, rows, served>>
vars == <<mode, phase, status, client, audit, requests, flips>>

Idle == [pc |-> "idle"]
NotProbing == [at |-> 0, answer |-> "none"]

-------------------------------------------------------------------------------
(* The order in which endpoints are asked: the primary, then all backups from *)
(* a rotating start.                                                          *)

\* Mutant: the walk over the backups does not wrap around.
FailoverChainNoWrap(start) ==
    <<Primary>> \o IF Backups = <<>> THEN <<>>
                   ELSE SubSeq(Backups, (start % Len(Backups)) + 1, Len(Backups))

FailoverChain(start) ==
    <<Primary>> \o [i \in DOMAIN Backups |->
                        Backups[((start + i - 1) % Len(Backups)) + 1]]

AllEndpoints == <<Primary>> \o Backups

\* of the counter only the start of the walk matters
Rotated(n) == IF Backups = <<>> THEN 0 ELSE (n + 1) % Len(Backups)

Serves(e, goal, hashes) ==
    /\ status[e] = "up"
    /\ goal = "blocks" => Head(hashes) \in Holds[e]

\* steady: history, the endpoints that could serve since the request began
Asking(goal, hashes) ==
    [pc |-> "asking", goal |-> goal, chain |-> FailoverChain(next_backup_index),
     at |-> 1, hashes |-> hashes,
     steady |-> {e \in Endpoint : Serves(e, goal, hashes)}]

\* every request takes a number, one to fetch no block takes none
Begin(caller, goal, hashes) ==
    IF goal = "blocks" /\ hashes = <<>>
    THEN calls' = [calls EXCEPT ![caller] = [pc |-> "done"]] /\ UNCHANGED next_backup_index
    ELSE /\ calls' = [calls EXCEPT ![caller] = Asking(goal, hashes)]
         /\ next_backup_index' = Rotated(next_backup_index)

-------------------------------------------------------------------------------
Init ==
    /\ mode \in {"bootstrap", "continuous"}
    /\ phase = "start"
    /\ status \in [Endpoint -> Status]
    /\ health = [e \in Endpoint |-> TRUE]
    /\ next_backup_index = 0
    /\ calls = [c \in Callers |-> Idle]
    /\ probe = NotProbing
    /\ audit_log = <<>> /\ draining = <<>> /\ rows = <<>> /\ served = <<>>
    /\ requests = 0
    /\ flips = 0

\* The endpoint answers, or does not and the request times out.
Ask(c) ==
    /\ calls[c].pc = "asking"
    /\ LET call == calls[c]
       IN  calls' = [calls EXCEPT ![c].pc =
                        IF Serves(call.chain[call.at], call.goal, call.hashes) THEN "ok" ELSE "err"]
    /\ UNCHANGED <<mode, phase, status, health, next_backup_index, probe, audit, requests, flips>>

\* fetch_block: the block goes to the audit log, and the next one is asked for.
BlockServed(c, e) ==
    LET call == calls[c]
        record == [hash |-> Head(call.hashes), served_by |-> e]
    IN  /\ audit_log' = Append(audit_log, record)
        /\ served' = Append(served, record)
        /\ Begin(c, "blocks", Tail(call.hashes))

Answered(c) ==
    /\ calls[c].pc = "ok"
    /\ LET call == calls[c]
           e == call.chain[call.at]
       IN  /\ health' = [health EXCEPT ![e] = TRUE]
           /\ CASE call.goal = "capabilities" ->
                    /\ calls' = [calls EXCEPT ![c] = [pc |-> "done", endpoint |-> e]]
                    /\ UNCHANGED <<next_backup_index, audit_log, served>>
                [] call.goal = "range" ->
                    Begin(c, "blocks", Delta[e]) /\ UNCHANGED <<audit_log, served>>
                [] call.goal = "blocks" -> BlockServed(c, e)
    /\ UNCHANGED <<mode, phase, status, probe, draining, rows, requests, flips>>

\* The next one of the chain is asked; after the last one the request fails,
\* and with it the requests for the blocks that were to follow.
Refused(c) ==
    /\ calls[c].pc = "err"
    /\ LET call == calls[c]
       IN  /\ health' = [health EXCEPT ![call.chain[call.at]] = FALSE]
           /\ calls' = [calls EXCEPT ![c] =
                IF call.at < Len(call.chain)
                THEN [call EXCEPT !.pc = "asking", !.at = @ + 1]
                ELSE [call EXCEPT !.pc = "failed"]]
    /\ UNCHANGED <<mode, phase, status, next_backup_index, probe, audit, requests, flips>>

-------------------------------------------------------------------------------
(* The probe loop.  Any answer counts, an error as well.                     *)

Probe ==
    /\ probe.at # 0 /\ probe.answer = "none"
    /\ probe' = [probe EXCEPT !.answer =
                    IF status[AllEndpoints[probe.at]] = "down" THEN "failed" ELSE "healthy"]
    /\ UNCHANGED <<mode, phase, status, health, next_backup_index, calls, audit, requests, flips>>

\* Mutant: a probe only ever marks an endpoint as failed.
ProbeVerdictSticky(e, healthy) == health[e] /\ healthy

ProbeVerdict(e, healthy) == healthy

\* After the last endpoint the loop sleeps and starts again.
ProbeAnswered ==
    /\ probe.at # 0 /\ probe.answer # "none"
    /\ LET e == AllEndpoints[probe.at]
       IN  health' = [health EXCEPT ![e] = ProbeVerdict(e, probe.answer = "healthy")]
    /\ probe' = [at |-> (probe.at % Len(AllEndpoints)) + 1, answer |-> "none"]
    /\ UNCHANGED <<mode, phase, status, next_backup_index, calls, audit, requests, flips>>

-------------------------------------------------------------------------------
(* Draining the audit log.                                                   *)

\* Mutant: the log is read, not taken.
TakeLogCopy == draining' = audit_log /\ UNCHANGED audit_log

TakeLog == draining' = audit_log /\ audit_log' = <<>>

Drain(then) ==
    /\ TakeLog
    /\ phase' = then
    /\ UNCHANGED <<rows, served>>

StoreRecord ==
    /\ phase \in {"draining", "bootstrap_draining"} /\ draining # <<>>
    /\ rows' = Append(rows, Head(draining))
    /\ draining' = Tail(draining)
    /\ UNCHANGED <<mode, phase, status, client, audit_log, served, requests, flips>>

\* A failed insert ends the node; what was taken from the log is lost.
StoreFails ==
    /\ phase \in {"draining", "bootstrap_draining"} /\ draining # <<>>
    /\ phase' = "failed"
    /\ draining' = <<>>
    /\ probe' = NotProbing
    /\ calls' = [c \in Callers |-> Idle]
    /\ UNCHANGED <<mode, status, health, next_backup_index, audit_log, rows, served, requests, flips>>

Drained ==
    /\ phase \in {"draining", "bootstrap_draining"} /\ draining = <<>>
    /\ phase' = IF phase = "draining" THEN "running" ELSE "done"
    /\ UNCHANGED <<mode, status, client, audit, requests, flips>>

-------------------------------------------------------------------------------
(* Bootstrap: one batch of configured blocks, or a bounded read of the       *)
(* notification stream; then its audit is stored.                            *)

Finished(c) == calls[c].pc \in {"done", "failed"}

Bootstrap ==
    /\ mode = "bootstrap" /\ phase = "start"
    /\ Begin("loop", "blocks", Configured)
    /\ phase' = "fetching"
    /\ UNCHANGED <<mode, status, health, probe, audit, requests, flips>>

BootstrapFetched ==
    /\ phase = "fetching" /\ Finished("loop")
    /\ IF calls["loop"].pc = "done"
       THEN Drain("bootstrap_draining")
       ELSE phase' = "failed" /\ UNCHANGED audit
    /\ calls' = [calls EXCEPT !["loop"] = Idle]
    /\ UNCHANGED <<mode, status, health, next_backup_index, probe, requests, flips>>

BootstrapSubscribes ==
    /\ mode = "bootstrap" /\ phase = "start"
    /\ phase' = "reading"
    /\ UNCHANGED <<mode, status, client, audit, requests, flips>>

\* One message that cannot be used, or whose blocks cannot be fetched, fails
\* the whole read.
BootstrapReads(message) ==
    /\ phase = "reading" /\ calls["loop"] = Idle
    /\ requests < MaxRequests
    /\ CASE Parsed(message).is = "hashes" ->
                Begin("loop", "blocks", Parsed(message).added) /\ UNCHANGED phase
         [] Parsed(message).is \in {"malformed", "rejected"} ->
                phase' = "failed" /\ UNCHANGED <<calls, next_backup_index>>
         [] OTHER -> UNCHANGED <<phase, calls, next_backup_index>>
    /\ requests' = requests + 1
    /\ UNCHANGED <<mode, status, health, probe, audit, flips>>

BootstrapGoesOn ==
    /\ phase = "reading" /\ Finished("loop")
    /\ phase' = IF calls["loop"].pc = "done" THEN phase ELSE "failed"
    /\ calls' = [calls EXCEPT !["loop"] = Idle]
    /\ UNCHANGED <<mode, status, health, next_backup_index, probe, audit, requests, flips>>

\* Enough messages, the end of the stream, or nothing for the idle timeout.
BootstrapHasRead ==
    /\ phase = "reading" /\ calls["loop"] = Idle
    /\ Drain("bootstrap_draining")
    /\ UNCHANGED <<mode, status, client, requests, flips>>

-------------------------------------------------------------------------------
(* Continuous: the capabilities of an endpoint first, then the driver, the   *)
(* probe loop and the ingestion loop.                                        *)

ProbeCapabilities ==
    /\ mode = "continuous" /\ phase = "start"
    /\ Begin("loop", "capabilities", <<>>)
    /\ phase' = "preflight"
    /\ UNCHANGED <<mode, status, health, probe, audit, requests, flips>>

Preflight ==
    /\ phase = "preflight" /\ Finished("loop")
    /\ IF calls["loop"].pc = "done" /\ calls["loop"].endpoint \in Capable
       THEN phase' = "running" /\ probe' = [NotProbing EXCEPT !.at = 1]
       ELSE phase' = "failed" /\ UNCHANGED probe
    /\ calls' = [calls EXCEPT !["loop"] = Idle]
    /\ UNCHANGED <<mode, status, health, next_backup_index, audit, requests, flips>>

\* The driver reads a message; one that only names the added blocks makes it
\* fetch them.  How it goes on after an error is the subject of Feed.
DriverReads(message) ==
    /\ phase \in {"running", "draining"}
    /\ calls["driver"] = Idle
    /\ requests < MaxRequests
    /\ Parsed(message).is = "hashes"
    /\ Begin("driver", "blocks", Parsed(message).added)
    /\ requests' = requests + 1
    /\ UNCHANGED <<mode, phase, status, health, probe, audit, flips>>

DriverGoesOn ==
    /\ Finished("driver")
    /\ calls' = [calls EXCEPT !["driver"] = Idle]
    /\ UNCHANGED <<mode, phase, status, health, next_backup_index, probe, audit, requests, flips>>

\* A notification that asks for recovery: from an anchor, or by the
\* configured hashes if there is none.
LoopRecovers ==
    /\ phase = "running"
    /\ calls["loop"] = Idle
    /\ requests < MaxRequests
    /\ \/ Begin("loop", "range", <<>>)
       \/ Begin("loop", "blocks", Configured)
    /\ requests' = requests + 1
    /\ UNCHANGED <<mode, phase, status, health, probe, audit, flips>>

\* After a notification, recovered or not, the log is drained.
LoopDrains ==
    /\ phase = "running"
    /\ calls["loop"] = Idle \/ Finished("loop")
    /\ calls' = [calls EXCEPT !["loop"] = Idle]
    /\ Drain("draining")
    /\ UNCHANGED <<mode, status, health, next_backup_index, probe, requests, flips>>

\* Ctrl-C, or the end of the channel: the loop leaves without draining, waits
\* for the driver and stops the probes.
Shutdown ==
    /\ phase = "running" /\ calls["loop"] = Idle
    /\ phase' = "stopping"
    /\ UNCHANGED <<mode, status, client, audit, requests, flips>>

Stopped ==
    /\ phase = "stopping" /\ calls["driver"] = Idle
    /\ phase' = "done"
    /\ probe' = NotProbing
    /\ UNCHANGED <<mode, status, health, next_backup_index, calls, audit, requests, flips>>

-------------------------------------------------------------------------------
\* An endpoint goes down, comes back, or begins to answer with errors.
Flip(e) ==
    /\ flips < MaxFlips
    /\ \E s \in Status \ {status[e]} : status' = [status EXCEPT ![e] = s]
    /\ calls' = [c \in Callers |->
                    IF calls[c].pc \in {"asking", "ok", "err"}
                    THEN [calls[c] EXCEPT !.steady = @ \ {e}] ELSE calls[c]]
    /\ flips' = flips + 1
    /\ UNCHANGED <<mode, phase, health, next_backup_index, probe, audit, requests>>

CallStep(c) == Ask(c) \/ Answered(c) \/ Refused(c)

ProbeStep == Probe \/ ProbeAnswered

Next ==
    \/ \E c \in Callers : CallStep(c)
    \/ ProbeStep
    \/ StoreRecord \/ StoreFails \/ Drained
    \/ Bootstrap \/ BootstrapFetched
    \/ BootstrapSubscribes \/ BootstrapGoesOn \/ BootstrapHasRead
    \/ \E message \in Messages : BootstrapReads(message)
    \/ ProbeCapabilities \/ Preflight
    \/ \E message \in Messages : DriverReads(message)
    \/ DriverGoesOn
    \/ LoopRecovers \/ LoopDrains
    \/ Shutdown \/ Stopped
    \/ \E e \in Endpoint : Flip(e)

\* Requests end, by an answer or by their timeout, and the probe loop is a
\* task of its own.
Fairness == /\ \A c \in Callers : WF_vars(CallStep(c))
            /\ WF_vars(ProbeStep)

Spec == Init /\ [][Next]_vars /\ Fairness

-------------------------------------------------------------------------------
(* Properties.                                                               *)

\* A request fails only for want of an endpoint: if one of them could have
\* served it from its beginning to its end, primary or backup, wherever the
\* rotation started and whatever other requests did meanwhile, it is served.
FailoverFindsAServer ==
    \A c \in Callers : calls[c].pc = "failed" => calls[c].steady = {}

\* Provenance is neither lost nor doubled: as long as no insert has failed,
\* the stored rows, the records being stored and the log are together the
\* blocks that were served, in that order, whatever the driver fetches while
\* the loop drains.  A bootstrap run that ends well has stored them all.
AuditTellsWhatWasServed ==
    /\ phase # "failed" => rows \o draining \o audit_log = served
    /\ mode = "bootstrap" /\ phase = "done" => rows = served

Probing == probe.at # 0

\* Health follows the endpoints: while the probe loop runs, an endpoint that
\* stays down is taken for down from some time on, although an answer it gave
\* before may be noted late; one that stays up is taken for up again and
\* again, although it may fail single requests.
HealthFollowsEndpoints ==
    \A e \in Endpoint :
        /\ <>[](Probing /\ status[e] = "down") => <>[]~health[e]
        /\ <>[](Probing /\ status[e] = "up") => []<>health[e]
===============================================================================
