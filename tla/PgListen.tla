------------------------------ MODULE PgListen ------------------------------
(***************************************************************************)
(* GraphQL subscriptions over Postgres LISTEN/NOTIFY: `PgListenSource`     *)
(* (api/src/pg-listen.ts) and the in-process bus it feeds,                 *)
(* `InMemorySubscriptionSource` (api/src/subscriptions.ts).                *)
(*                                                                         *)
(* One listener client serves all subscribers.  The first one to come has  *)
(* it connected, the last one to leave has it closed, and both take        *)
(* several awaits during which others come and go.  A step here is what    *)
(* JavaScript runs between two awaits.                                     *)
(*                                                                         *)
(* Postgres is external: it sends every event inserted to each connection  *)
(* that has LISTENed, in order.  Clients and events are numbered as they   *)
(* are made.  Payload checks are left out, as the trigger sends complete   *)
(* payloads.                                                               *)
(*                                                                         *)
(* As in Ingestion, the last of several definitions of one operator that   *)
(* stand together is the code's, the others are faulty variants of it.     *)
(***************************************************************************)
EXTENDS Integers, SequencesExt

CONSTANTS
    Subscriber,
    Wants,      \* the events every subscriber's filter matches
    MaxEvents,  \* bound: events inserted in a behaviour
    MaxClients  \* bound: listener clients made in a behaviour

ASSUME PgListenAssumption ==
    /\ MaxEvents \in Nat /\ MaxClients \in Nat
    /\ Wants \in [Subscriber -> SUBSET (1 .. MaxEvents)]

VARIABLES
    phase,      \* per subscriber: "off", "attached" to the bus, or "leaving"
    queue,      \* per subscriber: InMemorySubscriber.queue
    pending,    \* per subscriber: does a next() wait for an event?
    received,   \* history, per subscriber: the events its next() calls returned
    since,      \* history: the events inserted before it was listened for; -1 until then
    client,     \* PgListenSource.client; 0 is null
    connectPromise,  \* is PgListenSource.connectPromise set?
    conns,      \* the clients made so far: [step, wired (are its notifications
                \* handled?), alive (is its connection up?), wire (events on their way)]
    inserted,   \* the events inserted so far
    server,     \* the API process: "open", "closing", "closed" or "crashed"
    abandoned   \* history: the last subscriber left a client that was still connecting

busVars    == <<phase, queue, pending, received, since>>
clientVars == <<client, connectPromise, conns, abandoned>>
vars == <<busVars, clientVars, inserted, server>>

Running     == server \in {"open", "closing"}
Attached    == {s \in Subscriber : phase[s] = "attached"}
InStep(set) == {c \in DOMAIN conns : conns[c].step \in set}
Moved(c, step) == [conns EXCEPT ![c].step = step]

Init ==
    /\ phase = [s \in Subscriber |-> "off"]
    /\ queue = [s \in Subscriber |-> <<>>] /\ received = queue
    /\ pending = [s \in Subscriber |-> FALSE]
    /\ since = [s \in Subscriber |-> -1]
    /\ client = 0 /\ connectPromise = FALSE /\ conns = <<>> /\ abandoned = FALSE
    /\ inserted = 0 /\ server = "open"

------------------------------------------------------------------------------

(***************************************************************************)
(* Connecting (ensureConnected).                                           *)
(***************************************************************************)

EnsureConnectedTwice ==
    IF client # 0
    THEN UNCHANGED clientVars
    ELSE /\ Len(conns) < MaxClients
         /\ connectPromise' = TRUE
         /\ conns' = Append(conns, [step |-> "connect", wired |-> FALSE,
                                    alive |-> TRUE, wire |-> <<>>])
         /\ UNCHANGED <<client, abandoned>>
EnsureConnected ==
    IF client # 0 \/ connectPromise
    THEN UNCHANGED clientVars
    ELSE /\ Len(conns) < MaxClients
         /\ connectPromise' = TRUE
         /\ conns' = Append(conns, [step |-> "connect", wired |-> FALSE,
                                    alive |-> TRUE, wire |-> <<>>])
         /\ UNCHANGED <<client, abandoned>>

\* client.connect() is done: the handlers are attached, and LISTEN is sent.
Connected ==
    /\ Running
    /\ \E c \in InStep({"connect"}) :
          conns' = [conns EXCEPT ![c].step = "listen", ![c].wired = TRUE]
    /\ UNCHANGED <<busVars, client, connectPromise, abandoned, inserted, server>>

\* Postgres executes LISTEN.
Heard ==
    /\ Running
    /\ \E c \in InStep({"listen"}) : conns' = Moved(c, "heard")
    /\ since' = [s \in Subscriber |->
                    IF s \in Attached /\ since[s] = -1 THEN inserted ELSE since[s]]
    /\ UNCHANGED <<phase, queue, pending, received, client, connectPromise, abandoned,
                   inserted, server>>

\* LISTEN is acknowledged.
Listening ==
    /\ Running
    /\ \E c \in InStep({"heard"}) : client' = c /\ conns' = Moved(c, "listening")
    /\ UNCHANGED <<busVars, connectPromise, abandoned, inserted, server>>

\* An await of ensureConnected throws.  Nobody awaits the promise it returns, so the
\* rethrown error is an unhandled rejection, which ends the process.
ConnectFails ==
    /\ Running
    /\ InStep({"connect", "listen", "heard"}) # {}
    /\ connectPromise' = FALSE
    /\ server' = "crashed"
    /\ UNCHANGED <<busVars, client, conns, abandoned, inserted>>

(***************************************************************************)
(* Closing (close).  Up to its first await it runs in one go.              *)
(***************************************************************************)

ClosePending ==
    IF client = 0
    THEN UNCHANGED clientVars
    ELSE /\ client' = 0 /\ abandoned' = FALSE
         /\ conns' = [conns EXCEPT ![client].step = "unlisten", ![client].wired = FALSE]
         /\ UNCHANGED connectPromise
Close ==
    IF client = 0
    THEN /\ abandoned' = (connectPromise /\ Attached = {})
         /\ UNCHANGED <<client, connectPromise, conns>>
    ELSE /\ client' = 0 /\ connectPromise' = FALSE /\ abandoned' = FALSE
         /\ conns' = [conns EXCEPT ![client].step = "unlisten", ![client].wired = FALSE]

\* UNLISTEN is answered, and then end(); an error of either is only logged.
Unlistened ==
    /\ Running
    /\ \E c \in InStep({"unlisten"}) : conns' = Moved(c, "end")
    /\ UNCHANGED <<busVars, client, connectPromise, abandoned, inserted, server>>

Ended ==
    /\ Running
    /\ \E c \in InStep({"end"}) :
          conns' = [conns EXCEPT ![c] = [@ EXCEPT !.step = "ended", !.alive = FALSE,
                                                  !.wire = <<>>]]
    /\ UNCHANGED <<busVars, client, connectPromise, abandoned, inserted, server>>

------------------------------------------------------------------------------

(***************************************************************************)
(* Subscribers.                                                            *)
(***************************************************************************)

\* subscribeDetectedPatterns.
Subscribe(s) ==
    /\ server = "open" /\ phase[s] = "off"
    /\ EnsureConnected
    /\ phase' = [phase EXCEPT ![s] = "attached"]
    /\ since' = [since EXCEPT ![s] =
                    IF InStep({"heard", "listening"}) # {} THEN inserted ELSE -1]
    /\ UNCHANGED <<queue, pending, received, inserted, server>>

\* next(): an event that is queued, or the next one to come.
Pull(s) ==
    /\ Running
    /\ phase[s] = "attached" /\ ~pending[s]
    /\ IF queue[s] # <<>>
       THEN /\ received' = [received EXCEPT ![s] = Append(@, Head(queue[s]))]
            /\ queue' = [queue EXCEPT ![s] = Tail(@)]
            /\ UNCHANGED pending
       ELSE /\ pending' = [pending EXCEPT ![s] = TRUE]
            /\ UNCHANGED <<queue, received>>
    /\ UNCHANGED <<phase, since, clientVars, inserted, server>>

\* return(): the bus lets go of the subscriber at once and answers a waiting next() ...
\* (What it has got is of no interest then; the next to subscribe starts anew.)
Leave(s) ==
    /\ Running
    /\ phase[s] = "attached"
    /\ phase' = [phase EXCEPT ![s] = "leaving"]
    /\ pending' = [pending EXCEPT ![s] = FALSE]
    /\ queue' = [queue EXCEPT ![s] = <<>>] /\ received' = [received EXCEPT ![s] = <<>>]
    /\ since' = [since EXCEPT ![s] = -1]
    /\ UNCHANGED <<clientVars, inserted, server>>

\* ... and after an await the client is closed if nobody is left (closeIfLast).
FinishUnchecked(s) ==
    /\ Running
    /\ phase[s] = "leaving" /\ phase' = [phase EXCEPT ![s] = "off"]
    /\ Close
    /\ UNCHANGED <<queue, pending, received, since, inserted, server>>
FinishOffByOne(s) ==
    /\ Running
    /\ phase[s] = "leaving" /\ phase' = [phase EXCEPT ![s] = "off"]
    /\ IF \E r \in Subscriber : Attached = {r} THEN Close ELSE UNCHANGED clientVars
    /\ UNCHANGED <<queue, pending, received, since, inserted, server>>
Finish(s) ==
    /\ Running
    /\ phase[s] = "leaving" /\ phase' = [phase EXCEPT ![s] = "off"]
    /\ IF Attached = {} THEN Close ELSE UNCHANGED clientVars
    /\ UNCHANGED <<queue, pending, received, since, inserted, server>>

------------------------------------------------------------------------------

(***************************************************************************)
(* Events.                                                                 *)
(***************************************************************************)

\* A row is inserted: Postgres notifies every connection that has LISTENed.
Insert ==
    /\ Running
    /\ inserted < MaxEvents /\ inserted' = inserted + 1
    /\ conns' = [c \in DOMAIN conns |->
                    IF c \in InStep({"heard", "listening", "unlisten"}) /\ conns[c].alive
                    THEN [conns[c] EXCEPT !.wire = Append(@, inserted + 1)]
                    ELSE conns[c]]
    /\ UNCHANGED <<busVars, client, connectPromise, abandoned, server>>

\* A notification arrives.  If it is handled, the bus pushes it to every subscriber
\* whose filter matches: to a waiting next(), or to the queue.
Receive ==
    /\ Running
    /\ \E c \in DOMAIN conns :
          /\ conns[c].wire # <<>>
          /\ LET e       == Head(conns[c].wire)
                 matches == {s \in Attached : conns[c].wired /\ e \in Wants[s]}
             IN  /\ received' = [s \in Subscriber |->
                        IF s \in matches /\ pending[s]
                        THEN Append(received[s], e) ELSE received[s]]
                 /\ queue' = [s \in Subscriber |->
                        IF s \in matches /\ ~pending[s]
                        THEN Append(queue[s], e) ELSE queue[s]]
                 /\ pending' = [s \in Subscriber |-> pending[s] /\ s \notin matches]
          /\ conns' = [conns EXCEPT ![c].wire = Tail(@)]
    /\ UNCHANGED <<phase, since, client, connectPromise, abandoned, inserted, server>>

\* A listener's connection fails.  Its error handler only logs it; a client whose
\* handlers close() has removed has none, and its error event ends the process.
ConnectionLost ==
    /\ Running
    /\ \E c \in InStep({"listening", "unlisten"}) :
          /\ conns[c].alive
          /\ conns' = [conns EXCEPT ![c].alive = FALSE, ![c].wire = <<>>]
          /\ server' = IF conns[c].wired THEN server ELSE "crashed"
    /\ UNCHANGED <<busVars, client, connectPromise, abandoned, inserted>>

(***************************************************************************)
(* Shutdown: no new requests, then, once all of them have ended, close().  *)
(***************************************************************************)

Shutdown ==
    /\ server = "open" /\ server' = "closing"
    /\ UNCHANGED <<busVars, clientVars, inserted>>

CloseSource ==
    /\ server = "closing" /\ Attached = {}
    /\ server' = "closed"
    /\ Close
    /\ UNCHANGED <<busVars, inserted>>

ConnectStep == Connected \/ Heard \/ Listening \/ ConnectFails

Next ==
    \/ ConnectStep \/ Unlistened \/ Ended
    \/ \E s \in Subscriber : Subscribe(s) \/ Pull(s) \/ Leave(s) \/ Finish(s)
    \/ Insert \/ Receive \/ ConnectionLost \/ Shutdown \/ CloseSource

\* An attempt to connect succeeds or fails in the end.
Spec == Init /\ [][Next]_vars /\ WF_vars(ConnectStep)

------------------------------------------------------------------------------

(***************************************************************************)
(* Properties.                                                             *)
(***************************************************************************)

\* While a client is being closed another may already listen, and both get every event:
\* still each subscriber gets an event at most once, in the order of insertion, and
\* none lies in its queue while it waits for one.
EventsOnceInOrder ==
    \A s \in Subscriber :
        LET got == received[s] \o queue[s]
        IN  /\ \A i, j \in DOMAIN got : i < j => got[i] < got[j]
            /\ pending[s] => queue[s] = <<>>

\* From the moment Postgres listens for an attached subscriber it misses no matching
\* event, whoever else leaves, unless the connection fails (or the process does).
NothingMissed ==
    \A s \in Attached :
        since[s] # -1 /\ server # "crashed" =>
            \E c \in InStep({"heard", "listening"}) :
                conns[c].alive =>
                    Wants[s] \cap (since[s] + 1 .. inserted)
                        \subseteq Range(received[s] \o queue[s] \o conns[c].wire)

\* The listener outlives the last subscriber only if that one left while the client
\* was still connecting: close() then finds no client to close.
ListenerIsReleased ==
    client # 0 => \/ abandoned
                  \/ \E s \in Subscriber : phase[s] \in {"attached", "leaving"}

\* A subscriber that stays gets a listener, whatever close was under way when it came.
SubscriberIsServed ==
    \A s \in Subscriber :
        phase[s] = "attached" ~> (client # 0 \/ phase[s] # "attached" \/ ~Running)

=============================================================================
