---------------------------- MODULE EndpointProofs ----------------------------
(***************************************************************************)
(* Theorems about Endpoints, for every number of backups, every choice of  *)
(* what the endpoints hold and every sequence of messages.                 *)
(*                                                                         *)
(* That a request finds a server needs an invariant of the requests under  *)
(* way: the chain of each covers every endpoint, wherever the rotation     *)
(* started, and the ones it has already asked were not all the while able  *)
(* to serve.  That the audit tells what was served needs, beside the types *)
(* of its sequences, that only a node that drains holds records outside of *)
(* the log, and that a bootstrap node serves nothing once it drains.       *)
(***************************************************************************)
EXTENDS Endpoints, SequenceTheorems, TLAPS

\* The arithmetic of the rotation.
LEMMA Wraps ==
    ASSUME NEW n \in Nat \ {0}, NEW k \in 0..(n - 1)
    PROVE  k % n = k /\ (k + n) % n = k
  OBVIOUS

LEMMA Modulo ==
    ASSUME NEW n \in Nat \ {0}, NEW k \in Nat
    PROVE  k % n \in 0..(n - 1)
  OBVIOUS

\* A walk of n steps from any start stays in 1..n and passes every position.
LEMMA WalkStays ==
    ASSUME NEW n \in Nat \ {0}, NEW start \in Nat, NEW i \in 1..n
    PROVE  ((start + i - 1) % n) + 1 \in 1..n
  <1>1. (start + i - 1) \in Nat
    OBVIOUS
  <1>2. (start + i - 1) % n \in 0..(n - 1)
    BY <1>1, Modulo
  <1> QED BY <1>2

LEMMA WalkCovers ==
    ASSUME NEW n \in Nat \ {0}, NEW start \in 0..(n - 1), NEW j \in 1..n
    PROVE  \E i \in 1..n : ((start + i - 1) % n) + 1 = j
  <1>1. CASE start < j
    <2>1. start + (j - start) - 1 = j - 1 /\ j - 1 \in 0..(n - 1) /\ j - start \in 1..n
      BY <1>1
    <2>2. (j - 1) % n = j - 1
      BY <2>1, Wraps
    <2>3. ((start + (j - start) - 1) % n) + 1 = j
      BY <2>1, <2>2
    <2> QED BY <2>1, <2>3
  <1>2. CASE j <= start
    <2>1. /\ start + (j - start + n) - 1 = (j - 1) + n
          /\ j - 1 \in 0..(n - 1) /\ j - start + n \in 1..n
      BY <1>2
    <2>2. ((j - 1) + n) % n = j - 1
      BY <2>1, Wraps
    <2>3. ((start + (j - start + n) - 1) % n) + 1 = j
      BY <2>1, <2>2
    <2> QED BY <2>1, <2>3
  <1> QED BY <1>1, <1>2

Goal == {"capabilities", "range", "blocks"}

InFlight == {"asking", "ok", "err", "failed"}

Request ==
    [pc : InFlight, goal : Goal, chain : Seq(Endpoint), at : Nat,
     hashes : Seq(Hash), steady : SUBSET Endpoint]

Call == Request \cup [pc : {"idle", "done"}] \cup [pc : {"done"}, endpoint : Endpoint]

StartOK == next_backup_index \in Nat /\ (Backups # <<>> => next_backup_index < Len(Backups))

Covers(chain) == \A e \in Endpoint : \E i \in 1..Len(chain) : chain[i] = e

AskedInVain(call) ==
    /\ \A i \in 1..Len(call.chain) : i < call.at => call.chain[i] \notin call.steady
    /\ call.pc = "err" => call.chain[call.at] \notin call.steady
    /\ call.pc = "failed" => call.steady = {}

RequestOK(call) ==
    /\ call \in Request
    /\ call.at \in 1..Len(call.chain)
    /\ call.goal = "blocks" => call.hashes # <<>>
    /\ Covers(call.chain)
    /\ AskedInVain(call)

SteadyServe(now, call) ==
    \A e \in call.steady :
        /\ now[e] = "up"
        /\ call.goal = "blocks" => Head(call.hashes) \in Holds[e]

CallsOK ==
    /\ calls \in [Callers -> Call]
    /\ \A c \in Callers : calls[c].pc \in InFlight =>
            RequestOK(calls[c]) /\ SteadyServe(status, calls[c])

RInv == status \in [Endpoint -> Status] /\ StartOK /\ CallsOK

-------------------------------------------------------------------------------
(* The chain.                                                                *)

LEMMA BackupsFacts ==
    /\ Len(Backups) \in Nat
    /\ DOMAIN Backups = 1..Len(Backups)
    /\ \A i \in 1..Len(Backups) : Backups[i] \in Endpoint
    /\ \A e \in Endpoint : e = Primary \/ \E i \in 1..Len(Backups) : Backups[i] = e
    /\ Backups = <<>> <=> Len(Backups) = 0
  <1>1. Len(Backups) \in Nat /\ DOMAIN Backups = 1..Len(Backups)
    BY EndpointsAssumption
  <1>2. Backups = <<>> <=> Len(Backups) = 0
    BY EndpointsAssumption, EmptySeq
  <1> QED BY <1>1, <1>2, EndpointsAssumption DEF Endpoint, Range

LEMMA ChainFacts ==
    ASSUME StartOK
    PROVE  /\ FailoverChain(next_backup_index) \in Seq(Endpoint)
           /\ Len(FailoverChain(next_backup_index)) >= 1
           /\ Covers(FailoverChain(next_backup_index))
  <1> DEFINE n == Len(Backups)
             start == next_backup_index
             pos(i) == ((start + i - 1) % n) + 1
             walk == [i \in 1..n |-> Backups[pos(i)]]
  <1>1. n \in Nat /\ start \in Nat /\ (n # 0 => start < n)
    BY BackupsFacts DEF StartOK
  <1>2. \A i \in 1..n : pos(i) \in 1..n
    BY <1>1, WalkStays
  <1>3. walk \in Seq(Endpoint) /\ Len(walk) = n
    BY <1>1, <1>2, BackupsFacts
  <1>4. FailoverChain(start) = <<Primary>> \o walk
    BY BackupsFacts DEF FailoverChain
  <1>5. <<Primary>> \in Seq(Endpoint) /\ Len(<<Primary>>) = 1
    BY DEF Endpoint
  <1>6. /\ FailoverChain(start) \in Seq(Endpoint)
        /\ Len(FailoverChain(start)) = 1 + n
        /\ \A i \in 1..(1 + n) : FailoverChain(start)[i] = IF i <= 1 THEN Primary ELSE walk[i - 1]
    BY <1>3, <1>4, <1>5, ConcatProperties
  <1> HIDE DEF walk
  <1>7. ASSUME NEW j \in 1..n
        PROVE  \E i \in 1..n : pos(i) = j
    <2>1. n \in Nat \ {0} /\ start \in 0..(n - 1) BY <1>1
    <2> QED BY <2>1, WalkCovers
  <1>8. ASSUME NEW e \in Endpoint
        PROVE  \E i \in 1..(1 + n) : FailoverChain(start)[i] = e
    <2>1. CASE e = Primary
      <3>1. 1 \in 1..(1 + n) BY <1>1
      <3>2. FailoverChain(start)[1] = Primary BY <3>1, <1>6
      <3> QED BY <2>1, <3>1, <3>2
    <2>2. CASE \E j \in 1..n : Backups[j] = e
      <3>1. PICK j \in 1..n : Backups[j] = e BY <2>2
      <3>2. PICK i \in 1..n : pos(i) = j BY <1>7
      <3>3. walk[i] = e BY <3>1, <3>2 DEF walk
      <3>4. i + 1 \in 1..(1 + n) /\ ~(i + 1 <= 1) /\ (i + 1) - 1 = i BY <1>1
      <3> QED BY <1>6, <3>3, <3>4
    <2> QED BY <2>1, <2>2, BackupsFacts
  <1> QED BY <1>1, <1>6, <1>8 DEF Covers

LEMMA RotatedOK ==
    ASSUME NEW n \in Nat
    PROVE  Rotated(n) \in Nat /\ (Backups # <<>> => Rotated(n) < Len(Backups))
  <1>1. CASE Backups = <<>>
    BY <1>1 DEF Rotated
  <1>2. CASE Backups # <<>>
    <2>1. Len(Backups) \in Nat \ {0} BY <1>2, BackupsFacts
    <2>2. n + 1 \in Nat OBVIOUS
    <2>3. (n + 1) % Len(Backups) \in 0..(Len(Backups) - 1) BY <2>1, <2>2, Modulo
    <2> QED BY <1>2, <2>1, <2>3 DEF Rotated
  <1> QED BY <1>1, <1>2
-------------------------------------------------------------------------------
(* The requests under way.                                                   *)

LEMMA AskingOK ==
    ASSUME RInv, NEW goal \in Goal, NEW hashes \in Seq(Hash),
           goal = "blocks" => hashes # <<>>
    PROVE  RequestOK(Asking(goal, hashes)) /\ SteadyServe(status, Asking(goal, hashes))
  <1> DEFINE call == Asking(goal, hashes)
  <1>1. /\ call.chain = FailoverChain(next_backup_index) /\ call.at = 1
        /\ call.steady = {e \in Endpoint : Serves(e, goal, hashes)}
        /\ call.pc = "asking" /\ call.goal = goal /\ call.hashes = hashes
    BY DEF Asking
  <1>2. /\ call.chain \in Seq(Endpoint) /\ Len(call.chain) >= 1 /\ Covers(call.chain)
    BY <1>1, ChainFacts DEF RInv
  <1>3. call \in Request
    BY <1>1, <1>2 DEF Asking, Request, InFlight
  <1>4. Len(call.chain) \in Nat
    BY <1>2
  <1>5. AskedInVain(call)
    BY <1>1, <1>4 DEF AskedInVain
  <1> QED BY <1>1, <1>2, <1>3, <1>4, <1>5 DEF RequestOK, SteadyServe, Serves

\* One caller's call is replaced by another that is in order.
LEMMA CallReplaced ==
    ASSUME RInv, NEW c \in Callers, NEW call \in Call,
           call.pc \in InFlight => RequestOK(call) /\ SteadyServe(status, call),
           calls' = [calls EXCEPT ![c] = call], status' = status
    PROVE  CallsOK'
  <1>0. calls \in [Callers -> Call]
    BY DEF RInv, CallsOK
  <1>1. calls' \in [Callers -> Call]
    BY <1>0
  <1>2. ASSUME NEW d \in Callers, calls'[d].pc \in InFlight
        PROVE  (RequestOK(calls[d]) /\ SteadyServe(status, calls[d]))'
    <2>1. CASE d = c
      <3>1. calls'[d] = call BY <1>0, <2>1
      <3> QED BY <1>2, <3>1 DEF SteadyServe, Serves
    <2>2. CASE d # c
      <3>1. calls'[d] = calls[d] BY <1>0, <2>2
      <3> QED BY <1>2, <3>1 DEF RInv, CallsOK, SteadyServe, Serves
    <2> QED BY <2>1, <2>2
  <1> QED BY <1>1, <1>2 DEF CallsOK

LEMMA BeginOK ==
    ASSUME RInv, NEW c \in Callers, NEW goal \in Goal, NEW hashes \in Seq(Hash),
           Begin(c, goal, hashes), status' = status
    PROVE  StartOK' /\ CallsOK'
  <1>1. CASE goal = "blocks" /\ hashes = <<>>
    <2>1. /\ calls' = [calls EXCEPT ![c] = [pc |-> "done"]]
          /\ next_backup_index' = next_backup_index
      BY <1>1 DEF Begin
    <2>2. [pc |-> "done"] \in Call /\ "done" \notin InFlight
      BY DEF Call, InFlight
    <2>3. CallsOK'
      BY <2>1, <2>2, CallReplaced
    <2> QED BY <2>1, <2>3 DEF RInv, StartOK
  <1>2. CASE ~(goal = "blocks" /\ hashes = <<>>)
    <2>1. /\ calls' = [calls EXCEPT ![c] = Asking(goal, hashes)]
          /\ next_backup_index' = Rotated(next_backup_index)
      BY <1>2 DEF Begin
    <2>2. RequestOK(Asking(goal, hashes)) /\ SteadyServe(status, Asking(goal, hashes))
      BY <1>2, AskingOK
    <2>3. Asking(goal, hashes) \in Call
      BY <2>2 DEF RequestOK, Call
    <2>4. CallsOK'
      BY <2>1, <2>2, <2>3, CallReplaced
    <2> QED BY <2>1, <2>4, RotatedOK DEF RInv, StartOK
  <1> QED BY <1>1, <1>2

\* Where a call under way stands.
LEMMA InFlightFacts ==
    ASSUME RInv, NEW c \in Callers, calls[c].pc \in InFlight
    PROVE  /\ calls[c] \in Request /\ RequestOK(calls[c]) /\ SteadyServe(status, calls[c])
           /\ calls[c].chain[calls[c].at] \in Endpoint
           /\ Len(calls[c].chain) \in Nat
  <1>1. RequestOK(calls[c]) /\ SteadyServe(status, calls[c])
    BY DEF RInv, CallsOK
  <1>2. calls[c] \in Request /\ calls[c].at \in 1..Len(calls[c].chain)
    BY <1>1 DEF RequestOK
  <1>3. calls[c].chain \in Seq(Endpoint)
    BY <1>2 DEF Request
  <1> QED BY <1>1, <1>2, <1>3

LEMMA AskStep ==
    ASSUME RInv, NEW c \in Callers, Ask(c)
    PROVE  RInv'
  <1> DEFINE call == calls[c]
             now == IF Serves(call.chain[call.at], call.goal, call.hashes) THEN "ok" ELSE "err"
             next == [call EXCEPT !.pc = now]
  <1>1. /\ call.pc = "asking" /\ calls' = [calls EXCEPT ![c].pc = now]
        /\ UNCHANGED <<status, next_backup_index>>
    BY DEF Ask
  <1>2. call \in Request /\ RequestOK(call) /\ SteadyServe(status, call)
    BY <1>1, InFlightFacts DEF InFlight
  <1>3. calls \in [Callers -> Call]
    BY DEF RInv, CallsOK
  <1>4. calls' = [calls EXCEPT ![c] = next]
    BY <1>1, <1>3
  <1>5. /\ next \in Request /\ next.pc = now
        /\ next.chain = call.chain /\ next.at = call.at /\ next.goal = call.goal
        /\ next.hashes = call.hashes /\ next.steady = call.steady
    BY <1>2 DEF Request, InFlight
  <1> HIDE DEF next
  <1>6. now = "err" => call.chain[call.at] \notin call.steady
    BY <1>2 DEF SteadyServe, Serves
  <1>7. RequestOK(next) /\ SteadyServe(status, next)
    BY <1>1, <1>2, <1>5, <1>6 DEF RequestOK, AskedInVain, SteadyServe
  <1>8. CallsOK'
    BY <1>1, <1>4, <1>5, <1>7, CallReplaced DEF Call
  <1> QED BY <1>1, <1>8 DEF RInv, StartOK

LEMMA RefusedStep ==
    ASSUME RInv, NEW c \in Callers, Refused(c)
    PROVE  RInv'
  <1> DEFINE call == calls[c]
             next == IF call.at < Len(call.chain)
                     THEN [call EXCEPT !.pc = "asking", !.at = @ + 1]
                     ELSE [call EXCEPT !.pc = "failed"]
  <1>1. /\ call.pc = "err" /\ calls' = [calls EXCEPT ![c] = next]
        /\ UNCHANGED <<status, next_backup_index>>
    BY DEF Refused
  <1>2. call \in Request /\ RequestOK(call) /\ SteadyServe(status, call) /\ Len(call.chain) \in Nat
    BY <1>1, InFlightFacts DEF InFlight
  <1>3. /\ next \in Request
        /\ next.chain = call.chain /\ next.goal = call.goal
        /\ next.hashes = call.hashes /\ next.steady = call.steady
        /\ next.pc = IF call.at < Len(call.chain) THEN "asking" ELSE "failed"
        /\ next.at = IF call.at < Len(call.chain) THEN call.at + 1 ELSE call.at
    <2>1. call \in Request /\ call.at \in Nat
      BY <1>2 DEF Request
    <2>2. CASE call.at < Len(call.chain)
      <3>1. next = [call EXCEPT !.pc = "asking", !.at = @ + 1]
        BY <2>2
      <3> HIDE DEF next
      <3>2. next.pc = "asking" /\ next.at = call.at + 1
        BY <2>1, <3>1 DEF Request
      <3>3. next = [pc |-> "asking", goal |-> call.goal, chain |-> call.chain,
                    at |-> call.at + 1, hashes |-> call.hashes, steady |-> call.steady]
        BY <2>1, <3>1 DEF Request
      <3>4. next \in Request
        BY <2>1, <3>3 DEF Request, InFlight
      <3> QED BY <2>1, <2>2, <3>1, <3>2, <3>3, <3>4 DEF Request
    <2>3. CASE ~(call.at < Len(call.chain))
      <3>1. next = [call EXCEPT !.pc = "failed"]
        BY <2>3
      <3> QED BY <2>1, <2>3, <3>1 DEF Request, InFlight
    <2> QED BY <2>2, <2>3
  <1> HIDE DEF next
  <1>4. /\ call.at \in 1..Len(call.chain)
        /\ \A i \in 1..Len(call.chain) : i <= call.at => call.chain[i] \notin call.steady
    BY <1>1, <1>2 DEF RequestOK, AskedInVain
  <1>5. call.at = Len(call.chain) => call.steady = {}
    <2>1. call.steady \subseteq Endpoint BY <1>2 DEF Request
    <2> QED BY <1>2, <1>4, <2>1 DEF RequestOK, Covers
  <1>6. AskedInVain(next) /\ next.at \in 1..Len(next.chain)
    BY <1>2, <1>3, <1>4, <1>5 DEF AskedInVain
  <1>7. RequestOK(next) /\ SteadyServe(status, next)
    BY <1>2, <1>3, <1>6 DEF RequestOK, SteadyServe
  <1>8. CallsOK'
    BY <1>1, <1>3, <1>7, CallReplaced DEF Call
  <1> QED BY <1>1, <1>8 DEF RInv, StartOK

LEMMA AnsweredStep ==
    ASSUME RInv, NEW c \in Callers, Answered(c)
    PROVE  RInv'
  <1> DEFINE call == calls[c]
             e == call.chain[call.at]
  <1>1. call.pc = "ok" /\ UNCHANGED status
    BY DEF Answered
  <1>2. call \in Request /\ RequestOK(call) /\ e \in Endpoint
    BY <1>1, InFlightFacts DEF InFlight
  <1>3. call.goal \in Goal /\ call.hashes \in Seq(Hash)
    BY <1>2 DEF Request
  <1>4. CASE call.goal = "capabilities"
    <2>1. /\ calls' = [calls EXCEPT ![c] = [pc |-> "done", endpoint |-> e]]
          /\ UNCHANGED next_backup_index
      BY <1>4 DEF Answered
    <2>2. [pc |-> "done", endpoint |-> e] \in Call /\ "done" \notin InFlight
      BY <1>2 DEF Call, InFlight
    <2>3. CallsOK'
      BY <1>1, <2>1, <2>2, CallReplaced
    <2> QED BY <1>1, <2>1, <2>3 DEF RInv, StartOK
  <1>5. CASE call.goal = "range"
    <2>1. Begin(c, "blocks", Delta[e])
      BY <1>5 DEF Answered
    <2>2. Delta[e] \in Seq(Hash) /\ "blocks" \in Goal
      BY <1>2, EndpointsAssumption DEF Goal
    <2> QED BY <1>1, <2>1, <2>2, BeginOK DEF RInv
  <1>6. CASE call.goal = "blocks"
    <2>1. Begin(c, "blocks", Tail(call.hashes))
      BY <1>6 DEF Answered, BlockServed
    <2>2. Tail(call.hashes) \in Seq(Hash) /\ "blocks" \in Goal
      BY <1>2, <1>3, <1>6 DEF RequestOK, Goal
    <2> QED BY <1>1, <2>1, <2>2, BeginOK DEF RInv
  <1> QED BY <1>3, <1>4, <1>5, <1>6 DEF Goal

\* The actions that leave the calls and the rotation alone.
LEMMA CallsUntouched ==
    ASSUME RInv, UNCHANGED <<status, next_backup_index, calls>>
    PROVE  RInv'
  BY DEF RInv, StartOK, CallsOK, SteadyServe, Serves

\* The actions in which the node takes note of an outcome, or forgets a call.
LEMMA Forgotten ==
    ASSUME RInv, UNCHANGED <<status, next_backup_index>>,
           \/ \E c \in Callers : calls' = [calls EXCEPT ![c] = Idle]
           \/ calls' = [c \in Callers |-> Idle]
    PROVE  RInv'
  <1>1. Idle \in Call /\ Idle.pc \notin InFlight
    BY DEF Idle, Call, InFlight
  <1>2. CASE \E c \in Callers : calls' = [calls EXCEPT ![c] = Idle]
    <2>1. CallsOK' BY <1>1, <1>2, CallReplaced
    <2> QED BY <2>1 DEF RInv, StartOK
  <1>3. CASE calls' = [c \in Callers |-> Idle]
    <2>1. CallsOK' BY <1>1, <1>3 DEF CallsOK
    <2> QED BY <2>1 DEF RInv, StartOK
  <1> QED BY <1>2, <1>3

\* The actions that begin a request.
LEMMA Begun ==
    ASSUME RInv, UNCHANGED status, NEW c \in Callers, NEW goal \in Goal,
           NEW hashes \in Seq(Hash), Begin(c, goal, hashes)
    PROVE  RInv'
  BY BeginOK DEF RInv

LEMMA BeginningsStep ==
    ASSUME RInv,
           \/ Bootstrap
           \/ \E message \in Messages : BootstrapReads(message)
           \/ ProbeCapabilities
           \/ \E message \in Messages : DriverReads(message)
           \/ LoopRecovers
    PROVE  RInv'
  <1>1. /\ "loop" \in Callers /\ "driver" \in Callers
        /\ "capabilities" \in Goal /\ "range" \in Goal /\ "blocks" \in Goal
        /\ <<>> \in Seq(Hash) /\ Configured \in Seq(Hash)
    BY EndpointsAssumption DEF Callers, Goal
  <1>2. CASE Bootstrap
    BY <1>1, <1>2, Begun DEF Bootstrap
  <1>3. ASSUME NEW message \in Messages, BootstrapReads(message)
        PROVE  RInv'
    <2>1. CASE Parsed(message).is = "hashes"
      <3>1. Parsed(message).added \in Seq(Hash)
        BY <2>1, EndpointsAssumption
      <3>2. Begin("loop", "blocks", Parsed(message).added) /\ UNCHANGED status
        BY <1>3, <2>1 DEF BootstrapReads
      <3> QED BY <1>1, <3>1, <3>2, Begun
    <2>2. CASE Parsed(message).is # "hashes"
      <3>1. UNCHANGED <<status, next_backup_index, calls>>
        BY <1>3, <2>2 DEF BootstrapReads
      <3> QED BY <3>1, CallsUntouched
    <2> QED BY <2>1, <2>2
  <1>4. CASE ProbeCapabilities
    BY <1>1, <1>4, Begun DEF ProbeCapabilities
  <1>5. ASSUME NEW message \in Messages, DriverReads(message)
        PROVE  RInv'
    <2>1. Parsed(message).added \in Seq(Hash)
      BY <1>5, EndpointsAssumption DEF DriverReads
    <2>2. Begin("driver", "blocks", Parsed(message).added) /\ UNCHANGED status
      BY <1>5 DEF DriverReads
    <2> QED BY <1>1, <2>1, <2>2, Begun
  <1>6. CASE LoopRecovers
    BY <1>1, <1>6, Begun DEF LoopRecovers
  <1> QED BY <1>2, <1>3, <1>4, <1>5, <1>6

\* An endpoint that changes is no longer among those that could serve all along.
LEMMA FlipStep ==
    ASSUME RInv, NEW e \in Endpoint, Flip(e)
    PROVE  RInv'
  <1> DEFINE inFlight(c) == calls[c].pc \in {"asking", "ok", "err"}
             next(c) == IF inFlight(c) THEN [calls[c] EXCEPT !.steady = @ \ {e}] ELSE calls[c]
  <1>1. /\ calls' = [c \in Callers |-> next(c)]
        /\ UNCHANGED next_backup_index
        /\ \E s \in Status : status' = [status EXCEPT ![e] = s]
    BY DEF Flip
  <1>2. /\ status' \in [Endpoint -> Status]
        /\ \A x \in Endpoint \ {e} : status'[x] = status[x]
    BY <1>1 DEF RInv
  <1>3. ASSUME NEW c \in Callers
        PROVE  /\ next(c) \in Call
               /\ next(c).pc \in InFlight => RequestOK(next(c)) /\ SteadyServe(status', next(c))
    <2>1. CASE inFlight(c)
      <3> DEFINE call == calls[c]
                 new == [call EXCEPT !.steady = @ \ {e}]
      <3>1. call \in Request /\ RequestOK(call) /\ SteadyServe(status, call) /\ call.pc # "failed"
        BY <2>1, InFlightFacts DEF InFlight
      <3>2. /\ new \in Request /\ new.pc = call.pc /\ new.chain = call.chain
            /\ new.at = call.at /\ new.goal = call.goal /\ new.hashes = call.hashes
            /\ new.steady = call.steady \ {e} /\ call.steady \subseteq Endpoint
        BY <3>1 DEF Request
      <3>3. next(c) = new
        BY <2>1
      <3> HIDE DEF new, next
      <3>4. RequestOK(new)
        BY <3>1, <3>2 DEF RequestOK, AskedInVain
      <3>5. SteadyServe(status', new)
        BY <1>2, <3>1, <3>2 DEF SteadyServe
      <3> QED BY <3>2, <3>3, <3>4, <3>5 DEF Call
    <2>2. CASE ~inFlight(c) /\ calls[c].pc \in InFlight
      <3>1. calls[c].pc = "failed" BY <2>2 DEF InFlight
      <3>2. RequestOK(calls[c]) /\ calls[c] \in Request
        BY <2>2, InFlightFacts
      <3>3. calls[c].steady = {}
        BY <3>1, <3>2 DEF RequestOK, AskedInVain
      <3>4. next(c) = calls[c]
        BY <2>2
      <3> QED BY <3>2, <3>3, <3>4 DEF Call, SteadyServe
    <2>3. CASE calls[c].pc \notin InFlight
      <3>1. next(c) = calls[c] BY <2>3 DEF InFlight
      <3> QED BY <2>3, <3>1 DEF RInv, CallsOK
    <2> QED BY <2>1, <2>2, <2>3
  <1> HIDE DEF next
  <1>4. CallsOK'
    BY <1>1, <1>3 DEF CallsOK
  <1> QED BY <1>1, <1>2, <1>4 DEF RInv, StartOK

LEMMA RequestsStep ==
    ASSUME RInv, [Next]_vars
    PROVE  RInv'
  <1>1. ASSUME NEW c \in Callers, CallStep(c)
        PROVE  RInv'
    BY <1>1, AskStep, AnsweredStep, RefusedStep DEF CallStep
  <1>2. CASE \/ Bootstrap
             \/ \E message \in Messages : BootstrapReads(message)
             \/ ProbeCapabilities
             \/ \E message \in Messages : DriverReads(message)
             \/ LoopRecovers
    BY <1>2, BeginningsStep
  <1>3. "loop" \in Callers /\ "driver" \in Callers
    BY DEF Callers
  <1>4. CASE StoreFails
    BY <1>4, Forgotten DEF StoreFails
  <1>5. CASE BootstrapFetched
    BY <1>3, <1>5, Forgotten DEF BootstrapFetched
  <1>6. CASE BootstrapGoesOn
    BY <1>3, <1>6, Forgotten DEF BootstrapGoesOn
  <1>7. CASE Preflight
    BY <1>3, <1>7, Forgotten DEF Preflight
  <1>8. CASE DriverGoesOn
    BY <1>3, <1>8, Forgotten DEF DriverGoesOn
  <1>9. CASE LoopDrains
    BY <1>3, <1>9, Forgotten DEF LoopDrains
  <1>10. CASE Probe \/ ProbeAnswered
    BY <1>10, CallsUntouched DEF Probe, ProbeAnswered
  <1>11. CASE StoreRecord \/ Drained
    BY <1>11, CallsUntouched DEF StoreRecord, Drained, client
  <1>12. CASE BootstrapSubscribes \/ BootstrapHasRead
    BY <1>12, CallsUntouched DEF BootstrapSubscribes, BootstrapHasRead, client
  <1>13. CASE Shutdown \/ Stopped
    BY <1>13, CallsUntouched DEF Shutdown, Stopped, client
  <1>14. ASSUME NEW e \in Endpoint, Flip(e)
         PROVE  RInv'
    BY <1>14, FlipStep
  <1>15. CASE UNCHANGED vars
    BY <1>15, CallsUntouched DEF vars, client
  <1> QED BY <1>1, <1>2, <1>4, <1>5, <1>6, <1>7, <1>8, <1>9, <1>10, <1>11, <1>12,
             <1>13, <1>14, <1>15 DEF Next, ProbeStep

LEMMA RequestsInit == Init => RInv
  <1> SUFFICES ASSUME Init PROVE RInv
    OBVIOUS
  <1>1. StartOK
    BY BackupsFacts DEF Init, StartOK
  <1>2. CallsOK
    BY DEF Init, CallsOK, Idle, Call, InFlight
  <1> QED BY <1>1, <1>2 DEF Init, RInv

\* The requests under way are in order in every reachable state.
THEOREM RequestsInOrder == Spec => []RInv
  <1> QED BY RequestsInit, RequestsStep, PTL DEF Spec

\* A request fails only if no endpoint could serve it all along, whatever the
\* number of backups and wherever their rotation has got to (rpc lib.rs:72).
THEOREM RequestsFindAServer == Spec => []FailoverFindsAServer
  <1>1. RInv => FailoverFindsAServer
    BY DEF RInv, CallsOK, RequestOK, AskedInVain, InFlight, FailoverFindsAServer
  <1> QED BY <1>1, RequestsInOrder, PTL

-------------------------------------------------------------------------------
(* The audit.                                                                *)

Record == [hash : Hash, served_by : Endpoint]

AuditTyped ==
    /\ audit_log \in Seq(Record) /\ draining \in Seq(Record)
    /\ rows \in Seq(Record) /\ served \in Seq(Record)

Draining == {"draining", "bootstrap_draining"}

TakenOnlyToStore == draining # <<>> => phase \in Draining

BootstrapKeepsToItsPhases ==
    mode = "bootstrap" =>
        /\ phase \notin {"preflight", "running", "draining", "stopping"}
        /\ calls["driver"] = Idle

NothingServedAfterwards ==
    mode = "bootstrap" /\ phase \in {"bootstrap_draining", "done"} =>
        audit_log = <<>> /\ calls["loop"] = Idle

AInv ==
    /\ RInv
    /\ AuditTyped
    /\ TakenOnlyToStore
    /\ BootstrapKeepsToItsPhases
    /\ NothingServedAfterwards
    /\ AuditTellsWhatWasServed

\* A record more at the end of the log.
LEMMA AppendLast ==
    ASSUME NEW R, NEW s \in Seq(R), NEW t \in Seq(R), NEW u \in Seq(R), NEW r \in R
    PROVE  s \o t \o Append(u, r) = Append(s \o t \o u, r)
  <1>1. s \o t \in Seq(R) /\ <<r>> \in Seq(R)
    OBVIOUS
  <1>2. Append(u, r) = u \o <<r>>
    BY AppendIsConcat
  <1>3. Append(s \o t \o u, r) = (s \o t \o u) \o <<r>>
    BY <1>1, AppendIsConcat, ConcatProperties
  <1> QED BY <1>1, <1>2, <1>3, ConcatAssociative

\* The first record taken becomes the last one stored.
LEMMA MoveFirst ==
    ASSUME NEW R, NEW s \in Seq(R), NEW t \in Seq(R), NEW u \in Seq(R), t # <<>>
    PROVE  Append(s, Head(t)) \o Tail(t) \o u = s \o t \o u
  <1>1. Head(t) \in R /\ Tail(t) \in Seq(R) /\ <<Head(t)>> \in Seq(R)
    OBVIOUS
  <1>2. t = <<Head(t)>> \o Tail(t)
    OBVIOUS
  <1>3. Append(s, Head(t)) = s \o <<Head(t)>>
    BY <1>1, AppendIsConcat
  <1>4. (s \o <<Head(t)>>) \o Tail(t) = s \o (<<Head(t)>> \o Tail(t))
    BY <1>1, ConcatAssociative, SMTT(30)
  <1> QED BY <1>2, <1>3, <1>4

\* What was the log becomes what is being stored.
LEMMA TakeAll ==
    ASSUME NEW R, NEW s \in Seq(R), NEW u \in Seq(R)
    PROVE  s \o u \o <<>> = s \o <<>> \o u
  <1>1. s \o u \in Seq(R) BY ConcatProperties
  <1>2. (s \o u) \o <<>> = s \o u BY <1>1, ConcatEmptySeq
  <1>3. s \o <<>> = s BY ConcatEmptySeq
  <1> QED BY <1>2, <1>3

\* A bootstrap node makes requests of its loop alone, and none once it drains.
LEMMA WhoCalls ==
    ASSUME AInv, NEW c \in Callers, calls[c] # Idle, mode = "bootstrap"
    PROVE  c = "loop" /\ phase \notin {"bootstrap_draining", "done"}
  BY DEF AInv, BootstrapKeepsToItsPhases, NothingServedAfterwards, Callers

LEMMA CallsFunction ==
    ASSUME RInv
    PROVE  DOMAIN calls = Callers
  BY DEF RInv, CallsOK

\* The steps of a call that serve no block leave the audit alone.
LEMMA SilentCall ==
    ASSUME AInv, RInv', NEW c \in Callers, NEW next,
           calls[c] # Idle, calls' = [calls EXCEPT ![c] = next],
           UNCHANGED <<mode, phase, audit>>
    PROVE  AInv'
  <1>1. \A d \in Callers \ {c} : calls'[d] = calls[d]
    BY CallsFunction DEF AInv
  <1>2. BootstrapKeepsToItsPhases'
    BY <1>1, WhoCalls DEF AInv, BootstrapKeepsToItsPhases, Callers
  <1>3. NothingServedAfterwards'
    BY WhoCalls DEF AInv, NothingServedAfterwards, audit
  <1> QED BY <1>2, <1>3 DEF AInv, AuditTyped, TakenOnlyToStore, AuditTellsWhatWasServed, audit

LEMMA BeginReplaces ==
    ASSUME NEW c, NEW goal, NEW hashes, Begin(c, goal, hashes)
    PROVE  \E next : calls' = [calls EXCEPT ![c] = next]
  BY DEF Begin

LEMMA ServedStep ==
    ASSUME AInv, RInv', NEW c \in Callers, calls[c].pc = "ok", calls[c].goal = "blocks",
           Answered(c)
    PROVE  AInv'
  <1> DEFINE call == calls[c]
             e == call.chain[call.at]
             record == [hash |-> Head(call.hashes), served_by |-> e]
  <1>1. /\ audit_log' = Append(audit_log, record) /\ served' = Append(served, record)
        /\ Begin(c, "blocks", Tail(call.hashes))
        /\ UNCHANGED <<mode, phase, draining, rows>>
    BY DEF Answered, BlockServed
  <1>2. record \in Record
    <2>1. call \in Request /\ RequestOK(call) /\ e \in Endpoint
      BY InFlightFacts DEF InFlight, AInv
    <2>2. call.hashes \in Seq(Hash) /\ call.hashes # <<>>
      BY <2>1 DEF Request, RequestOK
    <2> QED BY <2>1, <2>2 DEF Record
  <1> HIDE DEF record
  <1>3. calls[c] # Idle
    BY DEF Idle
  <1>4. \A d \in Callers \ {c} : calls'[d] = calls[d]
    BY <1>1, BeginReplaces, CallsFunction DEF AInv
  <1>5. AuditTyped'
    BY <1>1, <1>2 DEF AInv, AuditTyped
  <1>6. TakenOnlyToStore'
    BY <1>1 DEF AInv, TakenOnlyToStore
  <1>7. BootstrapKeepsToItsPhases'
    BY <1>1, <1>3, <1>4, WhoCalls DEF AInv, BootstrapKeepsToItsPhases, Callers
  <1>8. NothingServedAfterwards'
    BY <1>1, <1>3, WhoCalls DEF NothingServedAfterwards
  <1>9. AuditTellsWhatWasServed'
    <2>1. rows' \o draining' \o audit_log' = Append(rows \o draining \o audit_log, record)
      BY <1>1, <1>2, AppendLast, SMTT(30) DEF AInv, AuditTyped
    <2>2. phase' # "failed" => rows' \o draining' \o audit_log' = served'
      BY <1>1, <2>1 DEF AInv, AuditTellsWhatWasServed
    <2>3. ~(mode' = "bootstrap" /\ phase' = "done")
      BY <1>1, <1>3, WhoCalls
    <2> QED BY <2>2, <2>3 DEF AuditTellsWhatWasServed
  <1> QED BY <1>5, <1>6, <1>7, <1>8, <1>9 DEF AInv

LEMMA CallsAudit ==
    ASSUME AInv, RInv', NEW c \in Callers, CallStep(c)
    PROVE  AInv'
  <1>1. CASE Ask(c)
    <2>1. calls[c] # Idle
      BY <1>1 DEF Ask, Idle
    <2>2. \E next : calls' = [calls EXCEPT ![c] = next]
      <3>1. PICK now : calls' = [calls EXCEPT ![c].pc = now]
        BY <1>1 DEF Ask
      <3>2. calls' = [calls EXCEPT ![c] = [calls[c] EXCEPT !.pc = now]]
        BY <3>1
      <3> QED BY <3>2
    <2> QED BY <1>1, <2>1, <2>2, SilentCall DEF Ask
  <1>2. CASE Refused(c)
    <2>1. calls[c] # Idle
      BY <1>2 DEF Refused, Idle
    <2>2. \E next : calls' = [calls EXCEPT ![c] = next]
      BY <1>2 DEF Refused
    <2> QED BY <1>2, <2>1, <2>2, SilentCall DEF Refused
  <1>3. CASE Answered(c)
    <2>1. calls[c].pc = "ok" /\ calls[c] # Idle
      BY <1>3 DEF Answered, Idle
    <2>2. calls[c].goal \in Goal
      BY <2>1, InFlightFacts DEF AInv, InFlight, Request
    <2>3. CASE calls[c].goal = "blocks"
      BY <1>3, <2>1, <2>3, ServedStep
    <2>4. CASE calls[c].goal = "range"
      <3>1. /\ Begin(c, "blocks", Delta[calls[c].chain[calls[c].at]])
            /\ UNCHANGED <<mode, phase, audit>>
        BY <1>3, <2>4 DEF Answered, audit
      <3> QED BY <2>1, <3>1, BeginReplaces, SilentCall
    <2>5. CASE calls[c].goal = "capabilities"
      <3>1. /\ calls' = [calls EXCEPT ![c] =
                            [pc |-> "done", endpoint |-> calls[c].chain[calls[c].at]]]
            /\ UNCHANGED <<mode, phase, audit>>
        BY <1>3, <2>5 DEF Answered, audit
      <3> QED BY <2>1, <3>1, SilentCall
    <2> QED BY <2>2, <2>3, <2>4, <2>5 DEF Goal
  <1> QED BY <1>1, <1>2, <1>3 DEF CallStep

\* Taking the log: nothing is being stored when it is taken.
LEMMA DrainAudit ==
    ASSUME AInv, NEW then \in Draining, phase \notin Draining, Drain(then),
           phase # "failed"
    PROVE  /\ AuditTyped' /\ TakenOnlyToStore' /\ AuditTellsWhatWasServed'
           /\ audit_log' = <<>> /\ phase' = then
  <1>1. /\ draining' = audit_log /\ audit_log' = <<>> /\ phase' = then
        /\ UNCHANGED <<rows, served>>
    BY DEF Drain, TakeLog
  <1>2. draining = <<>>
    BY DEF AInv, TakenOnlyToStore
  <1>3. AuditTyped'
    BY <1>1 DEF AInv, AuditTyped
  <1>4. rows' \o draining' \o audit_log' = rows \o draining \o audit_log
    BY <1>1, <1>2, TakeAll DEF AInv, AuditTyped
  <1>5. AuditTellsWhatWasServed'
    BY <1>1, <1>4 DEF AInv, AuditTellsWhatWasServed, Draining
  <1> QED BY <1>1, <1>3, <1>5 DEF TakenOnlyToStore

\* Steps that neither serve nor store nor change the phase, and begin no call.
LEMMA QuietStep ==
    ASSUME AInv, RInv', UNCHANGED <<mode, phase, audit>>,
           \A c \in Callers : calls[c] = Idle => calls'[c] = Idle
    PROVE  AInv'
  <1>1. BootstrapKeepsToItsPhases' /\ NothingServedAfterwards'
    BY DEF AInv, BootstrapKeepsToItsPhases, NothingServedAfterwards, Callers, audit
  <1> QED BY <1>1 DEF AInv, AuditTyped, TakenOnlyToStore, AuditTellsWhatWasServed, audit

\* Steps of the node between its phases, or within one of them, that leave the
\* audit alone.
LEMMA PhaseStep ==
    ASSUME AInv, RInv', UNCHANGED <<mode, audit>>, phase # "failed",
           phase' = phase \/ phase \notin Draining,
           mode = "bootstrap" => /\ phase' \in {"fetching", "reading", "failed"}
                                 /\ calls'["driver"] = Idle
    PROVE  AInv'
  <1>1. TakenOnlyToStore' /\ BootstrapKeepsToItsPhases' /\ NothingServedAfterwards'
    BY DEF AInv, TakenOnlyToStore, BootstrapKeepsToItsPhases, NothingServedAfterwards, audit
  <1>2. AuditTellsWhatWasServed'
    BY DEF AInv, AuditTellsWhatWasServed, audit
  <1> QED BY <1>1, <1>2 DEF AInv, AuditTyped, audit

\* The loop of a bootstrap node makes its calls while the driver has none.
LEMMA LoopCall ==
    ASSUME AInv, mode = "bootstrap",
           calls' = calls \/ \E next : calls' = [calls EXCEPT !["loop"] = next]
    PROVE  calls'["driver"] = Idle
  BY CallsFunction DEF AInv, BootstrapKeepsToItsPhases, Callers

LEMMA StoringAudit ==
    ASSUME AInv, RInv', StoreRecord \/ StoreFails \/ Drained
    PROVE  AInv'
  <1>1. CASE StoreRecord
    <2>1. /\ rows' = Append(rows, Head(draining)) /\ draining' = Tail(draining)
          /\ draining # <<>> /\ phase \in Draining
          /\ UNCHANGED <<mode, phase, calls, audit_log, served>>
      BY <1>1 DEF StoreRecord, client, Draining
    <2>2. AuditTyped' /\ rows' \o draining' \o audit_log' = rows \o draining \o audit_log
      BY <2>1, MoveFirst, SMTT(30) DEF AInv, AuditTyped
    <2>3. AuditTellsWhatWasServed'
      BY <2>1, <2>2 DEF AInv, AuditTellsWhatWasServed, Draining
    <2> QED BY <2>1, <2>2, <2>3
         DEF AInv, TakenOnlyToStore, BootstrapKeepsToItsPhases, NothingServedAfterwards
  <1>2. CASE StoreFails
    <2>1. /\ phase' = "failed" /\ draining' = <<>> /\ calls' = [c \in Callers |-> Idle]
          /\ UNCHANGED <<mode, audit_log, rows, served>>
      BY <1>2 DEF StoreFails
    <2> QED BY <2>1 DEF AInv, AuditTyped, TakenOnlyToStore, BootstrapKeepsToItsPhases,
                        NothingServedAfterwards, AuditTellsWhatWasServed, Callers
  <1>3. CASE Drained
    <2>1. /\ draining = <<>> /\ phase \in Draining
          /\ phase' = IF phase = "draining" THEN "running" ELSE "done"
          /\ UNCHANGED <<mode, calls, audit_log, draining, rows, served>>
      BY <1>3 DEF Drained, client, audit, Draining
    <2>2. mode = "bootstrap" => phase = "bootstrap_draining" /\ phase' = "done"
      BY <2>1 DEF AInv, BootstrapKeepsToItsPhases, Draining
    <2>3. mode = "bootstrap" => rows' = served'
      <3>1. mode = "bootstrap" => rows \o <<>> \o <<>> = served
        BY <2>1, <2>2 DEF AInv, NothingServedAfterwards, AuditTellsWhatWasServed
      <3>2. rows \o <<>> \o <<>> = rows
        BY ConcatEmptySeq DEF AInv, AuditTyped
      <3> QED BY <2>1, <3>1, <3>2
    <2>4. AuditTellsWhatWasServed'
      BY <2>1, <2>3 DEF AInv, AuditTellsWhatWasServed, Draining
    <2>5. BootstrapKeepsToItsPhases' /\ NothingServedAfterwards'
      BY <2>1, <2>2 DEF AInv, BootstrapKeepsToItsPhases, NothingServedAfterwards
    <2> QED BY <2>1, <2>4, <2>5 DEF AInv, AuditTyped, TakenOnlyToStore
  <1> QED BY <1>1, <1>2, <1>3

LEMMA BootstrapAudit ==
    ASSUME AInv, RInv',
           \/ Bootstrap \/ BootstrapFetched \/ BootstrapSubscribes
           \/ BootstrapGoesOn \/ BootstrapHasRead
           \/ \E message \in Messages : BootstrapReads(message)
    PROVE  AInv'
  <1>1. CASE Bootstrap
    <2>1. \E next : calls' = [calls EXCEPT !["loop"] = next]
      BY <1>1, BeginReplaces DEF Bootstrap
    <2> QED BY <1>1, <2>1, LoopCall, PhaseStep DEF Bootstrap, Draining
  <1>2. CASE BootstrapSubscribes
    BY <1>2, LoopCall, PhaseStep DEF BootstrapSubscribes, Draining, client
  <1>3. CASE BootstrapGoesOn
    BY <1>3, LoopCall, PhaseStep DEF BootstrapGoesOn, Draining
  <1>4. ASSUME NEW message \in Messages, BootstrapReads(message)
        PROVE  AInv'
    <2>1. calls' = calls \/ \E next : calls' = [calls EXCEPT !["loop"] = next]
      BY <1>4, BeginReplaces DEF BootstrapReads
    <2>2. phase = "reading" /\ phase' \in {"reading", "failed"} /\ UNCHANGED <<mode, audit>>
      BY <1>4 DEF BootstrapReads
    <2> QED BY <2>1, <2>2, LoopCall, PhaseStep DEF Draining
  <1>5. CASE BootstrapFetched /\ calls["loop"].pc # "done"
    BY <1>5, LoopCall, PhaseStep DEF BootstrapFetched, Draining
  <1>6. CASE BootstrapFetched /\ calls["loop"].pc = "done"
    <2>1. /\ phase = "fetching" /\ Drain("bootstrap_draining") /\ mode' = mode
          /\ calls' = [calls EXCEPT !["loop"] = Idle]
      BY <1>6 DEF BootstrapFetched
    <2>2. /\ AuditTyped' /\ TakenOnlyToStore' /\ AuditTellsWhatWasServed'
          /\ audit_log' = <<>> /\ phase' = "bootstrap_draining"
      BY <2>1, DrainAudit DEF Draining
    <2>3. calls'["loop"] = Idle /\ (mode = "bootstrap" => calls'["driver"] = Idle)
      BY <2>1, LoopCall, CallsFunction DEF AInv, Callers
    <2> QED BY <2>1, <2>2, <2>3 DEF AInv, BootstrapKeepsToItsPhases, NothingServedAfterwards
  <1>7. CASE BootstrapHasRead
    <2>1. /\ phase = "reading" /\ Drain("bootstrap_draining") /\ mode' = mode
          /\ calls' = calls /\ calls["loop"] = Idle
      BY <1>7 DEF BootstrapHasRead, client
    <2>2. /\ AuditTyped' /\ TakenOnlyToStore' /\ AuditTellsWhatWasServed'
          /\ audit_log' = <<>> /\ phase' = "bootstrap_draining"
      BY <2>1, DrainAudit DEF Draining
    <2> QED BY <2>1, <2>2 DEF AInv, BootstrapKeepsToItsPhases, NothingServedAfterwards
  <1> QED BY <1>1, <1>2, <1>3, <1>4, <1>5, <1>6, <1>7

LEMMA ContinuousAudit ==
    ASSUME AInv, RInv',
           \/ ProbeCapabilities \/ Preflight
           \/ \E message \in Messages : DriverReads(message)
           \/ DriverGoesOn \/ LoopRecovers \/ LoopDrains \/ Shutdown \/ Stopped
    PROVE  AInv'
  <1>1. mode = "bootstrap" => phase \notin {"preflight", "running", "draining", "stopping"}
    BY DEF AInv, BootstrapKeepsToItsPhases
  <1>2. CASE ProbeCapabilities
    BY <1>2, PhaseStep DEF ProbeCapabilities, Draining
  <1>3. CASE Preflight
    BY <1>1, <1>3, PhaseStep DEF Preflight, Draining
  <1>4. ASSUME NEW message \in Messages, DriverReads(message)
        PROVE  AInv'
    BY <1>1, <1>4, PhaseStep DEF DriverReads, Draining
  <1>5. CASE DriverGoesOn
    BY <1>5, QuietStep, CallsFunction DEF DriverGoesOn, AInv, Callers
  <1>6. CASE LoopRecovers
    BY <1>1, <1>6, PhaseStep DEF LoopRecovers
  <1>7. CASE LoopDrains
    <2>1. phase = "running" /\ Drain("draining") /\ mode' = mode
      BY <1>7 DEF LoopDrains
    <2>2. /\ AuditTyped' /\ TakenOnlyToStore' /\ AuditTellsWhatWasServed'
      BY <2>1, DrainAudit DEF Draining
    <2> QED BY <1>1, <2>1, <2>2 DEF AInv, BootstrapKeepsToItsPhases, NothingServedAfterwards
  <1>8. CASE Shutdown \/ Stopped
    BY <1>1, <1>8, PhaseStep DEF Shutdown, Stopped, Draining
  <1> QED BY <1>2, <1>3, <1>4, <1>5, <1>6, <1>7, <1>8

LEMMA AuditStep ==
    ASSUME AInv, [Next]_vars
    PROVE  AInv'
  <1>1. RInv'
    BY RequestsStep DEF AInv
  <1>2. ASSUME NEW c \in Callers, CallStep(c)
        PROVE  AInv'
    BY <1>1, <1>2, CallsAudit
  <1>3. CASE ProbeStep \/ UNCHANGED vars
    BY <1>1, <1>3, QuietStep DEF ProbeStep, Probe, ProbeAnswered, vars, client
  <1>4. ASSUME NEW e \in Endpoint, Flip(e)
        PROVE  AInv'
    BY <1>1, <1>4, QuietStep DEF Flip, Idle
  <1> QED BY <1>1, <1>2, <1>3, <1>4, StoringAudit, BootstrapAudit, ContinuousAudit DEF Next

LEMMA AuditInit == Init => AInv
  <1> SUFFICES ASSUME Init PROVE AInv
    OBVIOUS
  <1>1. AuditTyped /\ TakenOnlyToStore
    BY DEF Init, AuditTyped, TakenOnlyToStore
  <1>2. BootstrapKeepsToItsPhases /\ NothingServedAfterwards
    BY DEF Init, BootstrapKeepsToItsPhases, NothingServedAfterwards, Callers
  <1>3. AuditTellsWhatWasServed
    BY DEF Init, AuditTellsWhatWasServed
  <1> QED BY <1>1, <1>2, <1>3, RequestsInit DEF AInv

\* The stored rows, the records being stored and the log are together what was
\* served, in that order, whatever is fetched while the log is drained; a
\* bootstrap run that ends well has stored it all (rpc lib.rs:388).
THEOREM AuditIsComplete == Spec => []AuditTellsWhatWasServed
  <1>1. AInv => AuditTellsWhatWasServed
    BY DEF AInv
  <1> QED BY <1>1, AuditInit, AuditStep, PTL DEF Spec
===============================================================================
