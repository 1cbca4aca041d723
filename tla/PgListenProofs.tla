---------------------------- MODULE PgListenProofs ----------------------------
(***************************************************************************)
(* Theorems about PgListen, for any number of subscribers that come and go *)
(* any number of times, any filters, and any number of events and of       *)
(* listener clients.                                                       *)
(*                                                                         *)
(* Several clients may be about at once: one that opens or listens, and    *)
(* others that are still being closed and that Postgres still notifies.    *)
(* Three facts keep that apart from what subscribers see.  At most one     *)
(* client is between connect() and UNLISTEN, and connectPromise says       *)
(* whether there is one (ClientInv).  Only that client's notifications are *)
(* handled, and those on its wire are just the last events inserted, in    *)
(* order (ConnInv).  What a subscriber has got is older than all of those  *)
(* (OrderInv), so that the next to arrive is new to everybody.             *)
(***************************************************************************)
EXTENDS PgListen, SequenceTheorems, TLAPS

Steps == {"connect", "listen", "heard", "listening", "unlisten", "end", "ended"}
\* The steps of a client on its way to listening, and those in which Postgres notifies
\* it and its notifications are handled.
Opening == {"connect", "listen", "heard", "listening"}
Hearing == {"heard", "listening"}

Conn == [step : Steps, wired : BOOLEAN, alive : BOOLEAN, wire : Seq(Nat)]

\* The events a subscriber has got: received, then queued.
Got(s) == received[s] \o queue[s]

Ascending(seq) == \A i, j \in DOMAIN seq : i < j => seq[i] < seq[j]

\* The wire brings the last of n events.
Ending(wire, n) == \A i \in DOMAIN wire : wire[i] = n - Len(wire) + i

TypeOK ==
    /\ phase \in [Subscriber -> {"off", "attached", "leaving"}]
    /\ queue \in [Subscriber -> Seq(Nat)] /\ received \in [Subscriber -> Seq(Nat)]
    /\ pending \in [Subscriber -> BOOLEAN]
    /\ since \in [Subscriber -> Int]
    /\ client \in Nat /\ connectPromise \in BOOLEAN /\ abandoned \in BOOLEAN
    /\ conns \in Seq(Conn)
    /\ inserted \in Nat
    /\ server \in {"open", "closing", "closed", "crashed"}

\* What a client may be when n events have been inserted.
Sound(conn, n) ==
    /\ conn.wired <=> conn.step \in {"listen", "heard", "listening"}
    /\ conn.step \in {"connect", "listen", "heard"} => conn.alive
    /\ conn.wire # <<>> => conn.alive /\ conn.step \notin {"connect", "listen"}
    /\ conn.step \in Hearing => Ending(conn.wire, n)

ConnInv == \A c \in DOMAIN conns : Sound(conns[c], inserted)

\* One client at a time is on its way to listening or listens.
ClientInv ==
    /\ \A c, d \in InStep(Opening) : c = d
    /\ server # "crashed" => (connectPromise <=> InStep(Opening) # {})
    /\ client # 0 => client \in InStep({"listening"}) /\ connectPromise
    /\ client = 0 => InStep({"listening"}) = {}

\* A subscriber has got events in order, and none that is still on the wire.
OrderInv ==
    \A s \in Subscriber :
        /\ pending[s] => queue[s] = <<>>
        /\ Ascending(Got(s))
        /\ \A e \in Range(Got(s)) :
              /\ e <= inserted
              /\ \A c \in InStep(Hearing) : e <= inserted - Len(conns[c].wire)

\* What an attached subscriber has not got of the events it waits for is on the wire of
\* the client that listens (NothingMissed).
MissInv ==
    \A s \in Attached :
        since[s] # -1 /\ server # "crashed" =>
            \E c \in InStep(Hearing) :
                conns[c].alive =>
                    \A e \in Wants[s] \cap (since[s] + 1 .. inserted) :
                        e \in Range(Got(s)) \cup Range(conns[c].wire)

\* A client that opens or listens is there for somebody, unless it was abandoned.
ReleaseInv ==
    connectPromise => \/ abandoned
                      \/ \E s \in Subscriber : phase[s] \in {"attached", "leaving"}

\* The inductive invariant.
IInv == TypeOK /\ ConnInv /\ ClientInv /\ OrderInv /\ MissInv /\ ReleaseInv

------------------------------------------------------------------------------

\* Taking the first of b to the end of a leaves their concatenation as it is.
LEMMA HeadMoves ==
    ASSUME NEW S, NEW a \in Seq(S), NEW b \in Seq(S), b # <<>>
    PROVE  Append(a, Head(b)) \o Tail(b) = a \o b
  <1>1. Len(b) \in Nat \ {0} /\ Head(b) = b[1] /\ Head(b) \in S /\ Tail(b) \in Seq(S)
    BY EmptySeq, HeadTailProperties
  <1>2. 1 \in 1 .. Len(b) /\ Len(b) \in 1 .. Len(b) BY <1>1
  <1>3. SubSeq(b, 1, Len(b)) = <<b[1]>> \o SubSeq(b, 1 + 1, Len(b))
    BY <1>2, SubSeqRecursiveFirst
  <1>4. SubSeq(b, 1, Len(b)) = b /\ Tail(b) = SubSeq(b, 2, Len(b))
    BY SubSeqFull, TailIsSubSeq
  <1>5. b = <<Head(b)>> \o Tail(b) BY <1>1, <1>3, <1>4
  <1>6. <<Head(b)>> \in Seq(S) BY <1>1
  <1>7. Append(a, Head(b)) = a \o <<Head(b)>> BY <1>1, AppendIsConcat
  <1>8. (a \o <<Head(b)>>) \o Tail(b) = a \o (<<Head(b)>> \o Tail(b))
    BY <1>1, <1>6, ConcatAssociative
  <1> QED BY <1>5, <1>7, <1>8

\* What is appended to b is appended to the concatenation of a and b.
LEMMA AppendMoves ==
    ASSUME NEW a \in Seq(Nat), NEW b \in Seq(Nat), NEW e \in Nat
    PROVE  a \o Append(b, e) = Append(a \o b, e)
  <1>1. <<e>> \in Seq(Nat) OBVIOUS
  <1>2. a \o b \in Seq(Nat) BY ConcatProperties
  <1>3. Append(b, e) = b \o <<e>> /\ Append(a \o b, e) = (a \o b) \o <<e>>
    BY <1>2, AppendIsConcat
  <1> QED BY <1>1, <1>3, ConcatAssociative

\* Append adds one element to the range.
LEMMA AppendRange ==
    ASSUME NEW S, NEW a \in Seq(S), NEW e \in S
    PROVE  Range(Append(a, e)) = Range(a) \cup {e}
  <1> DEFINE b == Append(a, e)
  <1>1. Len(a) \in Nat /\ DOMAIN a = 1 .. Len(a) BY LenProperties
  <1>2. DOMAIN b = 1 .. Len(a) + 1 /\ b[Len(a) + 1] = e /\ \A i \in 1 .. Len(a) : b[i] = a[i]
    BY <1>1, AppendProperties, LenProperties
  <1> HIDE DEF b
  <1>3. Range(b) = Range(a) \cup {e} BY <1>1, <1>2 DEF Range
  <1> QED BY <1>3 DEF b

\* Appending an element above all others keeps a sequence ascending.
LEMMA AppendAscending ==
    ASSUME NEW a \in Seq(Nat), NEW e \in Nat, Ascending(a), \A x \in Range(a) : x < e
    PROVE  Ascending(Append(a, e))
  <1> DEFINE b == Append(a, e)
  <1>1. Len(a) \in Nat /\ DOMAIN a = 1 .. Len(a) BY LenProperties
  <1>2. DOMAIN b = 1 .. Len(a) + 1 /\ b[Len(a) + 1] = e /\ \A i \in 1 .. Len(a) : b[i] = a[i]
    BY <1>1, AppendProperties, LenProperties
  <1> HIDE DEF b
  <1>3. \A i \in 1 .. Len(a) : a[i] < e BY <1>1 DEF Range
  <1>4. Ascending(b) BY <1>1, <1>2, <1>3 DEF Ascending
  <1> QED BY <1>4 DEF b

\* What holds of the empty sequence.
LEMMA EmptyGot ==
    /\ <<>> \o <<>> = <<>> /\ Range(<<>>) = {} /\ Ascending(<<>>) /\ Len(<<>>) = 0
    /\ \A n : Ending(<<>>, n)
  BY ConcatEmptySeq, EmptySeq DEF Range, Ascending, Ending

\* A wire that ends in the last event does so when the next one is put on it.
LEMMA EndingAppend ==
    ASSUME NEW a \in Seq(Nat), NEW n \in Nat, NEW e \in Nat, e = n + 1
    PROVE  /\ Append(a, e) \in Seq(Nat) /\ Append(a, e) # <<>>
           /\ Len(a) \in Nat /\ Len(Append(a, e)) = Len(a) + 1
           /\ Ending(a, n) => Ending(Append(a, e), e)
  <1> DEFINE b == Append(a, e)
  <1>1. Len(a) \in Nat /\ DOMAIN a = 1 .. Len(a) BY LenProperties
  <1>2. /\ b \in Seq(Nat) /\ b # <<>> /\ Len(b) = Len(a) + 1 /\ b[Len(a) + 1] = e
        /\ \A i \in 1 .. Len(a) : b[i] = a[i]
    BY <1>1, AppendProperties, SMTT(30)
  <1>3. DOMAIN b = 1 .. Len(a) + 1 BY <1>2, LenProperties
  <1> HIDE DEF b
  <1>4. ASSUME Ending(a, n), NEW i \in 1 .. Len(a) + 1
        PROVE  b[i] = e - Len(b) + i
    <2>1. CASE i = Len(a) + 1 BY <1>1, <1>2, <2>1
    <2>2. CASE i # Len(a) + 1
      <3>1. i \in 1 .. Len(a) BY <1>1, <2>2
      <3>2. a[i] = n - Len(a) + i BY <1>1, <1>4, <3>1 DEF Ending
      <3> QED BY <1>1, <1>2, <3>1, <3>2
    <2> QED BY <2>1, <2>2
  <1>5. Ending(a, n) => Ending(b, e) BY <1>3, <1>4 DEF Ending
  <1> QED BY <1>1, <1>2, <1>5 DEF b

\* Taking the first event from a wire: the rest, and which event that was.
LEMMA EndingTail ==
    ASSUME NEW a \in Seq(Nat), NEW n \in Nat, a # <<>>
    PROVE  /\ Tail(a) \in Seq(Nat) /\ Len(a) \in Nat /\ Len(Tail(a)) = Len(a) - 1
           /\ Head(a) \in Nat
           /\ Range(a) = {Head(a)} \cup Range(Tail(a))
           /\ Ending(a, n) => Ending(Tail(a), n) /\ Head(a) = n - Len(a) + 1
  <1> DEFINE b == Tail(a)
  <1>1. /\ Len(a) \in Nat \ {0} /\ DOMAIN a = 1 .. Len(a) /\ Head(a) = a[1]
        /\ Head(a) \in Nat /\ b \in Seq(Nat) /\ Len(b) = Len(a) - 1
        /\ \A i \in 1 .. Len(b) : b[i] = a[i + 1]
    BY EmptySeq, HeadTailProperties, LenProperties
  <1>2. DOMAIN b = 1 .. Len(a) - 1 BY <1>1, LenProperties
  <1> HIDE DEF b
  <1>3. Range(a) = {Head(a)} \cup Range(b)
    <2>1. ASSUME NEW i \in 1 .. Len(a) PROVE a[i] \in {Head(a)} \cup Range(b)
      <3>1. CASE i = 1 BY <1>1, <3>1
      <3>2. CASE i # 1
        <4>1. i - 1 \in 1 .. Len(a) - 1 /\ (i - 1) + 1 = i BY <1>1, <3>2
        <4>2. b[i - 1] = a[i] BY <1>1, <4>1
        <4> QED BY <1>2, <4>1, <4>2 DEF Range
      <3> QED BY <3>1, <3>2
    <2>2. ASSUME NEW i \in 1 .. Len(a) - 1 PROVE b[i] \in Range(a)
      <3>1. i + 1 \in 1 .. Len(a) /\ b[i] = a[i + 1] BY <1>1
      <3> QED BY <1>1, <3>1 DEF Range
    <2>3. Head(a) \in Range(a) BY <1>1 DEF Range
    <2> QED BY <1>1, <1>2, <2>1, <2>2, <2>3, ZenonT(60) DEF Range
  <1>4. ASSUME Ending(a, n) PROVE Ending(b, n) /\ Head(a) = n - Len(a) + 1
    <2>1. ASSUME NEW i \in 1 .. Len(a) - 1 PROVE b[i] = n - Len(b) + i
      <3>1. i + 1 \in 1 .. Len(a) /\ b[i] = a[i + 1] BY <1>1
      <3>2. a[i + 1] = n - Len(a) + (i + 1) BY <1>1, <1>4, <3>1 DEF Ending
      <3> QED BY <1>1, <3>1, <3>2
    <2>2. Head(a) = n - Len(a) + 1 BY <1>1, <1>4, SMTT(30) DEF Ending
    <2> QED BY <1>2, <2>1, <2>2 DEF Ending
  <1> QED BY <1>1, <1>3, <1>4 DEF b

\* What a subscriber has got is a sequence of event numbers.
LEMMA GotFacts ==
    ASSUME TypeOK, NEW s \in Subscriber
    PROVE  /\ received[s] \in Seq(Nat) /\ queue[s] \in Seq(Nat) /\ Got(s) \in Seq(Nat)
           /\ Range(Got(s)) \subseteq Nat
  <1>1. received[s] \in Seq(Nat) /\ queue[s] \in Seq(Nat) BY DEF TypeOK
  <1>2. Got(s) \in Seq(Nat) BY <1>1, ConcatProperties DEF Got
  <1> QED BY <1>1, <1>2, RangeOfSeq

\* One client changes, the others stay.
LEMMA ConnChanged ==
    ASSUME TypeOK, NEW c \in DOMAIN conns, NEW new \in Conn,
           conns' = [conns EXCEPT ![c] = new]
    PROVE  /\ conns' \in Seq(Conn) /\ DOMAIN conns' = DOMAIN conns /\ conns'[c] = new
           /\ \A d \in DOMAIN conns : d # c => conns'[d] = conns[d]
  <1>1. conns \in Seq(Conn) /\ DOMAIN conns = 1 .. Len(conns) BY LenProperties DEF TypeOK
  <1>2. conns' \in Seq(Conn) BY <1>1, ExceptSeq
  <1>3. DOMAIN conns' = DOMAIN conns BY <1>1
  <1> QED BY <1>1, <1>2, <1>3

\* OrderInv survives a step that brings no event, to a subscriber or to a wire.
LEMMA OrderKept ==
    ASSUME TypeOK, OrderInv, inserted' = inserted,
           \A s \in Subscriber : Got(s)' = Got(s) \/ Got(s)' = <<>>,
           \A s \in Subscriber : pending'[s] => queue'[s] = <<>>,
           \A d \in InStep(Hearing)' :
              \/ conns'[d].wire = <<>>
              \/ d \in InStep(Hearing) /\ conns'[d].wire = conns[d].wire
    PROVE  OrderInv'
  <1> SUFFICES ASSUME NEW s \in Subscriber
               PROVE  /\ Ascending(Got(s)')
                      /\ \A e \in Range(Got(s)') :
                            /\ e <= inserted
                            /\ \A c \in InStep(Hearing)' : e <= inserted - Len(conns'[c].wire)
    BY DEF OrderInv, Ascending
  <1>1. CASE Got(s)' = <<>> BY <1>1, EmptyGot
  <1>2. CASE Got(s)' = Got(s)
    <2>1. Ascending(Got(s)') BY <1>2 DEF OrderInv
    <2>2. ASSUME NEW e \in Range(Got(s)), NEW c \in InStep(Hearing)'
          PROVE  e <= inserted - Len(conns'[c].wire)
      <3>1. CASE conns'[c].wire = <<>>
        <4>1. e \in Nat /\ inserted \in Nat BY GotFacts DEF TypeOK
        <4> QED BY <3>1, <4>1, EmptyGot DEF OrderInv
      <3> QED BY <3>1 DEF OrderInv
    <2> QED BY <1>2, <2>1, <2>2 DEF OrderInv
  <1> QED BY <1>1, <1>2

\* MissInv survives a step that takes no event away: every subscriber keeps what it has
\* or starts anew, and every listening client keeps its wire or loses its connection.
LEMMA MissKept ==
    ASSUME TypeOK, MissInv, inserted' = inserted, server # "crashed",
           \A s \in Attached' : since'[s] # -1 =>
              \/ s \in Attached /\ since'[s] = since[s] /\ Got(s)' = Got(s)
              \/ since'[s] = inserted /\ InStep(Hearing)' # {},
           \A d \in InStep(Hearing) :
              /\ d \in InStep(Hearing)'
              /\ conns'[d].alive => conns[d].alive /\ conns'[d].wire = conns[d].wire
    PROVE  MissInv'
  <1> SUFFICES ASSUME NEW s \in Attached', since'[s] # -1
               PROVE  \E c \in InStep(Hearing)' :
                         conns'[c].alive =>
                            \A e \in Wants[s] \cap (since'[s] + 1 .. inserted) :
                               e \in Range(Got(s)') \cup Range(conns'[c].wire)
    BY DEF MissInv, Range
  <1>1. CASE since'[s] = inserted /\ InStep(Hearing)' # {}
    <2>1. inserted + 1 .. inserted = {} BY DEF TypeOK
    <2> QED BY <1>1, <2>1
  <1>2. CASE s \in Attached /\ since'[s] = since[s] /\ Got(s)' = Got(s)
    <2>1. PICK c \in InStep(Hearing) :
              conns[c].alive =>
                 \A e \in Wants[s] \cap (since[s] + 1 .. inserted) :
                    e \in Range(Got(s)) \cup Range(conns[c].wire)
      BY <1>2 DEF MissInv
    <2> QED BY <1>2, <2>1
  <1> QED BY <1>1, <1>2

\* Both survive a step of the clients alone.
LEMMA BusKept ==
    ASSUME IInv, UNCHANGED <<busVars, inserted>>, server # "crashed",
           InStep(Hearing)' = InStep(Hearing),
           \A d \in InStep(Hearing) :
              \/ conns'[d].alive = conns[d].alive /\ conns'[d].wire = conns[d].wire
              \/ ~conns'[d].alive /\ conns'[d].wire = <<>>
    PROVE  OrderInv' /\ MissInv'
  <1>1. \A s \in Subscriber : Got(s)' = Got(s) BY DEF busVars, Got
  <1>2. Attached' = Attached /\ since' = since /\ Attached \subseteq Subscriber
    BY DEF busVars, Attached
  <1>3. \A s \in Subscriber : pending'[s] => queue'[s] = <<>>
    BY DEF busVars, OrderInv, IInv
  <1>4. OrderInv' BY <1>1, <1>3, OrderKept DEF IInv
  <1>5. MissInv' BY <1>1, <1>2, MissKept DEF IInv
  <1> QED BY <1>4, <1>5

------------------------------------------------------------------------------

\* At the start nobody listens and nobody has got anything.
LEMMA InitStep == ASSUME Init PROVE IInv
  <1>1. \A s \in Subscriber : Got(s) = <<>> BY EmptyGot DEF Init, Got
  <1>2. InStep(Opening) = {} /\ InStep({"listening"}) = {} /\ DOMAIN conns = {}
    BY DEF Init, InStep
  <1>3. TypeOK
    <2>1. <<>> \in Seq(Nat) /\ <<>> \in Seq(Conn) BY EmptySeq
    <2>2. queue \in [Subscriber -> Seq(Nat)] /\ received \in [Subscriber -> Seq(Nat)]
      BY <2>1 DEF Init
    <2>3. since \in [Subscriber -> Int] BY DEF Init
    <2> QED BY <2>1, <2>2, <2>3 DEF Init, TypeOK
  <1>4. OrderInv BY <1>1, EmptyGot DEF Init, OrderInv
  <1>5. ConnInv /\ ClientInv /\ MissInv /\ ReleaseInv
    BY <1>2 DEF Init, ConnInv, ClientInv, MissInv, ReleaseInv, Attached
  <1> QED BY <1>3, <1>4, <1>5 DEF IInv

\* A stutter changes nothing.
LEMMA StutterStep == ASSUME IInv, UNCHANGED vars PROVE IInv'
  BY DEF IInv, vars, busVars, clientVars, TypeOK, ConnInv, ClientInv, OrderInv, MissInv,
         ReleaseInv, Got, Attached, InStep, Sound, Ascending

\* connect() is done: the client stays the only one that opens.
LEMMA ConnectedStep == ASSUME IInv, Connected PROVE IInv'
  <1> USE DEF IInv
  <1>1. PICK c \in InStep({"connect"}) :
            conns' = [conns EXCEPT ![c].step = "listen", ![c].wired = TRUE]
    BY DEF Connected
  <1> DEFINE new == [conns[c] EXCEPT !.step = "listen", !.wired = TRUE]
  <1>2. c \in DOMAIN conns /\ conns[c].step = "connect" /\ conns[c] \in Conn
    BY DEF InStep, TypeOK
  <1>3. new \in Conn /\ conns' = [conns EXCEPT ![c] = new]
        /\ new.step = "listen" /\ new.wired /\ new.alive = conns[c].alive
        /\ new.wire = conns[c].wire
    BY <1>1, <1>2 DEF Conn, Steps, TypeOK
  <1> HIDE DEF new
  <1>4. /\ conns' \in Seq(Conn) /\ DOMAIN conns' = DOMAIN conns /\ conns'[c] = new
        /\ \A d \in DOMAIN conns : d # c => conns'[d] = conns[d]
    BY <1>2, <1>3, ConnChanged
  <1>5. InStep(Hearing)' = InStep(Hearing) /\ InStep(Opening)' = InStep(Opening)
        /\ InStep({"listening"})' = InStep({"listening"}) /\ c \notin InStep(Hearing)
    BY <1>2, <1>3, <1>4 DEF InStep, Hearing, Opening
  <1>6. UNCHANGED <<busVars, client, connectPromise, abandoned, inserted, server>>
        /\ server # "crashed"
    BY DEF Connected, Running
  <1>7. TypeOK' BY <1>4, <1>6 DEF TypeOK, busVars
  <1>8. ConnInv'
    <2>1. Sound(new, inserted) BY <1>2, <1>3 DEF ConnInv, Sound, Hearing
    <2> QED BY <2>1, <1>4, <1>6 DEF ConnInv, Sound
  <1>9. ClientInv' BY <1>5, <1>6 DEF ClientInv
  <1>10. OrderInv' /\ MissInv'
    <2>1. \A d \in InStep(Hearing) : conns'[d] = conns[d] BY <1>4, <1>5 DEF InStep
    <2> QED BY <1>5, <1>6, <2>1, BusKept
  <1>11. ReleaseInv' BY <1>6 DEF ReleaseInv, busVars
  <1> QED BY <1>7, <1>8, <1>9, <1>10, <1>11

\* LISTEN is executed: as no other client listens, nobody was listened for so far, and
\* everybody attached is from now on.
LEMMA HeardStep == ASSUME IInv, Heard PROVE IInv'
  <1> USE DEF IInv
  <1>1. PICK c \in InStep({"listen"}) : conns' = Moved(c, "heard")
    BY DEF Heard
  <1> DEFINE new == [conns[c] EXCEPT !.step = "heard"]
  <1>2. c \in DOMAIN conns /\ conns[c].step = "listen" /\ conns[c] \in Conn
    BY DEF InStep, TypeOK
  <1>3. new \in Conn /\ conns' = [conns EXCEPT ![c] = new]
        /\ new.step = "heard" /\ new.wired = conns[c].wired /\ new.alive = conns[c].alive
        /\ new.wire = conns[c].wire
    BY <1>1, <1>2 DEF Conn, Steps, TypeOK, Moved
  <1> HIDE DEF new
  <1>4. /\ conns' \in Seq(Conn) /\ DOMAIN conns' = DOMAIN conns /\ conns'[c] = new
        /\ \A d \in DOMAIN conns : d # c => conns'[d] = conns[d]
    BY <1>2, <1>3, ConnChanged
  <1>5. /\ InStep(Opening)' = InStep(Opening) /\ c \in InStep(Opening)
        /\ InStep({"listening"})' = InStep({"listening"})
        /\ InStep(Hearing)' = InStep(Hearing) \cup {c} /\ c \notin InStep(Hearing)
    BY <1>2, <1>3, <1>4 DEF InStep, Hearing, Opening
  <1>6. /\ UNCHANGED <<phase, queue, pending, received, client, connectPromise, abandoned,
                       inserted, server>>
        /\ server # "crashed"
        /\ since' = [s \in Subscriber |->
                        IF s \in Attached /\ since[s] = -1 THEN inserted ELSE since[s]]
    BY DEF Heard, Running
  <1>7. TypeOK' BY <1>4, <1>6 DEF TypeOK
  <1>8. ConnInv'
    <2>1. new.wire = <<>> /\ Sound(conns[c], inserted) BY <1>2, <1>3 DEF ConnInv, Sound
    <2>2. Ending(new.wire, inserted) BY <2>1, EmptyGot
    <2>3. Sound(new, inserted) BY <1>2, <1>3, <2>1, <2>2 DEF Sound, Hearing
    <2> QED BY <2>3, <1>4, <1>6 DEF ConnInv, Sound
  <1>9. ClientInv' BY <1>5, <1>6 DEF ClientInv
  <1>10. InStep(Hearing) = {}
    <2>1. InStep(Hearing) \subseteq InStep(Opening) BY DEF InStep, Hearing, Opening
    <2> QED BY <2>1, <1>5 DEF ClientInv
  <1>11. \A s \in Subscriber : Got(s)' = Got(s) BY <1>6 DEF Got
  <1>12. OrderInv'
    <2>1. conns'[c].wire = <<>> BY <1>2, <1>3, <1>4 DEF ConnInv, Sound
    <2>2. \A s \in Subscriber : pending'[s] => queue'[s] = <<>> BY <1>6 DEF OrderInv
    <2> QED BY <1>5, <1>6, <1>10, <1>11, <2>1, <2>2, OrderKept
  <1>13. MissInv'
    <2>1. Attached' = Attached /\ Attached \subseteq Subscriber BY <1>6 DEF Attached
    <2>2. \A s \in Attached : since[s] = -1 BY <1>6, <1>10 DEF MissInv
    <2>3. \A s \in Attached' : since'[s] = inserted BY <1>6, <2>1, <2>2
    <2> QED BY <1>5, <1>6, <1>10, <2>3, MissKept
  <1>14. ReleaseInv' BY <1>6 DEF ReleaseInv
  <1> QED BY <1>7, <1>8, <1>9, <1>12, <1>13, <1>14

\* LISTEN is acknowledged: the only client that opens becomes the listener.
LEMMA ListeningStep == ASSUME IInv, Listening PROVE IInv'
  <1> USE DEF IInv
  <1>1. PICK c \in InStep({"heard"}) : client' = c /\ conns' = Moved(c, "listening")
    BY DEF Listening
  <1> DEFINE new == [conns[c] EXCEPT !.step = "listening"]
  <1>2. c \in DOMAIN conns /\ conns[c].step = "heard" /\ conns[c] \in Conn
    BY DEF InStep, TypeOK
  <1>3. new \in Conn /\ conns' = [conns EXCEPT ![c] = new]
        /\ new.step = "listening" /\ new.wired = conns[c].wired /\ new.alive = conns[c].alive
        /\ new.wire = conns[c].wire
    BY <1>1, <1>2 DEF Conn, Steps, TypeOK, Moved
  <1> HIDE DEF new
  <1>4. /\ conns' \in Seq(Conn) /\ DOMAIN conns' = DOMAIN conns /\ conns'[c] = new
        /\ \A d \in DOMAIN conns : d # c => conns'[d] = conns[d]
    BY <1>2, <1>3, ConnChanged
  <1>5. /\ InStep(Opening)' = InStep(Opening) /\ c \in InStep(Opening)
        /\ c \in InStep({"listening"})' /\ c \notin InStep({"listening"})
        /\ InStep(Hearing)' = InStep(Hearing)
    BY <1>2, <1>3, <1>4 DEF InStep, Hearing, Opening
  <1>6. UNCHANGED <<busVars, connectPromise, abandoned, inserted, server>>
        /\ server # "crashed"
    BY DEF Listening, Running
  <1>7. TypeOK'
    <2>1. DOMAIN conns = 1 .. Len(conns) /\ Len(conns) \in Nat BY LenProperties DEF TypeOK
    <2>2. client' \in Nat /\ client' # 0 BY <1>1, <1>2, <2>1
    <2> QED BY <1>4, <1>6, <2>2 DEF TypeOK, busVars
  <1>8. ConnInv'
    <2>1. Sound(new, inserted) BY <1>2, <1>3 DEF ConnInv, Sound, Hearing
    <2> QED BY <2>1, <1>4, <1>6 DEF ConnInv, Sound
  <1>9. ClientInv'
    <2>1. connectPromise BY <1>5, <1>6 DEF ClientInv
    <2>2. client' # 0
      <3>1. DOMAIN conns = 1 .. Len(conns) /\ Len(conns) \in Nat BY LenProperties DEF TypeOK
      <3> QED BY <1>1, <1>2, <3>1
    <2> QED BY <1>1, <1>5, <1>6, <2>1, <2>2 DEF ClientInv
  <1>10. OrderInv' /\ MissInv'
    <2>1. \A d \in InStep(Hearing) :
             conns'[d].alive = conns[d].alive /\ conns'[d].wire = conns[d].wire
      BY <1>3, <1>4 DEF InStep
    <2> QED BY <1>5, <1>6, <2>1, BusKept
  <1>11. ReleaseInv' BY <1>6 DEF ReleaseInv, busVars
  <1> QED BY <1>7, <1>8, <1>9, <1>10, <1>11

\* Connecting fails, which ends the process.
LEMMA ConnectFailsStep == ASSUME IInv, ConnectFails PROVE IInv'
  <1> USE DEF IInv
  <1>1. /\ UNCHANGED <<busVars, client, conns, abandoned, inserted>>
        /\ server # "crashed" /\ server' = "crashed" /\ connectPromise' = FALSE
        /\ InStep({"connect", "listen", "heard"}) # {}
    BY DEF ConnectFails, Running
  <1>2. \A set : InStep(set)' = InStep(set) BY <1>1 DEF InStep
  <1>3. client = 0
    <2>1. PICK c \in InStep({"connect", "listen", "heard"}) : TRUE BY <1>1
    <2>2. c \in InStep(Opening) /\ c \notin InStep({"listening"})
          /\ InStep({"listening"}) \subseteq InStep(Opening)
      BY DEF InStep, Opening
    <2> QED BY <2>2 DEF ClientInv
  <1>4. TypeOK' BY <1>1 DEF TypeOK, busVars
  <1>5. ConnInv' BY <1>1 DEF ConnInv, Sound
  <1>6. ClientInv' BY <1>1, <1>2, <1>3 DEF ClientInv
  <1>7. OrderInv' /\ MissInv' BY <1>1, <1>2, BusKept
  <1>8. ReleaseInv' BY <1>1 DEF ReleaseInv
  <1> QED BY <1>4, <1>5, <1>6, <1>7, <1>8

\* UNLISTEN is answered: the client was not listening any more.
LEMMA UnlistenedStep == ASSUME IInv, Unlistened PROVE IInv'
  <1> USE DEF IInv
  <1>1. PICK c \in InStep({"unlisten"}) : conns' = Moved(c, "end")
    BY DEF Unlistened
  <1> DEFINE new == [conns[c] EXCEPT !.step = "end"]
  <1>2. c \in DOMAIN conns /\ conns[c].step = "unlisten" /\ conns[c] \in Conn
    BY DEF InStep, TypeOK
  <1>3. new \in Conn /\ conns' = [conns EXCEPT ![c] = new]
        /\ new.step = "end" /\ new.wired = conns[c].wired /\ new.alive = conns[c].alive
        /\ new.wire = conns[c].wire
    BY <1>1, <1>2 DEF Conn, Steps, TypeOK, Moved
  <1> HIDE DEF new
  <1>4. /\ conns' \in Seq(Conn) /\ DOMAIN conns' = DOMAIN conns /\ conns'[c] = new
        /\ \A d \in DOMAIN conns : d # c => conns'[d] = conns[d]
    BY <1>2, <1>3, ConnChanged
  <1>5. /\ InStep(Opening)' = InStep(Opening) /\ InStep(Hearing)' = InStep(Hearing)
        /\ InStep({"listening"})' = InStep({"listening"}) /\ c \notin InStep(Hearing)
    BY <1>2, <1>3, <1>4 DEF InStep, Hearing, Opening
  <1>6. UNCHANGED <<busVars, client, connectPromise, abandoned, inserted, server>>
        /\ server # "crashed"
    BY DEF Unlistened, Running
  <1>7. TypeOK' BY <1>4, <1>6 DEF TypeOK, busVars
  <1>8. ConnInv'
    <2>1. Sound(new, inserted) BY <1>2, <1>3 DEF ConnInv, Sound, Hearing
    <2> QED BY <2>1, <1>4, <1>6 DEF ConnInv, Sound
  <1>9. ClientInv' BY <1>5, <1>6 DEF ClientInv
  <1>10. OrderInv' /\ MissInv'
    <2>1. \A d \in InStep(Hearing) : conns'[d] = conns[d] BY <1>4, <1>5 DEF InStep
    <2> QED BY <1>5, <1>6, <2>1, BusKept
  <1>11. ReleaseInv' BY <1>6 DEF ReleaseInv, busVars
  <1> QED BY <1>7, <1>8, <1>9, <1>10, <1>11

\* A closed client ends.
LEMMA EndedStep == ASSUME IInv, Ended PROVE IInv'
  <1> USE DEF IInv
  <1>1. PICK c \in InStep({"end"}) :
            conns' = [conns EXCEPT ![c] = [@ EXCEPT !.step = "ended", !.alive = FALSE,
                                                    !.wire = <<>>]]
    BY DEF Ended
  <1> DEFINE new == [conns[c] EXCEPT !.step = "ended", !.alive = FALSE, !.wire = <<>>]
  <1>2. c \in DOMAIN conns /\ conns[c].step = "end" /\ conns[c] \in Conn
    BY DEF InStep, TypeOK
  <1>3. new \in Conn /\ conns' = [conns EXCEPT ![c] = new]
        /\ new.step = "ended" /\ new.wired = conns[c].wired /\ ~new.alive /\ new.wire = <<>>
    BY <1>1, <1>2, EmptySeq DEF Conn, Steps, TypeOK
  <1> HIDE DEF new
  <1>4. /\ conns' \in Seq(Conn) /\ DOMAIN conns' = DOMAIN conns /\ conns'[c] = new
        /\ \A d \in DOMAIN conns : d # c => conns'[d] = conns[d]
    BY <1>2, <1>3, ConnChanged
  <1>5. /\ InStep(Opening)' = InStep(Opening) /\ InStep(Hearing)' = InStep(Hearing)
        /\ InStep({"listening"})' = InStep({"listening"}) /\ c \notin InStep(Hearing)
    BY <1>2, <1>3, <1>4 DEF InStep, Hearing, Opening
  <1>6. UNCHANGED <<busVars, client, connectPromise, abandoned, inserted, server>>
        /\ server # "crashed"
    BY DEF Ended, Running
  <1>7. TypeOK' BY <1>4, <1>6 DEF TypeOK, busVars
  <1>8. ConnInv'
    <2>1. Sound(new, inserted) BY <1>2, <1>3 DEF ConnInv, Sound, Hearing
    <2> QED BY <2>1, <1>4, <1>6 DEF ConnInv, Sound
  <1>9. ClientInv' BY <1>5, <1>6 DEF ClientInv
  <1>10. OrderInv' /\ MissInv'
    <2>1. \A d \in InStep(Hearing) : conns'[d] = conns[d] BY <1>4, <1>5 DEF InStep
    <2> QED BY <1>5, <1>6, <2>1, BusKept
  <1>11. ReleaseInv' BY <1>6 DEF ReleaseInv, busVars
  <1> QED BY <1>7, <1>8, <1>9, <1>10, <1>11

\* A connection is lost, and with it what was on its wire.
LEMMA ConnectionLostStep == ASSUME IInv, ConnectionLost PROVE IInv'
  <1> USE DEF IInv
  <1>1. PICK c \in InStep({"listening", "unlisten"}) :
            /\ conns[c].alive
            /\ conns' = [conns EXCEPT ![c].alive = FALSE, ![c].wire = <<>>]
            /\ server' = IF conns[c].wired THEN server ELSE "crashed"
    BY DEF ConnectionLost
  <1> DEFINE new == [conns[c] EXCEPT !.alive = FALSE, !.wire = <<>>]
  <1>2. c \in DOMAIN conns /\ conns[c].step \in {"listening", "unlisten"} /\ conns[c] \in Conn
    BY DEF InStep, TypeOK
  <1>3. new \in Conn /\ conns' = [conns EXCEPT ![c] = new]
        /\ new.step = conns[c].step /\ new.wired = conns[c].wired
        /\ ~new.alive /\ new.wire = <<>>
    BY <1>1, <1>2, EmptySeq DEF Conn, Steps, TypeOK
  <1> HIDE DEF new
  <1>4. /\ conns' \in Seq(Conn) /\ DOMAIN conns' = DOMAIN conns /\ conns'[c] = new
        /\ \A d \in DOMAIN conns : d # c => conns'[d] = conns[d]
    BY <1>2, <1>3, ConnChanged
  <1>5. /\ InStep(Opening)' = InStep(Opening) /\ InStep(Hearing)' = InStep(Hearing)
        /\ InStep({"listening"})' = InStep({"listening"})
    BY <1>2, <1>3, <1>4 DEF InStep, Hearing, Opening
  <1>6. UNCHANGED <<busVars, client, connectPromise, abandoned, inserted>>
        /\ server # "crashed" /\ server' \in {server, "crashed"}
    BY <1>1 DEF ConnectionLost, Running
  <1>7. TypeOK' BY <1>4, <1>6 DEF TypeOK, busVars
  <1>8. ConnInv'
    <2>1. Ending(new.wire, inserted) BY <1>3, EmptyGot
    <2>2. Sound(new, inserted) BY <1>2, <1>3, <2>1 DEF ConnInv, Sound, Hearing
    <2> QED BY <2>2, <1>4, <1>6 DEF ConnInv, Sound
  <1>9. ClientInv' BY <1>5, <1>6 DEF ClientInv
  <1>10. OrderInv' /\ MissInv'
    <2>1. \A d \in InStep(Hearing) :
             \/ conns'[d].alive = conns[d].alive /\ conns'[d].wire = conns[d].wire
             \/ ~conns'[d].alive /\ conns'[d].wire = <<>>
      BY <1>3, <1>4 DEF InStep
    <2> QED BY <1>5, <1>6, <2>1, BusKept
  <1>11. ReleaseInv' BY <1>6 DEF ReleaseInv, busVars
  <1> QED BY <1>7, <1>8, <1>9, <1>10, <1>11

\* close() with nobody attached: the listener, if there is one, stops opening or
\* listening; if it is still connecting, it is abandoned.
LEMMA CloseStep ==
    ASSUME IInv, Close, Attached = {}, Attached' = {}, server # "crashed",
           server' \in {"open", "closing", "closed"},
           phase' \in [Subscriber -> {"off", "attached", "leaving"}],
           UNCHANGED <<queue, pending, received, since, inserted>>
    PROVE  IInv'
  <1> USE DEF IInv
  <1>1. CASE client = 0
    <2>1. UNCHANGED <<client, connectPromise, conns>> /\ abandoned' = connectPromise
      BY <1>1 DEF Close, TypeOK
    <2>2. \A set : InStep(set)' = InStep(set) BY <2>1 DEF InStep
    <2>3. TypeOK' BY <2>1 DEF TypeOK
    <2>4. ConnInv' /\ ClientInv' BY <2>1, <2>2 DEF ConnInv, ClientInv, Sound
    <2>5. OrderInv' BY <2>1, <2>2 DEF OrderInv, Got, Ascending
    <2>6. MissInv' /\ ReleaseInv' BY <2>1 DEF MissInv, ReleaseInv
    <2> QED BY <2>3, <2>4, <2>5, <2>6
  <1>2. CASE client # 0
    <2> DEFINE new == [conns[client] EXCEPT !.step = "unlisten", !.wired = FALSE]
    <2>1. /\ client' = 0 /\ connectPromise' = FALSE /\ abandoned' = FALSE
          /\ conns' = [conns EXCEPT ![client].step = "unlisten", ![client].wired = FALSE]
      BY <1>2 DEF Close
    <2>2. client \in DOMAIN conns /\ conns[client].step = "listening"
          /\ conns[client] \in Conn
      BY <1>2 DEF ClientInv, InStep, TypeOK
    <2>3. new \in Conn /\ conns' = [conns EXCEPT ![client] = new]
          /\ new.step = "unlisten" /\ ~new.wired /\ new.alive = conns[client].alive
          /\ new.wire = conns[client].wire
      BY <2>1, <2>2 DEF Conn, Steps, TypeOK
    <2> HIDE DEF new
    <2>4. /\ conns' \in Seq(Conn) /\ DOMAIN conns' = DOMAIN conns /\ conns'[client] = new
          /\ \A d \in DOMAIN conns : d # client => conns'[d] = conns[d]
      BY <2>2, <2>3, ConnChanged
    <2>5. InStep(Opening) = {client} BY <2>2 DEF ClientInv, InStep, Opening
    <2>6. InStep(Opening)' = {} BY <2>3, <2>4, <2>5 DEF InStep, Opening
    <2>7. InStep(Hearing)' = {} /\ InStep({"listening"})' = {}
      BY <2>6 DEF InStep, Opening, Hearing
    <2>8. TypeOK' BY <2>1, <2>4 DEF TypeOK
    <2>9. ConnInv'
      <3>1. Sound(new, inserted) BY <2>2, <2>3 DEF ConnInv, Sound, Hearing
      <3> QED BY <3>1, <2>4 DEF ConnInv, Sound
    <2>10. ClientInv' BY <2>1, <2>6, <2>7 DEF ClientInv
    <2>11. OrderInv' BY <2>7 DEF OrderInv, Got, Ascending
    <2>12. MissInv' /\ ReleaseInv' BY <2>1 DEF MissInv, ReleaseInv
    <2> QED BY <2>8, <2>9, <2>10, <2>11, <2>12
  <1> QED BY <1>1, <1>2

\* close() at the end of the shutdown.
LEMMA CloseSourceStep == ASSUME IInv, CloseSource PROVE IInv'
  <1>1. Attached' = Attached BY DEF CloseSource, busVars, Attached
  <1> QED BY <1>1, CloseStep DEF CloseSource, busVars, IInv, TypeOK

\* A subscriber has left: close() if nobody is attached.
LEMMA FinishStep == ASSUME IInv, NEW s \in Subscriber, Finish(s) PROVE IInv'
  <1> USE DEF IInv
  <1>1. /\ phase[s] = "leaving" /\ phase' = [phase EXCEPT ![s] = "off"]
        /\ UNCHANGED <<queue, pending, received, since, inserted, server>>
        /\ server # "crashed" /\ server \in {"open", "closing", "closed"}
    BY DEF Finish, Running
  <1>2. phase' \in [Subscriber -> {"off", "attached", "leaving"}] /\ Attached' = Attached
    BY <1>1 DEF TypeOK, Attached
  <1>3. CASE Attached = {}
    <2>1. Close BY <1>3 DEF Finish
    <2> QED BY <1>1, <1>2, <1>3, <2>1, CloseStep
  <1>4. CASE Attached # {}
    <2>1. UNCHANGED clientVars BY <1>4 DEF Finish
    <2>2. \A set : InStep(set)' = InStep(set) BY <2>1 DEF InStep, clientVars
    <2>3. TypeOK' BY <1>1, <1>2, <2>1 DEF TypeOK, clientVars
    <2>4. ConnInv' /\ ClientInv'
      BY <1>1, <2>1, <2>2 DEF ConnInv, ClientInv, clientVars, Sound
    <2>5. OrderInv' BY <1>1, <2>1, <2>2 DEF OrderInv, Got, Ascending, clientVars
    <2>6. \A r \in Subscriber : Got(r)' = Got(r) BY <1>1 DEF Got
    <2>7. MissInv'
      <3>1. Attached \subseteq Subscriber BY DEF Attached
      <3> QED BY <1>1, <1>2, <2>1, <2>2, <2>6, <3>1, MissKept DEF clientVars
    <2>8. ReleaseInv' BY <1>1, <1>2, <1>4 DEF ReleaseInv, Attached
    <2> QED BY <2>3, <2>4, <2>5, <2>7, <2>8
  <1> QED BY <1>3, <1>4

\* Shutdown only closes the door.
LEMMA ShutdownStep == ASSUME IInv, Shutdown PROVE IInv'
  <1> USE DEF IInv
  <1>1. UNCHANGED <<busVars, clientVars, inserted>> /\ server # "crashed"
        /\ server' = "closing"
    BY DEF Shutdown
  <1>2. \A set : InStep(set)' = InStep(set) BY <1>1 DEF InStep, clientVars
  <1>3. TypeOK' BY <1>1 DEF TypeOK, busVars, clientVars
  <1>4. ConnInv' /\ ClientInv' BY <1>1, <1>2 DEF ConnInv, ClientInv, clientVars, Sound
  <1>5. OrderInv' /\ MissInv' BY <1>1, <1>2, BusKept DEF clientVars
  <1>6. ReleaseInv' BY <1>1 DEF ReleaseInv, busVars, clientVars
  <1> QED BY <1>3, <1>4, <1>5, <1>6

\* A subscriber leaves and forgets what it has got.
LEMMA LeaveStep == ASSUME IInv, NEW s \in Subscriber, Leave(s) PROVE IInv'
  <1> USE DEF IInv
  <1>1. /\ phase' = [phase EXCEPT ![s] = "leaving"]
        /\ pending' = [pending EXCEPT ![s] = FALSE]
        /\ queue' = [queue EXCEPT ![s] = <<>>] /\ received' = [received EXCEPT ![s] = <<>>]
        /\ since' = [since EXCEPT ![s] = -1]
        /\ UNCHANGED <<clientVars, inserted, server>> /\ server # "crashed"
    BY DEF Leave, Running
  <1>2. \A set : InStep(set)' = InStep(set) BY <1>1 DEF InStep, clientVars
  <1>3. TypeOK'
    <2>1. <<>> \in Seq(Nat) BY EmptySeq
    <2>2. queue' \in [Subscriber -> Seq(Nat)] /\ received' \in [Subscriber -> Seq(Nat)]
      BY <1>1, <2>1 DEF TypeOK
    <2> QED BY <1>1, <2>2 DEF TypeOK, clientVars
  <1>4. ConnInv' /\ ClientInv' BY <1>1, <1>2 DEF ConnInv, ClientInv, clientVars, Sound
  <1>5. Got(s)' = <<>> /\ \A r \in Subscriber : r # s => Got(r)' = Got(r)
    <2>1. queue'[s] = <<>> /\ received'[s] = <<>> BY <1>1 DEF TypeOK
    <2> QED BY <1>1, <2>1, EmptyGot DEF Got, TypeOK
  <1>6. OrderInv'
    <2>1. \A r \in Subscriber : pending'[r] => queue'[r] = <<>>
      BY <1>1 DEF OrderInv, TypeOK
    <2> QED BY <1>1, <1>2, <1>5, <2>1, OrderKept DEF clientVars
  <1>7. MissInv'
    <2>1. \A r \in Attached' : r \in Subscriber /\ r # s /\ r \in Attached /\ since'[r] = since[r]
      BY <1>1 DEF Attached, TypeOK
    <2> QED BY <1>1, <1>2, <1>5, <2>1, MissKept DEF clientVars
  <1>8. ReleaseInv'
    <2>1. phase'[s] = "leaving" BY <1>1 DEF TypeOK
    <2> QED BY <2>1 DEF ReleaseInv
  <1> QED BY <1>3, <1>4, <1>6, <1>7, <1>8

\* next(): an event moves from the queue to what is received.
LEMMA PullStep == ASSUME IInv, NEW s \in Subscriber, Pull(s) PROVE IInv'
  <1> USE DEF IInv
  <1>1. UNCHANGED <<phase, since, clientVars, inserted, server>> /\ server # "crashed"
    BY DEF Pull, Running
  <1>2. /\ queue' \in [Subscriber -> Seq(Nat)] /\ received' \in [Subscriber -> Seq(Nat)]
        /\ pending' \in [Subscriber -> BOOLEAN]
        /\ \A r \in Subscriber : Got(r)' = Got(r)
        /\ \A r \in Subscriber : pending'[r] => queue'[r] = <<>>
    <2>1. CASE queue[s] = <<>>
      <3>1. pending' = [pending EXCEPT ![s] = TRUE] /\ UNCHANGED <<queue, received>>
        BY <2>1 DEF Pull
      <3> QED BY <2>1, <3>1 DEF Got, TypeOK, OrderInv
    <2>2. CASE queue[s] # <<>>
      <3>1. /\ received' = [received EXCEPT ![s] = Append(received[s], Head(queue[s]))]
            /\ queue' = [queue EXCEPT ![s] = Tail(queue[s])]
            /\ pending' = pending
        BY <2>2 DEF Pull
      <3>2. received[s] \in Seq(Nat) /\ queue[s] \in Seq(Nat) BY DEF TypeOK
      <3>3. Head(queue[s]) \in Nat /\ Tail(queue[s]) \in Seq(Nat)
            /\ Append(received[s], Head(queue[s])) \in Seq(Nat)
        BY <2>2, <3>2, HeadTailProperties, AppendProperties
      <3>4. queue'[s] = Tail(queue[s]) /\ received'[s] = Append(received[s], Head(queue[s]))
        BY <3>1 DEF TypeOK
      <3>5. Got(s)' = Got(s) BY <2>2, <3>2, <3>4, HeadMoves DEF Got
      <3>6. \A r \in Subscriber : r # s => Got(r)' = Got(r) BY <3>1 DEF Got, TypeOK
      <3>7. queue' \in [Subscriber -> Seq(Nat)] /\ received' \in [Subscriber -> Seq(Nat)]
        BY <3>1, <3>3 DEF TypeOK
      <3>8. ~pending[s] BY DEF Pull
      <3> QED BY <3>1, <3>5, <3>6, <3>7, <3>8 DEF TypeOK, OrderInv
    <2> QED BY <2>1, <2>2
  <1>3. \A set : InStep(set)' = InStep(set) BY <1>1 DEF InStep, clientVars
  <1>4. TypeOK' BY <1>1, <1>2 DEF TypeOK, clientVars
  <1>5. ConnInv' /\ ClientInv' BY <1>1, <1>3 DEF ConnInv, ClientInv, clientVars, Sound
  <1>6. OrderInv' BY <1>1, <1>2, <1>3, OrderKept DEF clientVars
  <1>7. MissInv'
    <2>1. Attached' = Attached /\ Attached \subseteq Subscriber BY <1>1 DEF Attached
    <2> QED BY <1>1, <1>2, <1>3, <2>1, MissKept DEF clientVars
  <1>8. ReleaseInv' BY <1>1 DEF ReleaseInv, clientVars
  <1> QED BY <1>4, <1>5, <1>6, <1>7, <1>8

\* A subscriber comes: it finds a client, or one that opens, or has one opened.
LEMMA SubscribeStep == ASSUME IInv, NEW s \in Subscriber, Subscribe(s) PROVE IInv'
  <1> USE DEF IInv
  <1>1. /\ server = "open" /\ phase[s] = "off" /\ EnsureConnected
        /\ phase' = [phase EXCEPT ![s] = "attached"]
        /\ since' = [since EXCEPT ![s] =
                        IF InStep({"heard", "listening"}) # {} THEN inserted ELSE -1]
        /\ UNCHANGED <<queue, pending, received, inserted, server>>
    BY DEF Subscribe
  <1>2. /\ conns' \in Seq(Conn) /\ ConnInv' /\ ClientInv'
        /\ connectPromise' \in BOOLEAN /\ UNCHANGED <<client, abandoned>>
        /\ InStep(Hearing)' = InStep(Hearing)
        /\ \A d \in InStep(Hearing) : conns'[d] = conns[d]
    <2>1. CASE client # 0 \/ connectPromise
      <3>1. UNCHANGED clientVars BY <2>1, <1>1 DEF EnsureConnected
      <3>2. \A set : InStep(set)' = InStep(set) BY <3>1 DEF InStep, clientVars
      <3> QED BY <1>1, <3>1, <3>2 DEF ConnInv, ClientInv, clientVars, TypeOK, Sound
    <2>2. CASE ~(client # 0 \/ connectPromise)
      <3> DEFINE new == [step |-> "connect", wired |-> FALSE, alive |-> TRUE, wire |-> <<>>]
      <3>1. /\ connectPromise' = TRUE /\ conns' = Append(conns, new)
            /\ UNCHANGED <<client, abandoned>>
        BY <2>2, <1>1 DEF EnsureConnected
      <3>2. new \in Conn
        <4>1. <<>> \in Seq(Nat) BY EmptySeq
        <4> QED BY <4>1 DEF Conn, Steps
      <3>3. new.step = "connect" /\ ~new.wired /\ new.alive /\ new.wire = <<>> OBVIOUS
      <3> HIDE DEF new
      <3>4. conns \in Seq(Conn) /\ DOMAIN conns = 1 .. Len(conns) /\ Len(conns) \in Nat
        BY LenProperties DEF TypeOK
      <3>5. /\ conns' \in Seq(Conn) /\ DOMAIN conns' = 1 .. Len(conns) + 1
            /\ conns'[Len(conns) + 1] = new
            /\ \A d \in 1 .. Len(conns) : conns'[d] = conns[d]
        BY <3>1, <3>2, <3>4, AppendProperties, LenProperties
      <3>6. InStep(Opening) = {} BY <1>1, <2>2 DEF ClientInv
      <3>7. InStep(Opening)' = {Len(conns) + 1}
        BY <3>3, <3>4, <3>5, <3>6 DEF InStep, Opening
      <3>8. InStep(Hearing)' = InStep(Hearing) /\ InStep({"listening"})' = InStep({"listening"})
            /\ InStep(Hearing) = {}
        BY <3>3, <3>4, <3>5, <3>6 DEF InStep, Opening, Hearing
      <3>9. ConnInv'
        <4>1. Sound(new, inserted) BY <3>3 DEF Sound, Hearing
        <4> QED BY <1>1, <3>4, <3>5, <4>1 DEF ConnInv, Sound
      <3>10. ClientInv' BY <1>1, <2>2, <3>1, <3>7, <3>8 DEF ClientInv
      <3> QED BY <3>1, <3>5, <3>8, <3>9, <3>10
    <2> QED BY <2>1, <2>2
  <1>3. TypeOK'
    <2>1. inserted \in Int /\ -1 \in Int BY DEF TypeOK
    <2>2. since' \in [Subscriber -> Int] BY <1>1, <2>1 DEF TypeOK
    <2> QED BY <1>1, <1>2, <2>2 DEF TypeOK
  <1>4. \A r \in Subscriber : Got(r)' = Got(r) BY <1>1 DEF Got
  <1>5. OrderInv'
    <2>1. \A r \in Subscriber : pending'[r] => queue'[r] = <<>> BY <1>1 DEF OrderInv
    <2> QED BY <1>1, <1>2, <1>4, <2>1, OrderKept
  <1>6. MissInv'
    <2>1. ASSUME NEW r \in Attached', since'[r] # -1
          PROVE  \/ r \in Attached /\ since'[r] = since[r] /\ Got(r)' = Got(r)
                 \/ since'[r] = inserted /\ InStep(Hearing)' # {}
      <3>1. CASE r = s BY <1>1, <1>2, <2>1, <3>1 DEF Hearing, TypeOK
      <3>2. CASE r # s BY <1>1, <1>4, <2>1, <3>2 DEF Attached, TypeOK
      <3> QED BY <3>1, <3>2
    <2>2. \A r \in Attached' : since'[r] # -1 =>
              \/ r \in Attached /\ since'[r] = since[r] /\ Got(r)' = Got(r)
              \/ since'[r] = inserted /\ InStep(Hearing)' # {}
      BY <2>1
    <2>3. server # "crashed" BY <1>1
    <2> QED BY <1>1, <1>2, <2>2, <2>3, MissKept
  <1>7. ReleaseInv'
    <2>1. phase'[s] = "attached" BY <1>1 DEF TypeOK
    <2> QED BY <2>1 DEF ReleaseInv
  <1> QED BY <1>2, <1>3, <1>5, <1>6, <1>7

\* An event is inserted: it is put on the wire of every connection that has LISTENed.
LEMMA InsertStep == ASSUME IInv, Insert PROVE IInv'
  <1> USE DEF IInv
  <1> DEFINE n == inserted + 1
  <1>1. /\ inserted' = n /\ UNCHANGED <<busVars, client, connectPromise, abandoned, server>>
        /\ conns' = [c \in DOMAIN conns |->
                       IF c \in InStep({"heard", "listening", "unlisten"}) /\ conns[c].alive
                       THEN [conns[c] EXCEPT !.wire = Append(conns[c].wire, n)]
                       ELSE conns[c]]
    BY DEF Insert
  <1>2. inserted \in Nat /\ n \in Nat BY DEF TypeOK
  <1> DEFINE Told(c) == conns[c].step \in {"heard", "listening", "unlisten"} /\ conns[c].alive
  <1>3. conns \in Seq(Conn) /\ DOMAIN conns = 1 .. Len(conns) /\ Len(conns) \in Nat
        /\ DOMAIN conns' = DOMAIN conns /\ \A c \in DOMAIN conns : conns[c] \in Conn
    BY <1>1, LenProperties DEF TypeOK
  <1>4. ASSUME NEW c \in DOMAIN conns
        PROVE  /\ conns'[c] \in Conn
               /\ conns'[c].step = conns[c].step /\ conns'[c].wired = conns[c].wired
               /\ conns'[c].alive = conns[c].alive
               /\ conns'[c].wire = IF Told(c) THEN Append(conns[c].wire, n) ELSE conns[c].wire
    <2>1. CASE Told(c)
      <3>1. conns'[c] = [conns[c] EXCEPT !.wire = Append(conns[c].wire, n)]
        BY <1>1, <2>1 DEF InStep
      <3>2. conns[c] \in Conn /\ conns[c].wire \in Seq(Nat) BY <1>3 DEF Conn
      <3>3. Append(conns[c].wire, n) \in Seq(Nat) BY <1>2, <3>2, AppendProperties
      <3> HIDE DEF n
      <3> QED BY <2>1, <3>1, <3>2, <3>3 DEF Conn
    <2>2. CASE ~Told(c)
      <3>1. conns'[c] = conns[c] BY <1>1, <2>2 DEF InStep
      <3> QED BY <2>2, <3>1, <1>3
    <2> QED BY <2>1, <2>2
  <1>5. \A set : InStep(set)' = InStep(set) BY <1>3, <1>4 DEF InStep
  <1>6. TypeOK'
    <2>1. conns' \in Seq(Conn)
      <3>1. conns' \in [1 .. Len(conns) -> Conn] BY <1>1, <1>3, <1>4
      <3> QED BY <1>3, <3>1, SeqDef
    <2> QED BY <1>1, <1>2, <2>1 DEF TypeOK, busVars
  <1> HIDE DEF Told
  <1>7. ASSUME NEW c \in DOMAIN conns, Told(c)
        PROVE  LET wire == conns[c].wire
               IN  /\ conns[c].alive /\ conns[c].step \in {"heard", "listening", "unlisten"}
                   /\ Len(wire) \in Nat /\ Len(conns'[c].wire) = Len(wire) + 1
                   /\ Ending(wire, inserted) => Ending(conns'[c].wire, n)
                   /\ conns'[c].wire # <<>>
                   /\ Range(conns'[c].wire) = Range(wire) \cup {n}
    <2>1. conns[c].wire \in Seq(Nat) /\ conns'[c].wire = Append(conns[c].wire, n)
      BY <1>3, <1>4, <1>7 DEF Conn
    <2>2. Range(Append(conns[c].wire, n)) = Range(conns[c].wire) \cup {n}
      <3> HIDE DEF n
      <3> QED BY <1>2, <2>1, AppendRange
    <2>3. n = inserted + 1 OBVIOUS
    <2> HIDE DEF n
    <2>4. /\ Append(conns[c].wire, n) # <<>>
          /\ Len(conns[c].wire) \in Nat
          /\ Len(Append(conns[c].wire, n)) = Len(conns[c].wire) + 1
          /\ Ending(conns[c].wire, inserted) => Ending(Append(conns[c].wire, n), n)
      BY <1>2, <2>1, <2>3, EndingAppend
    <2> QED BY <1>7, <2>1, <2>2, <2>4 DEF Told
  <1>8. ASSUME NEW c \in DOMAIN conns, ~Told(c), c \in InStep(Hearing)
        PROVE  conns'[c].wire = <<>> /\ ~conns'[c].alive
    <2>1. ~conns[c].alive BY <1>8 DEF Told, InStep, Hearing
    <2> QED BY <1>4, <1>8, <2>1 DEF ConnInv, Sound
  <1>9. ConnInv'
    <2>1. ASSUME NEW c \in DOMAIN conns PROVE Sound(conns'[c], n)
      <3>1. Sound(conns[c], inserted) BY DEF ConnInv
      <3>2. CASE Told(c)
        <4> HIDE DEF n
        <4> QED BY <1>4, <1>7, <3>1, <3>2 DEF Sound
      <3>3. CASE ~Told(c)
        <4>1. CASE conns[c].step \in Hearing
          <5>1. conns'[c].wire = <<>> BY <1>8, <3>3, <4>1 DEF InStep
          <5>2. Ending(conns'[c].wire, n) BY <5>1, EmptyGot
          <5> QED BY <1>4, <3>1, <5>1, <5>2 DEF Sound
        <4>2. CASE conns[c].step \notin Hearing
          BY <1>4, <3>1, <3>3, <4>2 DEF Sound
        <4> QED BY <4>1, <4>2
      <3> QED BY <3>2, <3>3
    <2> QED BY <1>1, <1>3, <2>1 DEF ConnInv, Sound
  <1>10. ClientInv' BY <1>1, <1>5 DEF ClientInv
  <1>11. \A s \in Subscriber : Got(s)' = Got(s) BY <1>1 DEF Got, busVars
  <1>12. OrderInv'
    <2> SUFFICES ASSUME NEW s \in Subscriber, NEW e \in Range(Got(s))
                 PROVE  /\ e <= n
                        /\ \A c \in InStep(Hearing) : e <= n - Len(conns'[c].wire)
      BY <1>1, <1>5, <1>11 DEF OrderInv, Ascending, busVars
    <2>1. e \in Nat /\ e <= inserted BY GotFacts DEF OrderInv
    <2>2. ASSUME NEW c \in InStep(Hearing) PROVE e <= n - Len(conns'[c].wire)
      <3>1. c \in DOMAIN conns BY DEF InStep
      <3>2. CASE Told(c)
        <4>1. e <= inserted - Len(conns[c].wire) BY DEF OrderInv
        <4> QED BY <1>2, <1>7, <2>1, <3>1, <3>2, <4>1
      <3>3. CASE ~Told(c) BY <1>2, <1>8, <2>1, <3>1, <3>3, EmptyGot
      <3> QED BY <3>2, <3>3
    <2> QED BY <1>2, <2>1, <2>2
  <1>13. MissInv'
    <2>1. Attached' = Attached /\ since' = since /\ server' = server BY <1>1 DEF busVars, Attached
    <2> SUFFICES ASSUME NEW s \in Attached, since[s] # -1, server # "crashed"
                 PROVE  \E c \in InStep(Hearing) :
                           conns'[c].alive =>
                              \A e \in Wants[s] \cap (since[s] + 1 .. n) :
                                 e \in Range(Got(s)) \cup Range(conns'[c].wire)
      <3>1. \A s \in Attached : Got(s)' = Got(s) BY <1>11 DEF Attached
      <3> QED BY <1>1, <1>5, <2>1, <3>1 DEF MissInv
    <2>2. PICK c \in InStep(Hearing) :
              conns[c].alive =>
                 \A e \in Wants[s] \cap (since[s] + 1 .. inserted) :
                    e \in Range(Got(s)) \cup Range(conns[c].wire)
      BY DEF MissInv
    <2>3. c \in DOMAIN conns BY DEF InStep
    <2>4. CASE ~Told(c) BY <1>8, <2>3, <2>4
    <2>5. CASE Told(c)
      <3>1. conns[c].alive /\ Range(conns'[c].wire) = Range(conns[c].wire) \cup {n}
        BY <1>7, <2>3, <2>5
      <3>2. since[s] \in Int BY DEF TypeOK, Attached
      <3>3. since[s] + 1 .. n \subseteq (since[s] + 1 .. inserted) \cup {n} BY <1>2, <3>2
      <3> HIDE DEF n
      <3> QED BY <2>2, <3>1, <3>3
    <2> QED BY <2>4, <2>5
  <1>14. ReleaseInv' BY <1>1 DEF ReleaseInv, busVars
  <1> QED BY <1>6, <1>9, <1>10, <1>12, <1>13, <1>14

\* A notification arrives: only the client that listens has anybody pushed to, and what
\* it brings is newer than all that anybody has got.
LEMMA ReceiveStep == ASSUME IInv, Receive PROVE IInv'
  <1> USE DEF IInv
  <1>1. PICK c \in DOMAIN conns :
          /\ conns[c].wire # <<>>
          /\ LET e       == Head(conns[c].wire)
                 matches == {s \in Attached : conns[c].wired /\ e \in Wants[s]}
             IN  /\ received' = [s \in Subscriber |->
                        IF s \in matches /\ pending[s]
                        THEN Append(received[s], e) ELSE received[s]]
                 /\ queue' = [s \in Subscriber |->
                        IF s \in matches /\ ~pending[s]
                        THEN Append(queue[s], e) ELSE queue[s]]
                 /\ pending' = [s \in Subscriber |-> pending[s] /\ s \notin matches]
          /\ conns' = [conns EXCEPT ![c].wire = Tail(conns[c].wire)]
    BY DEF Receive
  <1>2. UNCHANGED <<phase, since, client, connectPromise, abandoned, inserted, server>>
        /\ server # "crashed"
    BY DEF Receive, Running
  <1> DEFINE wire == conns[c].wire
             e    == Head(wire)
             matches == {s \in Attached : conns[c].wired /\ e \in Wants[s]}
             new  == [conns[c] EXCEPT !.wire = Tail(wire)]
  <1>3. /\ conns[c] \in Conn /\ wire \in Seq(Nat) /\ wire # <<>>
        /\ Sound(conns[c], inserted) /\ inserted \in Nat
    <2>1. conns[c] \in Conn BY DEF TypeOK
    <2> QED BY <1>1, <2>1 DEF Conn, TypeOK, ConnInv
  <1>4. /\ Tail(wire) \in Seq(Nat) /\ Len(wire) \in Nat /\ Len(Tail(wire)) = Len(wire) - 1
        /\ e \in Nat /\ Range(wire) = {e} \cup Range(Tail(wire))
        /\ Ending(wire, inserted) =>
              Ending(Tail(wire), inserted) /\ e = inserted - Len(wire) + 1
    <2> HIDE DEF wire
    <2> QED BY <1>3, EndingTail
  <1>5. new \in Conn /\ conns' = [conns EXCEPT ![c] = new]
        /\ new.step = conns[c].step /\ new.wired = conns[c].wired
        /\ new.alive = conns[c].alive /\ new.wire = Tail(wire)
    BY <1>1, <1>3, <1>4 DEF Conn, TypeOK
  <1>6. /\ received' = [s \in Subscriber |->
               IF s \in matches /\ pending[s] THEN Append(received[s], e) ELSE received[s]]
        /\ queue' = [s \in Subscriber |->
               IF s \in matches /\ ~pending[s] THEN Append(queue[s], e) ELSE queue[s]]
        /\ pending' = [s \in Subscriber |-> pending[s] /\ s \notin matches]
    BY <1>1
  <1>7. matches \subseteq Attached /\ (matches # {} => conns[c].wired)
        /\ \A s \in Attached : conns[c].wired /\ e \in Wants[s] => s \in matches
    OBVIOUS
  <1> HIDE DEF new, matches, e, wire
  <1>8. /\ conns' \in Seq(Conn) /\ DOMAIN conns' = DOMAIN conns /\ conns'[c] = new
        /\ \A d \in DOMAIN conns : d # c => conns'[d] = conns[d]
    BY <1>5, ConnChanged
  <1>9. \A set : InStep(set)' = InStep(set)
    BY <1>5, <1>8 DEF InStep
  <1>10. ASSUME NEW s \in Subscriber
         PROVE  /\ received'[s] \in Seq(Nat) /\ queue'[s] \in Seq(Nat)
                /\ pending'[s] \in BOOLEAN /\ pending'[s] => queue'[s] = <<>>
                /\ Got(s)' = IF s \in matches THEN Append(Got(s), e) ELSE Got(s)
    <2>1. received[s] \in Seq(Nat) /\ queue[s] \in Seq(Nat) /\ pending[s] \in BOOLEAN
          /\ (pending[s] => queue[s] = <<>>)
      BY DEF TypeOK, OrderInv
    <2>2. Append(received[s], e) \in Seq(Nat) /\ Append(queue[s], e) \in Seq(Nat)
      BY <1>4, <2>1, AppendProperties
    <2>3. CASE s \notin matches
      <3>1. received'[s] = received[s] /\ queue'[s] = queue[s] /\ (pending'[s] <=> pending[s])
        BY <1>6, <2>3
      <3>2. pending'[s] \in BOOLEAN BY <1>6
      <3> QED BY <2>1, <2>3, <3>1, <3>2 DEF Got
    <2>4. CASE s \in matches /\ pending[s]
      <3>1. received'[s] = Append(received[s], e) /\ queue'[s] = queue[s] /\ pending'[s] = FALSE
        BY <1>6, <2>4
      <3>2. received[s] \o queue[s] = received[s]
            /\ Append(received[s], e) \o queue[s] = Append(received[s], e)
        BY <2>1, <2>2, <2>4, ConcatEmptySeq
      <3> QED BY <2>1, <2>2, <2>4, <3>1, <3>2 DEF Got
    <2>5. CASE s \in matches /\ ~pending[s]
      <3>1. received'[s] = received[s] /\ queue'[s] = Append(queue[s], e) /\ pending'[s] = FALSE
        BY <1>6, <2>5
      <3>2. received[s] \o Append(queue[s], e) = Append(received[s] \o queue[s], e)
        BY <1>4, <2>1, AppendMoves
      <3> QED BY <2>1, <2>2, <2>5, <3>1, <3>2 DEF Got
    <2> QED BY <2>3, <2>4, <2>5
  <1>11. TypeOK'
    <2>1. received' \in [Subscriber -> Seq(Nat)] /\ queue' \in [Subscriber -> Seq(Nat)]
          /\ pending' \in [Subscriber -> BOOLEAN]
      BY <1>6, <1>10
    <2> QED BY <1>2, <1>8, <2>1 DEF TypeOK
  <1>12. ConnInv'
    <2>1. Sound(new, inserted) BY <1>3, <1>4, <1>5 DEF Sound, wire
    <2> QED BY <1>2, <1>8, <2>1 DEF ConnInv, Sound, Ending
  <1>13. ClientInv' BY <1>2, <1>9 DEF ClientInv
  <1>14. matches # {} => c \in InStep(Hearing) /\ InStep(Hearing) = {c}
    <2>1. SUFFICES ASSUME matches # {} PROVE c \in InStep(Hearing) /\ InStep(Hearing) = {c}
      OBVIOUS
    <2>2. c \in InStep(Hearing) BY <1>3, <1>7, <2>1 DEF Sound, InStep, Hearing, wire
    <2>3. InStep(Hearing) \subseteq InStep(Opening) BY DEF InStep, Hearing, Opening
    <2> QED BY <2>2, <2>3 DEF ClientInv
  <1>15. ASSUME c \in InStep(Hearing)
         PROVE  e = inserted - Len(wire) + 1 /\ conns[c].wired
    BY <1>3, <1>4, <1>15 DEF Sound, InStep, Hearing, wire
  <1>16. OrderInv'
    <2> SUFFICES ASSUME NEW s \in Subscriber
                 PROVE  /\ Ascending(Got(s)')
                        /\ \A x \in Range(Got(s)') :
                              /\ x <= inserted
                              /\ \A d \in InStep(Hearing) : x <= inserted - Len(conns'[d].wire)
      BY <1>2, <1>9, <1>10, ZenonT(60) DEF OrderInv, Ascending
    <2>1. Got(s) \in Seq(Nat) /\ Range(Got(s)) \subseteq Nat /\ Ascending(Got(s))
      BY GotFacts DEF OrderInv
    <2>2. ASSUME NEW x \in Range(Got(s)), NEW d \in InStep(Hearing)
          PROVE  x <= inserted - Len(conns'[d].wire)
      <3>1. x \in Nat /\ x <= inserted - Len(conns[d].wire) BY <2>1 DEF OrderInv
      <3>2. CASE d = c
        <4>1. x <= inserted - Len(wire) BY <3>1, <3>2 DEF wire
        <4>2. Len(conns'[d].wire) = Len(wire) - 1 BY <1>4, <1>5, <1>8, <3>2, ZenonT(60)
        <4>3. Len(wire) \in Nat BY <1>4
        <4> QED BY <1>3, <3>1, <4>1, <4>2, <4>3
      <3>3. CASE d # c BY <1>8, <3>1, <3>3 DEF InStep
      <3> QED BY <3>2, <3>3
    <2>3. CASE s \notin matches BY <1>10, <2>1, <2>2, <2>3 DEF OrderInv
    <2>4. CASE s \in matches
      <3>1. Got(s)' = Append(Got(s), e) BY <1>10, <2>4
      <3>2. c \in InStep(Hearing) /\ InStep(Hearing) = {c} /\ e = inserted - Len(wire) + 1
        BY <1>14, <1>15, <2>4
      <3>3. \A x \in Range(Got(s)) : x < e
        <4>1. \A x \in Range(Got(s)) : x \in Nat /\ x <= inserted - Len(wire)
          BY <2>1, <3>2 DEF OrderInv, wire
        <4> QED BY <1>3, <1>4, <3>2, <4>1
      <3>4. Ascending(Append(Got(s), e)) BY <1>4, <2>1, <3>3, AppendAscending
      <3>5. Range(Append(Got(s), e)) = Range(Got(s)) \cup {e} BY <1>4, <2>1, AppendRange, SMTT(30)
      <3>6. e <= inserted /\ e <= inserted - Len(conns'[c].wire)
        <4>1. Len(conns'[c].wire) = Len(wire) - 1 BY <1>4, <1>5, <1>8, ZenonT(60)
        <4>2. Len(wire) \in Nat /\ Len(wire) # 0 BY <1>3, EmptySeq
        <4>3. e = inserted - Len(wire) + 1 /\ inserted \in Nat BY <1>3, <3>2
        <4> QED BY <4>1, <4>2, <4>3
      <3> QED BY <2>2, <3>1, <3>2, <3>4, <3>5, <3>6 DEF OrderInv
    <2> QED BY <2>3, <2>4
  <1>17. MissInv'
    <2>1. Attached' = Attached /\ Attached \subseteq Subscriber BY <1>2 DEF Attached
    <2> SUFFICES ASSUME NEW s \in Attached, since[s] # -1
                 PROVE  \E d \in InStep(Hearing) :
                           conns'[d].alive =>
                              \A x \in Wants[s] \cap (since[s] + 1 .. inserted) :
                                 x \in Range(Got(s)') \cup Range(conns'[d].wire)
      BY <1>2, <1>9, <2>1 DEF MissInv, Range
    <2>2. PICK d \in InStep(Hearing) :
              conns[d].alive =>
                 \A x \in Wants[s] \cap (since[s] + 1 .. inserted) :
                    x \in Range(Got(s)) \cup Range(conns[d].wire)
      BY <1>2 DEF MissInv
    <2>3. Range(Got(s)) \subseteq Range(Got(s)') /\ (s \in matches => e \in Range(Got(s)'))
      <3>1. Range(Append(Got(s), e)) = Range(Got(s)) \cup {e}
        BY <1>4, <2>1, GotFacts, AppendRange
      <3>2. CASE s \in matches BY <1>10, <2>1, <3>1, <3>2
      <3>3. CASE s \notin matches BY <1>10, <2>1, <3>3
      <3> QED BY <3>2, <3>3
    <2>4. CASE d = c
      <3>1. e \in Wants[s] => s \in matches BY <1>7, <1>15, <2>4
      <3>2. Range(conns[c].wire) = {e} \cup Range(conns'[c].wire)
        BY <1>4, <1>5, <1>8 DEF wire
      <3> QED BY <1>5, <1>8, <2>2, <2>3, <2>4, <3>1, <3>2
    <2>5. CASE d # c
      <3>1. conns'[d] = conns[d] BY <1>8, <2>5 DEF InStep
      <3> QED BY <2>2, <2>3, <3>1
    <2> QED BY <2>4, <2>5
  <1>18. ReleaseInv' BY <1>2 DEF ReleaseInv
  <1> QED BY <1>11, <1>12, <1>13, <1>16, <1>17, <1>18

------------------------------------------------------------------------------

\* The inductive invariant: what connectPromise, the clients and the wires say of each
\* other (ensureConnected, close), and what every subscriber has got (push, next).
THEOREM InvariantHolds == Spec => []IInv
  <1>1. ASSUME IInv, [Next]_vars PROVE IInv'
    <2>1. CASE ConnectStep
      BY <1>1, <2>1, ConnectedStep, HeardStep, ListeningStep, ConnectFailsStep DEF ConnectStep
    <2>2. CASE Unlistened \/ Ended BY <1>1, <2>2, UnlistenedStep, EndedStep
    <2>3. CASE \E s \in Subscriber : Subscribe(s) \/ Pull(s) \/ Leave(s) \/ Finish(s)
      BY <1>1, <2>3, SubscribeStep, PullStep, LeaveStep, FinishStep
    <2>4. CASE Insert \/ Receive BY <1>1, <2>4, InsertStep, ReceiveStep
    <2>5. CASE ConnectionLost \/ Shutdown \/ CloseSource
      BY <1>1, <2>5, ConnectionLostStep, ShutdownStep, CloseSourceStep
    <2>6. CASE UNCHANGED vars BY <1>1, <2>6, StutterStep
    <2> QED BY <1>1, <2>1, <2>2, <2>3, <2>4, <2>5, <2>6 DEF Next
  <1> QED BY <1>1, InitStep, PTL DEF Spec

\* Every subscriber gets an event at most once and in the order of insertion, and none
\* lies in its queue while next() waits, though a client that is being closed is still
\* notified beside the new one.
THEOREM EventsComeOnceInOrder == Spec => []EventsOnceInOrder
  <1>1. ASSUME IInv PROVE EventsOnceInOrder
    BY <1>1 DEF IInv, OrderInv, EventsOnceInOrder, Ascending, Got
  <1> QED BY <1>1, InvariantHolds, PTL

\* A subscriber misses no matching event from the moment Postgres listens for it, whoever
\* leaves or has the listener closed meanwhile.
THEOREM NoEventIsMissed == Spec => []NothingMissed
  <1>1. ASSUME IInv PROVE NothingMissed
    <2> SUFFICES ASSUME NEW s \in Attached, since[s] # -1, server # "crashed"
                 PROVE  \E c \in InStep({"heard", "listening"}) :
                           conns[c].alive =>
                              Wants[s] \cap (since[s] + 1 .. inserted)
                                 \subseteq Range(received[s] \o queue[s] \o conns[c].wire)
      BY DEF NothingMissed
    <2>1. PICK c \in InStep(Hearing) :
              conns[c].alive =>
                 \A e \in Wants[s] \cap (since[s] + 1 .. inserted) :
                    e \in Range(Got(s)) \cup Range(conns[c].wire)
      BY <1>1 DEF IInv, MissInv
    <2>2. Got(s) \in Seq(Nat) /\ conns[c].wire \in Seq(Nat)
      <3>1. s \in Subscriber /\ c \in DOMAIN conns BY DEF Attached, InStep
      <3>2. conns[c] \in Conn BY <1>1, <3>1 DEF IInv, TypeOK
      <3> QED BY <1>1, <3>1, <3>2, GotFacts DEF IInv, Conn
    <2>3. Range(Got(s) \o conns[c].wire) = Range(Got(s)) \cup Range(conns[c].wire)
      BY <2>2, RangeConcatenation
    <2> QED BY <2>1, <2>3 DEF Got, Hearing
  <1> QED BY <1>1, InvariantHolds, PTL

\* When nobody is attached or leaving, no client is kept, unless the last subscriber left
\* while it was still connecting.
THEOREM ListenerIsAlwaysReleased == Spec => []ListenerIsReleased
  <1>1. ASSUME IInv PROVE ListenerIsReleased
    BY <1>1 DEF IInv, ClientInv, ReleaseInv, ListenerIsReleased
  <1> QED BY <1>1, InvariantHolds, PTL
===============================================================================
