-------------------------- MODULE ClientConnProofs --------------------------
(***************************************************************************)
(* Safety of ClientConn for any number of handles and calls and for bodies *)
(* of any length, and its refinement of Exchange.                          *)
(***************************************************************************)
EXTENDS ClientConn, TLAPS

\* How far the server can be with call c when its future waits at at[c]:
\* nothing of it exists before send_request, it is not answered before it is
\* sent, and Ok comes after the end of the body.
CallOK(c) ==
  /\ kind[c] = "datagram" => srv[c] = "idle" /\ at[c] \notin InFlight \ {"reading"}
  /\ kind[c] = "datagram" => at[c] # "held"
  /\ kind[c] # "datagram" => at[c] # "reading"
  /\ at[c] \in {"held", "next"} => kind[c] = "stream"
  /\ at[c] \in {"idle", "opening"} => srv[c] = "idle"
  /\ at[c] \in {"body", "held", "next"} => srv[c] \in {"answered", "ended", "reset"}
  /\ at[c] = "ok" /\ kind[c] # "datagram" => srv[c] = "ended" /\ got[c] = wrote[c]

CallInv == \A c \in Calls : CallOK(c)
-----------------------------------------------------------------------------
(* Types *)

\* A future goes to another of its places and borrows what it did, or nothing.
LEMMA MoveTyped ==
  ASSUME TypeOK, NEW c \in Calls, NEW p \in Places, Move(c, p)
  PROVE  at' \in [Calls -> Places] /\ from' \in [Calls -> Handles \cup {None}]
BY DEF Move, TypeOK

\* Every variable of the client, its connection and its server keeps its type;
\* an open connection has its driver, and the driver outlives the connection.
THEOREM ClientTypeCorrect == Spec => []TypeOK
<1> USE ClientAssumption DEF connVars, callVars, srvVars
<1>1. ASSUME Init
      PROVE  TypeOK
  <2>1. 0 \in 0..MaxChunks /\ 0 <= 0 /\ 0 \in 0..1
    BY DEF ClientAssumption
  <2>2. /\ wrote \in [Calls -> 0..MaxChunks] /\ got \in [Calls -> 0..MaxChunks]
        /\ inbox \in 0..1 /\ \A c \in Calls : got[c] <= wrote[c]
    BY <1>1, <2>1 DEF Init
  <2> QED
    BY <1>1, <2>2 DEF Init, TypeOK, Places
<1>2. ASSUME TypeOK, [Next]_vars
      PROVE  TypeOK'
  <2> USE <1>2
  <2>1. CASE Dialled \/ DriverCloses \/ Datagram \/ ServerDies \/ Lose
    <3>1. CASE Dialled \/ DriverCloses
      BY <3>1 DEF Dialled, DriverCloses, TypeOK
    <3>2. CASE Datagram
      BY <3>2 DEF Datagram, TypeOK
    <3>3. CASE ServerDies \/ Lose
      BY <3>3 DEF ServerDies, Lose, TypeOK
    <3> QED
      BY <2>1, <3>1, <3>2, <3>3
  <2>2. ASSUME NEW h \in Handles, Dial(h) \/ SetUp(h) \/ DialFails(h) \/ DropHandle(h)
        PROVE  TypeOK'
    BY <2>2 DEF Dial, SetUp, DialFails, DropHandle, TypeOK
  <2>3. ASSUME NEW h \in Handles, NEW g \in Handles, NEW as \in {"client", "requests"},
               CloneHandle(h, g, as)
        PROVE  TypeOK'
    BY <2>3 DEF CloneHandle, TypeOK
  <2>4. ASSUME NEW c \in Calls, NEW h \in Handles, Make(c, h)
        PROVE  TypeOK'
    BY <2>4 DEF Make, TypeOK, Places, InFlight
  <2>5. ASSUME NEW c \in Calls, \/ Finished(c) \/ Headed(c) \/ BodyEnds(c) \/ CallFails(c)
                                \/ StreamNext(c) \/ Abandon(c)
        PROVE  TypeOK'
    <3>1. \E p \in Places : Move(c, p)
      BY <2>5 DEF Finished, Headed, BodyEnds, CallFails, StreamNext, Abandon, Places, InFlight
    <3>2. UNCHANGED <<connVars, handle, kind, got, srvVars>>
      BY <2>5 DEF Finished, Headed, BodyEnds, CallFails, StreamNext, Abandon
    <3> QED
      BY <3>1, <3>2, MoveTyped DEF TypeOK
  <2>6. ASSUME NEW c \in Calls, Opened(c)
        PROVE  TypeOK'
    <3>1. at' \in [Calls -> Places] /\ from' \in [Calls -> Handles \cup {None}]
      BY <2>6, MoveTyped DEF Opened, Places, InFlight
    <3> QED
      BY <2>6, <3>1 DEF Opened, TypeOK
  <2>7. ASSUME NEW c \in Calls, Chunk(c)
        PROVE  TypeOK'
    <3>1. at' \in [Calls -> Places] /\ from' \in [Calls -> Handles \cup {None}]
      BY <2>7, MoveTyped DEF Chunk, Places, InFlight
    <3>2. PICK n \in (got[c] + 1)..wrote[c] : got' = [got EXCEPT ![c] = n]
      BY <2>7 DEF Chunk
    <3>3. n \in 0..MaxChunks /\ n <= wrote[c]
      BY <3>2 DEF TypeOK, ClientAssumption
    <3>4. got' \in [Calls -> 0..MaxChunks] /\ \A d \in Calls : got'[d] <= wrote[d]
      BY <3>2, <3>3 DEF TypeOK
    <3> QED
      BY <2>7, <3>1, <3>4 DEF Chunk, TypeOK
  <2>8. ASSUME NEW c \in Calls, DatagramRead(c)
        PROVE  TypeOK'
    <3>1. at' \in [Calls -> Places] /\ from' \in [Calls -> Handles \cup {None}]
      BY <2>8, MoveTyped DEF DatagramRead, Places
    <3>2. inbox' \in 0..1
      BY <2>8 DEF DatagramRead, TypeOK
    <3> QED
      BY <2>8, <3>1, <3>2 DEF DatagramRead, TypeOK
  <2>9. ASSUME NEW c \in Calls, ServerStep(c) \/ ServerResets(c)
        PROVE  TypeOK'
    <3>1. CASE UNCHANGED wrote
      BY <2>9, <3>1 DEF ServerStep, ServerResets, TypeOK
    <3>2. CASE wrote' = [wrote EXCEPT ![c] = @ + 1] /\ wrote[c] < MaxChunks /\ UNCHANGED srv
      <4>1. wrote[c] + 1 \in 0..MaxChunks
        BY <3>2 DEF TypeOK, ClientAssumption
      <4>2. wrote' \in [Calls -> 0..MaxChunks] /\ \A d \in Calls : got[d] <= wrote'[d]
        BY <3>2, <4>1 DEF TypeOK
      <4> QED
        BY <2>9, <3>2, <4>2 DEF ServerStep, ServerResets, TypeOK
    <3> QED
      BY <2>9, <3>1, <3>2 DEF ServerStep, ServerResets
  <2>10. CASE UNCHANGED vars
    BY <2>10 DEF TypeOK, vars
  <2> QED
    BY <2>1, <2>2, <2>3, <2>4, <2>5, <2>6, <2>7, <2>8, <2>9, <2>10 DEF Next, CallStep
<1> QED
  BY <1>1, <1>2, PTL DEF Spec
-----------------------------------------------------------------------------
(* Calls *)

\* A step is about one call, or about none.
Others(c) ==
  \A d \in Calls \ {c} : /\ at'[d] = at[d] /\ srv'[d] = srv[d]
                         /\ got'[d] = got[d] /\ wrote'[d] = wrote[d]
NoCall == UNCHANGED <<kind, at, srv, got, wrote>>

CallAction(c) ==
  \/ \E h \in Handles : Make(c, h)
  \/ CallStep(c) \/ StreamNext(c) \/ Abandon(c) \/ ServerStep(c) \/ ServerResets(c)

\* Every step is of one call, or of the connection and leaves calls alone.
LEMMA StepIsOfOneCall ==
  ASSUME TypeOK, [Next]_vars
  PROVE  NoCall \/ \E c \in Calls : CallAction(c) /\ Others(c) /\ UNCHANGED kind
<1> USE DEF connVars, callVars, srvVars
<1>1. ASSUME NEW c \in Calls, CallAction(c)
      PROVE  Others(c) /\ UNCHANGED kind
  <2>1. ASSUME NEW h \in Handles, Make(c, h)
        PROVE  Others(c) /\ UNCHANGED kind
    BY <2>1 DEF Make, Others, TypeOK
  <2>2. CASE CallStep(c)
    BY <2>2 DEF CallStep, Opened, Finished, Headed, Chunk, BodyEnds, DatagramRead, CallFails,
                Move, Others, TypeOK
  <2>3. CASE StreamNext(c) \/ Abandon(c)
    BY <2>3 DEF StreamNext, Abandon, Move, Others, TypeOK
  <2>4. CASE ServerStep(c) \/ ServerResets(c)
    BY <2>4 DEF ServerStep, ServerResets, Others, TypeOK
  <2> QED
    BY <1>1, <2>1, <2>2, <2>3, <2>4 DEF CallAction
<1>2. ASSUME \/ Dialled \/ DriverCloses \/ Datagram \/ ServerDies \/ Lose
             \/ \E h \in Handles : Dial(h) \/ SetUp(h) \/ DialFails(h) \/ DropHandle(h)
             \/ \E h, g \in Handles, as \in {"client", "requests"} : CloneHandle(h, g, as)
             \/ UNCHANGED vars
      PROVE  NoCall
  BY <1>2 DEF Dialled, DriverCloses, Datagram, ServerDies, Lose, Dial, SetUp, DialFails,
              DropHandle, CloneHandle, NoCall, vars
<1> QED
  BY <1>1, <1>2 DEF Next, CallAction

\* A step of call c keeps what is known of c.
LEMMA CallKept ==
  ASSUME ClientAssumption, TypeOK, NEW c \in Calls, CallOK(c), CallAction(c), UNCHANGED kind
  PROVE  CallOK(c)'
<1> USE DEF CallOK, connVars, callVars, srvVars
<1>1. kind[c] \in {"request", "stream", "datagram"} /\ at[c] \in Places
  BY DEF TypeOK, ClientAssumption
<1>2. ASSUME NEW h \in Handles, Make(c, h)
      PROVE  CallOK(c)'
  BY <1>1, <1>2 DEF Make, TypeOK, InFlight
<1>3. CASE Opened(c)
  BY <1>1, <1>3 DEF Opened, Move, TypeOK, InFlight
<1>4. CASE Finished(c) \/ Headed(c)
  BY <1>1, <1>4 DEF Finished, Headed, Move, TypeOK, InFlight
<1>5. CASE Chunk(c)
  BY <1>1, <1>5 DEF Chunk, Move, TypeOK, InFlight
<1>6. CASE BodyEnds(c) \/ DatagramRead(c)
  BY <1>1, <1>6 DEF BodyEnds, DatagramRead, Move, TypeOK, InFlight
<1>7. CASE CallFails(c) \/ Abandon(c) \/ StreamNext(c)
  BY <1>1, <1>7 DEF CallFails, Abandon, StreamNext, Pending, Move, TypeOK, InFlight
<1>8. CASE ServerStep(c) \/ ServerResets(c)
  BY <1>1, <1>8 DEF ServerStep, ServerResets, TypeOK
<1> QED
  BY <1>2, <1>3, <1>4, <1>5, <1>6, <1>7, <1>8 DEF CallAction, CallStep

\* What is known of every call holds in every reachable state.
LEMMA CallInvariance == Spec => []CallInv
<1> USE ClientAssumption
<1>1. Init => CallInv
  BY DEF Init, CallInv, CallOK, InFlight
<1>2. ASSUME TypeOK, CallInv, [Next]_vars
      PROVE  CallInv'
  <2>1. CASE NoCall
    BY <1>2, <2>1 DEF NoCall, CallInv, CallOK
  <2>2. ASSUME NEW c \in Calls, CallAction(c), Others(c), UNCHANGED kind
        PROVE  CallInv'
    <3>1. CallOK(c)'
      BY <1>2, <2>2, CallKept DEF CallInv
    <3>2. \A d \in Calls \ {c} : CallOK(d)'
      BY <1>2, <2>2 DEF CallInv, CallOK, Others
    <3> QED
      BY <3>1, <3>2 DEF CallInv
  <2> QED
    BY <1>2, <2>1, <2>2, StepIsOfOneCall
<1> QED
  BY <1>1, <1>2, ClientTypeCorrect, PTL DEF Spec

\* A request that returns Ok, and a Stream that says None, gave its caller the
\* whole body: no loss, reset or dropped handle makes a shorter answer.
THEOREM OkComplete == Spec => []OkIsComplete
<1>1. CallInv => OkIsComplete
  BY DEF CallInv, CallOK, OkIsComplete
<1> QED
  BY <1>1, CallInvariance, PTL

\* client.rs, "proof that the server has the request in hand": a Stream is
\* returned only after the server has read the request to its end.
THEOREM StreamReceived == Spec => []StreamMeansReceived
<1>1. CallInv => StreamMeansReceived
  BY DEF CallInv, CallOK, StreamMeansReceived
<1> QED
  BY <1>1, CallInvariance, PTL

-----------------------------------------------------------------------------
(* Handles *)

\* Short of a loss, the connection is closed only when no sender is left.
ClosedUnsent == (conn = "closed" /\ ~ lost) => Unsent

\* driver.wait_idle() closes it no sooner, and once there is no sender none
\* comes back.
LEMMA ClosedWithoutSender == Spec => []ClosedUnsent
<1> USE ClientAssumption
<1>1. Init => ClosedUnsent
  BY DEF Init, ClosedUnsent
<1>2. ASSUME TypeOK, ClosedUnsent, [Next]_vars
      PROVE  ClosedUnsent'
  <2> SUFFICES ASSUME conn' = "closed", ~ lost'
               PROVE  Unsent'
    BY DEF ClosedUnsent
  <2> USE <1>2 DEF connVars, callVars, srvVars
  <2>1. \/ conn = "closed" /\ ~ lost /\ Unsent
        \/ DriverCloses /\ Unsent
    BY DEF ClosedUnsent, Next, CallStep, vars, Dialled, DriverCloses, Datagram, ServerDies,
           Lose, Dial, SetUp, DialFails, DropHandle, CloneHandle, Make, Opened, Finished,
           Headed, Chunk, BodyEnds, DatagramRead, CallFails, StreamNext, Abandon, ServerStep,
           ServerResets
  <2>2. CASE DriverCloses
    BY <2>1, <2>2 DEF DriverCloses, Unsent, Usable, Sending
  <2>3. CASE conn = "closed"
    <3>1. Unsent
      BY <2>1
    <3>2. CASE NoCall
      <4>1. \A h \in Handles : Usable(h)' => Usable(h)
        BY <2>3, <3>1, <3>2 DEF Next, CallStep, vars, NoCall, Dialled, DriverCloses, Datagram,
           ServerDies, Lose, Dial, SetUp, DialFails, DropHandle, CloneHandle, Make, Opened,
           Finished, Headed, Chunk, BodyEnds, DatagramRead, CallFails, StreamNext, Abandon,
           ServerStep, ServerResets, Usable, Unsent, TypeOK
      <4> QED
        BY <3>1, <3>2, <4>1 DEF NoCall, Unsent, Sending
    <3>3. ASSUME NEW c \in Calls, CallAction(c), Others(c)
          PROVE  Unsent'
      <4>1. UNCHANGED handle
        BY <3>3 DEF CallAction, CallStep, Make, Opened, Finished, Headed, Chunk, BodyEnds,
           DatagramRead, CallFails, StreamNext, Abandon, ServerStep, ServerResets
      <4>2. Sending(c)' => Sending(c)
        BY <3>1, <3>3 DEF CallAction, CallStep, Make, Opened, Finished, Headed, Chunk, BodyEnds,
           DatagramRead, CallFails, StreamNext, Abandon, ServerStep, ServerResets, Move,
           Sending, Unsent, TypeOK
      <4> QED
        BY <3>1, <3>3, <4>1, <4>2 DEF Unsent, Usable, Others, Sending
    <3> QED
      BY <3>2, <3>3, StepIsOfOneCall
  <2> QED
    BY <2>1, <2>2, <2>3
<1> QED
  BY <1>1, <1>2, ClientTypeCorrect, PTL DEF Spec

\* The future of a call borrows a handle that its owner still has; only a Stream
\* waits for its next chunk without one.
Holds(c) == at[c] \in InFlight \ {"next"} => from[c] \in Handles /\ Usable(from[c])

\* A call that failed was reset, or its connection is closed, which a Stream
\* may find although nothing was lost.
Excused(c) ==
  at[c] = "err" => lost \/ srv[c] = "reset" \/ (kind[c] = "stream" /\ conn = "closed")

\* Before the one dial there is no handle.
Undialled == conn = "none" => \A h \in Handles : ~ Usable(h)

FailureInv == Undialled /\ \A c \in Calls : Holds(c) /\ Excused(c)

\* dial makes the first handle, and others come of it.
LEMMA UndialledStep ==
  ASSUME ClientAssumption, TypeOK, Undialled, [Next]_vars
  PROVE  Undialled'
<1> USE DEF Undialled, Usable, connVars, callVars, srvVars
<1> SUFFICES ASSUME conn' = "none" PROVE \A h \in Handles : ~ Usable(h)'
  OBVIOUS
<1>1. ASSUME NEW h \in Handles, Dial(h) \/ SetUp(h) \/ DialFails(h)
      PROVE  FALSE
  BY <1>1 DEF Dial, SetUp, DialFails
<1>2. ASSUME NEW h \in Handles, DropHandle(h)
      PROVE  \A g \in Handles : ~ Usable(g)'
  BY <1>2 DEF DropHandle, TypeOK
<1>3. ASSUME NEW h \in Handles, NEW g \in Handles, NEW as \in {"client", "requests"},
             CloneHandle(h, g, as)
      PROVE  \A k \in Handles : ~ Usable(k)'
  BY <1>3 DEF CloneHandle
<1>4. CASE UNCHANGED <<conn, handle>>
  BY <1>4
<1>5. CASE Dialled \/ DriverCloses \/ Lose
  BY <1>5 DEF Dialled, DriverCloses, Lose
<1>6. ASSUME NEW c \in Calls, CallAction(c)
      PROVE  UNCHANGED <<conn, handle>>
  BY <1>6 DEF CallAction, CallStep, Make, Opened, Finished, Headed, Chunk, BodyEnds,
              DatagramRead, CallFails, StreamNext, Abandon, ServerStep, ServerResets
<1>7. CASE Datagram \/ ServerDies \/ UNCHANGED vars
  BY <1>4, <1>7 DEF Datagram, ServerDies, vars
<1> QED
  BY <1>1, <1>2, <1>3, <1>4, <1>5, <1>6, <1>7 DEF Next, CallAction

\* A call borrows its handle from its making to its end.
LEMMA HoldsStep ==
  ASSUME ClientAssumption, TypeOK, Undialled, NEW c \in Calls, Holds(c), [Next]_vars
  PROVE  Holds(c)'
<1> USE DEF Holds, Usable, connVars, callVars, srvVars
<1>1. CASE UNCHANGED <<at, from, handle>>
  BY <1>1
<1>2. ASSUME NEW h \in Handles, Dial(h) \/ SetUp(h) \/ DialFails(h)
      PROVE  Holds(c)'
  <2>1. ~ Usable(h)
    BY <1>2 DEF Dial, SetUp, DialFails, Undialled
  <2> QED
    BY <1>2, <2>1 DEF Dial, SetUp, DialFails, TypeOK
<1>3. ASSUME NEW h \in Handles, DropHandle(h)
      PROVE  Holds(c)'
  BY <1>3 DEF DropHandle, Borrowed, TypeOK
<1>4. ASSUME NEW h \in Handles, NEW g \in Handles, NEW as \in {"client", "requests"},
             CloneHandle(h, g, as)
      PROVE  Holds(c)'
  BY <1>4 DEF CloneHandle, TypeOK
<1>5. ASSUME NEW d \in Calls, NEW h \in Handles, Make(d, h)
      PROVE  Holds(c)'
  BY <1>5 DEF Make, TypeOK
<1>6. ASSUME NEW d \in Calls, \/ Opened(d) \/ Finished(d) \/ Headed(d) \/ Chunk(d)
                              \/ BodyEnds(d) \/ DatagramRead(d) \/ CallFails(d)
                              \/ StreamNext(d) \/ Abandon(d)
      PROVE  Holds(c)'
  <2>1. UNCHANGED handle
    BY <1>6 DEF Opened, Finished, Headed, Chunk, BodyEnds, DatagramRead, CallFails, StreamNext,
                Abandon
  <2>2. PICK p \in Places : /\ Move(d, p)
                            /\ p \in InFlight \ {"next"} => at[d] \in InFlight \ {"next"}
    BY <1>6 DEF Opened, Finished, Headed, Chunk, BodyEnds, DatagramRead, CallFails, StreamNext,
                Abandon, Places, InFlight
  <2> QED
    BY <2>1, <2>2 DEF Move, TypeOK
<1>7. ASSUME \/ Dialled \/ DriverCloses \/ Datagram \/ ServerDies \/ Lose
             \/ \E d \in Calls : ServerStep(d) \/ ServerResets(d)
             \/ UNCHANGED vars
      PROVE  UNCHANGED <<at, from, handle>>
  BY <1>7 DEF Dialled, DriverCloses, Datagram, ServerDies, Lose, ServerStep, ServerResets, vars
<1> QED
  BY <1>1, <1>2, <1>3, <1>4, <1>5, <1>6, <1>7 DEF Next, CallStep

\* A step never fails a call that holds a sender on a connection closed on this
\* side, as there is no such call.
LEMMA ExcusedStep ==
  ASSUME ClientAssumption, TypeOK, ClosedUnsent, NEW c \in Calls, CallOK(c), Holds(c),
         Excused(c), [Next]_vars
  PROVE  Excused(c)'
<1> USE DEF connVars, callVars, srvVars
<1>1. (lost => lost') /\ (conn = "closed" => conn' = "closed") /\ UNCHANGED kind
  BY DEF Next, CallStep, vars, Dialled, DriverCloses, Datagram, ServerDies, Lose, Dial, SetUp,
         DialFails, DropHandle, CloneHandle, Make, Opened, Finished, Headed, Chunk, BodyEnds,
         DatagramRead, CallFails, StreamNext, Abandon, ServerStep, ServerResets
<1>2. CASE NoCall
  <2>1. at' = at /\ srv' = srv /\ kind' = kind
    BY <1>2 DEF NoCall
  <2> QED
    BY <1>1, <2>1, Zenon DEF Excused
<1>3. ASSUME NEW d \in Calls, d # c, Others(d)
      PROVE  Excused(c)'
  <2>1. at'[c] = at[c] /\ srv'[c] = srv[c] /\ kind' = kind
    BY <1>1, <1>3 DEF Others
  <2> QED
    BY <1>1, <2>1, Zenon DEF Excused
<1>4. CASE CallAction(c)
  <2>1. CASE CallFails(c)
    <3>1. conn = "closed" /\ ~ lost /\ srv[c] # "reset" => at[c] = "next"
      BY <2>1 DEF CallFails, Pending, ClosedUnsent, Unsent, Holds
    <3>2. UNCHANGED <<conn, lost, srv>> /\ (conn = "closed" \/ srv[c] = "reset")
      BY <2>1 DEF CallFails
    <3>3. at[c] = "next" => kind[c] = "stream"
      BY DEF CallOK
    <3>4. lost' = lost /\ conn' = conn /\ srv' = srv /\ kind' = kind
      BY <1>1, <3>2
    <3>5. lost \/ srv[c] = "reset" \/ (kind[c] = "stream" /\ conn = "closed")
      BY <3>1, <3>2, <3>3
    <3> QED
      BY <3>4, <3>5, Zenon DEF Excused
  <2>2. CASE at'[c] # "err"
    BY <2>2 DEF Excused
  <2>3. CASE ServerStep(c) \/ ServerResets(c)
    BY <1>1, <2>3 DEF ServerStep, ServerResets, TypeOK, Excused
  <2>4. ASSUME \/ \E h \in Handles : Make(c, h)
               \/ Opened(c) \/ Finished(c) \/ Headed(c) \/ Chunk(c) \/ BodyEnds(c)
               \/ DatagramRead(c) \/ StreamNext(c) \/ Abandon(c)
        PROVE  at'[c] # "err"
    BY <2>4 DEF Make, Opened, Finished, Headed, Chunk, BodyEnds, DatagramRead, StreamNext,
                Abandon, Move, TypeOK
  <2> QED
    BY <1>4, <2>1, <2>2, <2>3, <2>4 DEF CallAction, CallStep
<1> QED
  BY <1>2, <1>3, <1>4, StepIsOfOneCall

\* client.rs, "Dropping a clone does not close the connection": a call fails for
\* what the server or the network did, however the handles beside it are cloned
\* and dropped; a Stream may also fail once there is no handle left.
THEOREM NoSelfInflictedFailure == Spec => []FailureIsExternal
<1> USE ClientAssumption
<1>1. Init => FailureInv
  BY DEF Init, FailureInv, Undialled, Usable, Holds, Excused, InFlight
<1>2. TypeOK /\ ClosedUnsent /\ CallInv /\ FailureInv /\ [Next]_vars => FailureInv'
  BY UndialledStep, HoldsStep, ExcusedStep DEF CallInv, FailureInv
<1>3. FailureInv /\ ClosedUnsent => FailureIsExternal
  BY DEF FailureInv, Excused, ClosedUnsent, Unsent, FailureIsExternal
<1> QED
  BY <1>1, <1>2, <1>3, ClientTypeCorrect, ClosedWithoutSender, CallInvariance, PTL DEF Spec
-----------------------------------------------------------------------------
(* The refinement of Exchange *)

\* What becomes of call c in the eyes of Exchange: nothing, or one of its steps.
Unseen(c) == /\ CallerSees(c)'  = CallerSees(c)  /\ ServerSees(c)'  = ServerSees(c)
             /\ AnswerGiven(c)' = AnswerGiven(c) /\ BodyReplied(c)' = BodyReplied(c)

Called(c, old, new) ==
  /\ CallerSees(c) = old /\ CallerSees(c)' = new
  /\ ServerSees(c)' = ServerSees(c) /\ BodyReplied(c)' = BodyReplied(c)
Served(c, old, new) ==
  /\ ServerSees(c) = old /\ ServerSees(c)' = new
  /\ CallerSees(c)' = CallerSees(c) /\ AnswerGiven(c)' = AnswerGiven(c)

Turn(c) ==
  \/ Called(c, "idle", "waiting") /\ AnswerGiven(c)' = AnswerGiven(c)
  \/ Called(c, "waiting", "failed") /\ AnswerGiven(c)' = AnswerGiven(c)
  \/ /\ Called(c, "waiting", "answered")
     /\ ServerSees(c) = "replied" /\ AnswerGiven(c)' = BodyReplied(c)
  \/ /\ Served(c, "unseen", "seen") /\ CallerSees(c) # "idle"
     /\ BodyReplied(c)' = BodyReplied(c)
  \/ Served(c, "seen", "replied") /\ BodyReplied(c)' \in 0..MaxChunks
  \/ Served(c, "seen", "refused") /\ BodyReplied(c)' = BodyReplied(c)

\* Such a turn of one call is a step of Exchange.
LEMMA TurnImplements ==
  ASSUME NEW c \in Calls, Turn(c), \A d \in Calls \ {c} : Unseen(d)
  PROVE  Abs!Next
<1> DEFINE caller == [d \in Calls |-> CallerSees(d)]
           answer == [d \in Calls |-> AnswerGiven(d)]
           server == [d \in Calls |-> ServerSees(d)]
           body   == [d \in Calls |-> BodyReplied(d)]
<1>1. /\ caller' = [caller EXCEPT ![c] = CallerSees(c)']
      /\ answer' = [answer EXCEPT ![c] = AnswerGiven(c)']
      /\ server' = [server EXCEPT ![c] = ServerSees(c)']
      /\ body'   = [body EXCEPT ![c] = BodyReplied(c)']
  BY DEF Unseen
<1>2. /\ caller[c] = CallerSees(c) /\ answer[c] = AnswerGiven(c)
      /\ server[c] = ServerSees(c) /\ body[c] = BodyReplied(c)
  OBVIOUS
<1>3. /\ CallerSees(c)'  = CallerSees(c)  => UNCHANGED caller
      /\ AnswerGiven(c)' = AnswerGiven(c) => UNCHANGED answer
      /\ ServerSees(c)'  = ServerSees(c)  => UNCHANGED server
      /\ BodyReplied(c)' = BodyReplied(c) => UNCHANGED body
  BY DEF Unseen
<1>4. CASE Called(c, "idle", "waiting") /\ AnswerGiven(c)' = AnswerGiven(c)
  <2>1. Abs!Ask(c)
    BY <1>1, <1>2, <1>3, <1>4 DEF Called, Abs!Ask, Abs!Caller
  <2> QED
    BY <2>1 DEF Abs!Next
<1>5. CASE Called(c, "waiting", "failed") /\ AnswerGiven(c)' = AnswerGiven(c)
  <2>1. Abs!Fail(c)
    BY <1>1, <1>2, <1>3, <1>5 DEF Called, Abs!Fail, Abs!Caller
  <2> QED
    BY <2>1 DEF Abs!Next
<1>6. CASE /\ Called(c, "waiting", "answered")
           /\ ServerSees(c) = "replied" /\ AnswerGiven(c)' = BodyReplied(c)
  <2>1. Abs!Answer(c)
    BY <1>1, <1>2, <1>3, <1>6 DEF Called, Abs!Answer, Abs!Caller
  <2> QED
    BY <2>1 DEF Abs!Next
<1>7. CASE /\ Served(c, "unseen", "seen") /\ CallerSees(c) # "idle"
           /\ BodyReplied(c)' = BodyReplied(c)
  <2>1. Abs!See(c)
    BY <1>1, <1>2, <1>3, <1>7 DEF Served, Abs!See, Abs!Server
  <2> QED
    BY <2>1 DEF Abs!Next
<1>8. CASE Served(c, "seen", "replied") /\ BodyReplied(c)' \in 0..MaxChunks
  <2>1. Abs!Reply(c)
    BY <1>1, <1>2, <1>3, <1>8 DEF Served, Abs!Reply, Abs!Server
  <2> QED
    BY <2>1 DEF Abs!Next
<1>9. CASE Served(c, "seen", "refused") /\ BodyReplied(c)' = BodyReplied(c)
  <2>1. Abs!Refuse(c)
    BY <1>1, <1>2, <1>3, <1>9 DEF Served, Abs!Refuse, Abs!Server
  <2> QED
    BY <2>1 DEF Abs!Next
<1> QED
  BY <1>4, <1>5, <1>6, <1>7, <1>8, <1>9 DEF Turn

\* Each step of a call, its server or its loss is a turn, or is not seen.
LEMMA ActionIsTurn ==
  ASSUME ClientAssumption, TypeOK, NEW c \in Calls, CallOK(c), CallAction(c), UNCHANGED kind
  PROVE  Unseen(c) \/ Turn(c)
<1> USE DEF CallOK, connVars, callVars, srvVars, Exchanged, CallerSees, ServerSees,
            AnswerGiven, BodyReplied
<1>1. kind[c] \in {"request", "stream", "datagram"} /\ at[c] \in Places
  BY DEF TypeOK, ClientAssumption
<1>2. ASSUME NEW h \in Handles, Make(c, h)
      PROVE  Unseen(c) \/ Turn(c)
  <2>1. CASE kind[c] = "datagram"
    BY <1>2, <2>1 DEF Make, TypeOK, Unseen
  <2>2. CASE kind[c] # "datagram"
    BY <1>2, <2>2 DEF Make, TypeOK, Turn, Called
  <2> QED
    BY <2>1, <2>2
<1>3. CASE Opened(c)
  BY <1>1, <1>3 DEF Opened, Move, TypeOK, InFlight, Turn, Served
<1>4. CASE Finished(c) \/ Headed(c) \/ Chunk(c)
  BY <1>1, <1>4 DEF Finished, Headed, Chunk, Move, TypeOK, InFlight, Unseen
<1>5. CASE BodyEnds(c)
  BY <1>1, <1>5 DEF BodyEnds, Move, TypeOK, InFlight, Turn, Called
<1>6. CASE DatagramRead(c)
  BY <1>1, <1>6 DEF DatagramRead, Move, TypeOK, InFlight, Unseen
<1>7. CASE CallFails(c) \/ Abandon(c)
  <2>1. CASE kind[c] = "datagram"
    BY <1>7, <2>1 DEF CallFails, Abandon, Move, TypeOK, Unseen
  <2>2. CASE kind[c] # "datagram"
    BY <1>7, <2>2 DEF CallFails, Abandon, Pending, Move, TypeOK, InFlight, Turn, Called
  <2> QED
    BY <2>1, <2>2
<1>8. CASE StreamNext(c)
  <2>1. kind[c] # "datagram" /\ at[c] = "held" /\ UNCHANGED <<got, srv, wrote>>
    BY <1>8 DEF StreamNext
  <2>2. CASE Move(c, "next")
    BY <2>1, <2>2 DEF Move, TypeOK, InFlight, Unseen
  <2>3. CASE Move(c, "gone")
    BY <2>1, <2>3 DEF Move, TypeOK, InFlight, Turn, Called
  <2> QED
    BY <1>8, <2>2, <2>3 DEF StreamNext
<1>9. CASE ServerStep(c) \/ ServerResets(c)
  <2>1. UNCHANGED <<at, got>>
    BY <1>9 DEF ServerStep, ServerResets
  <2>2. CASE srv'[c] \in {"received", "answered"}
    BY <1>9, <2>1, <2>2 DEF ServerStep, ServerResets, TypeOK, Unseen
  <2>3. CASE srv'[c] = "ended"
    BY <1>9, <2>1, <2>3 DEF ServerStep, ServerResets, TypeOK, Turn, Served
  <2>4. CASE srv'[c] = "reset"
    BY <1>9, <2>1, <2>4 DEF ServerStep, ServerResets, TypeOK, Turn, Served
  <2> QED
    BY <1>9, <2>2, <2>3, <2>4 DEF ServerStep, ServerResets, TypeOK
<1> QED
  BY <1>2, <1>3, <1>4, <1>5, <1>6, <1>7, <1>8, <1>9 DEF CallAction, CallStep

\* client.rs implements Exchange: the server sees a call at most once, an
\* answer is its whole reply, and anything else is an error.
THEOREM ClientRefinement == Spec => ImplementsExchange
<1> USE ClientAssumption
<1>1. Init => Abs!Init
  BY DEF Init, Abs!Init, Exchanged, CallerSees, ServerSees, AnswerGiven, BodyReplied
<1>2. ASSUME TypeOK, CallInv, [Next]_vars
      PROVE  [Abs!Next]_(Abs!vars)
  <2>1. ASSUME \A d \in Calls : Unseen(d)
        PROVE  UNCHANGED Abs!vars
    BY <2>1 DEF Unseen, Abs!vars
  <2>2. CASE NoCall
    <3>1. \A d \in Calls : Unseen(d)
      BY <2>2 DEF NoCall, Unseen, Exchanged, CallerSees, ServerSees, AnswerGiven, BodyReplied
    <3> QED
      BY <2>1, <3>1
  <2>3. ASSUME NEW c \in Calls, CallAction(c), Others(c), UNCHANGED kind
        PROVE  [Abs!Next]_(Abs!vars)
    <3>1. Unseen(c) \/ Turn(c)
      BY <1>2, <2>3, ActionIsTurn DEF CallInv
    <3>2. \A d \in Calls \ {c} : Unseen(d)
      BY <2>3 DEF Others, Unseen, Exchanged, CallerSees, ServerSees, AnswerGiven, BodyReplied
    <3>3. CASE Unseen(c)
      BY <2>1, <3>2, <3>3
    <3>4. CASE Turn(c)
      BY <3>2, <3>4, TurnImplements
    <3> QED
      BY <3>1, <3>3, <3>4
  <2> QED
    BY <1>2, <2>2, <2>3, StepIsOfOneCall
<1> QED
  BY <1>1, <1>2, ClientTypeCorrect, CallInvariance, PTL
     DEF Spec, ImplementsExchange, Abs!Spec
=============================================================================
