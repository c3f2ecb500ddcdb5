----------------------------- MODULE ClientConn -----------------------------
(***************************************************************************)
(* One HTTP/3 connection of crates/sqnr/src/client.rs: the handles on it   *)
(* (clones of Client and of Requests), the task that drives it, and the    *)
(* calls made from the handles: requests, streams and datagram reads, each *)
(* of which is a future that waits at every step.                          *)
(*                                                                         *)
(* quinn, h3 and the server are external.  h3 counts the SendRequests      *)
(* of a connection: when the last one is dropped the driver closes it.     *)
(* The server reads a request to its end before it answers it.             *)
(***************************************************************************)
EXTENDS Naturals

CONSTANTS
  Handles,    \* names for handles
  Calls,      \* calls a program makes
  Kinds,      \* what the calls are: functions from Calls to kinds
  Parked,     \* calls the server is free to leave unanswered for ever
  MaxChunks,  \* bound: chunks of one response body
  None        \* no handle

ASSUME ClientAssumption ==
  /\ Kinds \subseteq [Calls -> {"request", "stream", "datagram"}]
  /\ Parked \subseteq Calls
  /\ MaxChunks \in Nat
  /\ None \notin Handles

VARIABLES
  conn,     \* the QUIC connection
  driver,   \* the task spawned by dial
  lost,     \* the connection went by a timeout or by the peer, not by us
  dead,     \* the server has stopped: nothing comes from it any more
  handle,   \* the handles in the program's hands
  kind,     \* what each call is
  at,       \* where it is
  from,     \* the handle its future borrows
  got,      \* chunks of the response its caller has
  srv,      \* the server's half of its stream
  wrote,    \* chunks the server wrote
  inbox     \* datagrams waiting in the connection

connVars == <<conn, driver, lost, dead>>
callVars == <<kind, at, from, got>>
srvVars  == <<srv, wrote, inbox>>
vars     == <<connVars, handle, callVars, srvVars>>

\* A call's future: not yet made; in send_request, in send_data or finish, in
\* recv_response, recv_data or read_datagram; over.  A stream that has its
\* head is held by the caller, and its next() is a future again.
InFlight == {"opening", "sending", "head", "body", "next", "reading"}
Places   == InFlight \cup {"idle", "held", "ok", "err", "gone"}

\* Init: nothing is dialled, and nothing asked.
Init ==
  /\ conn = "none" /\ driver = "none"
  /\ lost = FALSE /\ dead = FALSE
  /\ handle = [h \in Handles |-> "none"]
  /\ kind   \in Kinds
  /\ at     = [c \in Calls |-> "idle"]
  /\ from   = [c \in Calls |-> None]
  /\ got    = [c \in Calls |-> 0]
  /\ srv    = [c \in Calls |-> "idle"]
  /\ wrote  = [c \in Calls |-> 0]
  /\ inbox  = 0

Usable(h)  == handle[h] \in {"client", "requests"}
Pending(c) == at[c] \in InFlight

\* Mutant of Sending: a Stream keeps the sender it was opened with.
SendingStream(c) == at[c] \in {"opening", "sending", "head", "body", "held", "next"}

\* Calls that hold a SendRequest of their own: request clones one from its
\* handle until it returns, stream until it has the head.
Sending(c) == at[c] \in {"opening", "sending", "head", "body"}
Unsent     == ~ (\E h \in Handles : Usable(h)) /\ ~ (\E c \in Calls : Sending(c))

\* get and post of a Client borrow it mutably; stream, read_datagram and
\* everything of a Requests only share it.  A borrowed handle is not dropped.
Borrowed(h)  == \E c \in Calls : from[c] = h
Exclusive(h) == handle[h] = "client" /\ \E c \in Calls : from[c] = h /\ kind[c] = "request"

-----------------------------------------------------------------------------
(* Dialling: connect, connect_as and dial *)

Dial(h) ==
  /\ conn = "none" /\ conn' = "dialing"
  /\ handle' = [handle EXCEPT ![h] = "dialing"]
  /\ UNCHANGED <<driver, lost, dead, callVars, srvVars>>

\* squic::dial is done; h3 is set up on a clone of the connection.
Dialled ==
  /\ conn = "dialing" /\ conn' = "setup"
  /\ UNCHANGED <<driver, lost, dead, handle, callVars, srvVars>>

\* Mutant of SetUp: no task drives the connection.
SetUpUndriven(h) ==
  /\ conn = "setup" /\ handle[h] = "dialing"
  /\ conn' = "open"
  /\ handle' = [handle EXCEPT ![h] = "client"]
  /\ UNCHANGED <<driver, lost, dead, callVars, srvVars>>

\* h3::client::new is done: spawn the driver, return the Client.
SetUp(h) ==
  /\ conn = "setup" /\ handle[h] = "dialing"
  /\ conn' = "open" /\ driver' = "running"
  /\ handle' = [handle EXCEPT ![h] = "client"]
  /\ UNCHANGED <<lost, dead, callVars, srvVars>>

\* Either step fails, within the handshake timeout: no Client, and what there
\* is of the connection is dropped.
DialFails(h) ==
  /\ conn \in {"dialing", "setup"} /\ handle[h] = "dialing"
  /\ conn' = "closed" /\ lost' = TRUE
  /\ handle' = [handle EXCEPT ![h] = "none"]
  /\ UNCHANGED <<driver, dead, callVars, srvVars>>

-----------------------------------------------------------------------------
(* Handles *)

\* Client::clone and Requests::clone copy a handle, Client::requests makes a
\* Requests of a Client.
CloneHandle(h, g, as) ==
  /\ Usable(h) /\ ~ Exclusive(h) /\ handle[g] = "none"
  /\ as = handle[h] \/ as = "requests"
  /\ handle' = [handle EXCEPT ![g] = as]
  /\ UNCHANGED <<connVars, callVars, srvVars>>

\* Mutant of DropHandle: the connection goes with the first Client dropped.
DropClosing(h) ==
  /\ Usable(h) /\ ~ Borrowed(h)
  /\ handle' = [handle EXCEPT ![h] = "none"]
  /\ conn' = IF handle[h] = "client" THEN "closed" ELSE conn
  /\ UNCHANGED <<driver, lost, dead, callVars, srvVars>>

\* Nothing is awaited: dropping a handle drops a SendRequest, and the Arc of
\* the driver's JoinHandle, which detaches the task.
DropHandle(h) ==
  /\ Usable(h) /\ ~ Borrowed(h)
  /\ handle' = [handle EXCEPT ![h] = "none"]
  /\ UNCHANGED <<connVars, callVars, srvVars>>

\* driver.wait_idle(): it returns when the connection is gone, or closes it
\* when no SendRequest is left.
DriverCloses ==
  /\ driver = "running"
  /\ conn = "closed" \/ Unsent
  /\ conn' = "closed" /\ driver' = "done"
  /\ UNCHANGED <<lost, dead, handle, callVars, srvVars>>

-----------------------------------------------------------------------------
(* Calls *)

\* The call goes on to place; its handle is borrowed no longer than its future
\* lives, and a Stream borrows none.
Move(c, place) ==
  /\ at'   = [at EXCEPT ![c] = place]
  /\ from' = [from EXCEPT ![c] = IF place \in InFlight THEN @ ELSE None]

\* get, post, stream or read_datagram is called; the last two are of Client
\* only.  request and stream work on a clone of the sender.
Make(c, h) ==
  /\ at[c] = "idle" /\ Usable(h) /\ ~ Exclusive(h)
  /\ kind[c] # "request" => handle[h] = "client"
  /\ (kind[c] = "request" /\ handle[h] = "client") => ~ Borrowed(h)
  /\ at'   = [at EXCEPT ![c] = IF kind[c] = "datagram" THEN "reading" ELSE "opening"]
  /\ from' = [from EXCEPT ![c] = h]
  /\ UNCHANGED <<connVars, handle, kind, got, srvVars>>

\* Mutant of Opened: a request has the sender to itself until it returns.
OpenedAlone(c) ==
  /\ at[c] = "opening" /\ conn = "open"
  /\ ~ \E d \in Calls \ {c} : Sending(d) /\ at[d] # "opening"
  /\ Move(c, "sending")
  /\ srv' = [srv EXCEPT ![c] = "receiving"]
  /\ UNCHANGED <<connVars, handle, kind, got, wrote, inbox>>

\* send_request opens the stream.
Opened(c) ==
  /\ at[c] = "opening" /\ conn = "open"
  /\ Move(c, "sending")
  /\ srv' = [srv EXCEPT ![c] = "receiving"]
  /\ UNCHANGED <<connVars, handle, kind, got, wrote, inbox>>

\* Mutant of Finished: the caller has its stream before the server answered.
FinishedEarly(c) ==
  /\ at[c] = "sending" /\ conn = "open"
  /\ Move(c, IF kind[c] = "stream" THEN "held" ELSE "head")
  /\ UNCHANGED <<connVars, handle, kind, got, srvVars>>

\* send_data, if there is a body, and finish, which closes our half;
\* recv_response waits for the head.
Finished(c) ==
  /\ at[c] = "sending" /\ conn = "open"
  /\ Move(c, "head")
  /\ UNCHANGED <<connVars, handle, kind, got, srvVars>>

\* The head arrives: request goes on to the body, stream returns a Stream.
\* What has arrived can be read even after the connection is gone.
Headed(c) ==
  /\ at[c] = "head" /\ srv[c] \in {"answered", "ended"}
  /\ Move(c, IF kind[c] = "stream" THEN "held" ELSE "body")
  /\ UNCHANGED <<connVars, handle, kind, got, srvVars>>

\* recv_data in the loop of request, or in next of a Stream: a chunk (which h3
\* may have coalesced from several writes), or the end of the body.
Chunk(c) ==
  /\ at[c] \in {"body", "next"} /\ got[c] < wrote[c]
  /\ \E n \in (got[c] + 1)..wrote[c] : got' = [got EXCEPT ![c] = n]
  /\ Move(c, IF at[c] = "next" THEN "held" ELSE "body")
  /\ UNCHANGED <<connVars, handle, kind, srvVars>>

\* recv_data gives None once the server has finished and everything is read:
\* request returns Ok, next returns Ok(None).
BodyEnds(c) ==
  /\ at[c] \in {"body", "next"} /\ srv[c] = "ended" /\ got[c] = wrote[c]
  /\ Move(c, "ok")
  /\ UNCHANGED <<connVars, handle, kind, got, srvVars>>

\* The caller asks its Stream for more, or drops it; no Drop sends anything.
StreamNext(c) ==
  /\ at[c] = "held"
  /\ Move(c, "next") \/ Move(c, "gone")
  /\ UNCHANGED <<connVars, handle, kind, got, srvVars>>

\* read_datagram takes the next one, whichever clone asked.
DatagramRead(c) ==
  /\ at[c] = "reading" /\ inbox > 0
  /\ inbox' = inbox - 1
  /\ Move(c, "ok")
  /\ UNCHANGED <<connVars, handle, kind, got, srv, wrote>>

\* Mutant of CallFails: the loop over the body ends on an error as on None.
CallFailsQuietly(c) ==
  /\ Pending(c) /\ (conn = "closed" \/ srv[c] = "reset")
  /\ Move(c, IF at[c] = "body" THEN "ok" ELSE "err")
  /\ UNCHANGED <<connVars, handle, kind, got, srvVars>>

\* Mutant of CallFails: a call whose stream was reset is sent again.
CallRetries(c) ==
  /\ Pending(c) /\ (conn = "closed" \/ srv[c] = "reset")
  /\ Move(c, IF conn = "open" /\ at[c] = "head" THEN "opening" ELSE "err")
  /\ UNCHANGED <<connVars, handle, kind, got, srvVars>>

\* Every step maps its error to Err and returns: the connection is gone, or
\* the server reset the stream.
CallFails(c) ==
  /\ Pending(c) /\ (conn = "closed" \/ srv[c] = "reset")
  /\ Move(c, "err")
  /\ UNCHANGED <<connVars, handle, kind, got, srvVars>>

\* The caller drops the future; there is no timeout of its own.
Abandon(c) ==
  /\ Pending(c)
  /\ Move(c, "gone")
  /\ UNCHANGED <<connVars, handle, kind, got, srvVars>>

CallStep(c) ==
  Opened(c) \/ Finished(c) \/ Headed(c) \/ Chunk(c) \/ BodyEnds(c)
    \/ DatagramRead(c) \/ CallFails(c)

-----------------------------------------------------------------------------
(* The server and the network *)

\* The server reads to the end of the request (which a future dropped half
\* way brings about too: quinn finishes a dropped stream), answers, writes
\* and ends; that nobody reads any more it learns from a write.
ServerStep(c) ==
  /\ conn = "open" /\ ~ dead
  /\ \/ /\ srv[c] = "receiving" /\ at[c] # "sending"
        /\ srv' = [srv EXCEPT ![c] = "received"]
        /\ UNCHANGED wrote
     \/ /\ srv[c] = "received"
        /\ srv' = [srv EXCEPT ![c] = "answered"]
        /\ UNCHANGED wrote
     \/ /\ srv[c] = "answered" /\ at[c] \notin {"err", "gone"} /\ wrote[c] < MaxChunks
        /\ wrote' = [wrote EXCEPT ![c] = @ + 1]
        /\ UNCHANGED srv
     \/ /\ srv[c] = "answered"
        /\ srv' = [srv EXCEPT ![c] = IF at[c] \in {"err", "gone"} THEN "reset" ELSE "ended"]
        /\ UNCHANGED wrote
  /\ UNCHANGED <<connVars, handle, callVars, inbox>>

ServerResets(c) ==
  /\ conn = "open" /\ ~ dead /\ srv[c] \in {"receiving", "received", "answered"}
  /\ srv' = [srv EXCEPT ![c] = "reset"]
  /\ UNCHANGED <<connVars, handle, callVars, wrote, inbox>>

\* A datagram arrives; on a connection made by connect, which does not enable
\* them, none does.
Datagram ==
  /\ conn = "open" /\ ~ dead /\ inbox = 0
  /\ inbox' = 1
  /\ UNCHANGED <<connVars, handle, callVars, srv, wrote>>

ServerDies ==
  /\ conn = "open" /\ ~ dead
  /\ dead' = TRUE
  /\ UNCHANGED <<conn, driver, lost, handle, callVars, srvVars>>

\* The path or the peer goes: QUIC's idle timeout, with our keep-alives
\* unanswered, or a close from the server.
Lose ==
  /\ conn = "open"
  /\ conn' = "closed" /\ lost' = TRUE
  /\ UNCHANGED <<driver, dead, handle, callVars, srvVars>>

-----------------------------------------------------------------------------
Next ==
  \/ Dialled \/ DriverCloses \/ Datagram \/ ServerDies \/ Lose
  \/ \E h \in Handles : Dial(h) \/ SetUp(h) \/ DialFails(h) \/ DropHandle(h)
  \/ \E h, g \in Handles, as \in {"client", "requests"} : CloneHandle(h, g, as)
  \/ \E c \in Calls, h \in Handles : Make(c, h)
  \/ \E c \in Calls : \/ CallStep(c) \/ StreamNext(c) \/ Abandon(c)
                      \/ ServerStep(c) \/ ServerResets(c)

Spec == Init /\ [][Next]_vars

\* tokio polls every task that can go on; the server answers the calls it is
\* not free to park; keep-alives that nobody answers end in a timeout.
Fairness ==
  /\ WF_vars(DriverCloses)
  /\ WF_vars(dead /\ Lose)
  /\ \A c \in Calls : WF_vars(CallStep(c))
  /\ \A c \in Calls \ Parked : WF_vars(ServerStep(c))

FairSpec == Spec /\ Fairness

-----------------------------------------------------------------------------
(* Properties *)

\* Every variable has its type; an open connection is driven,
\* and its driver outlives it.
TypeOK ==
  /\ conn \in {"none", "dialing", "setup", "open", "closed"}
  /\ driver \in {"none", "running", "done"}
  /\ {lost, dead} \subseteq BOOLEAN
  /\ handle \in [Handles -> {"none", "dialing", "client", "requests"}]
  /\ kind  \in Kinds
  /\ at    \in [Calls -> Places]
  /\ from  \in [Calls -> Handles \cup {None}]
  /\ srv   \in [Calls -> {"idle", "receiving", "received", "answered", "ended", "reset"}]
  /\ wrote \in [Calls -> 0..MaxChunks]
  /\ got   \in [Calls -> 0..MaxChunks]
  /\ inbox \in 0..1
  /\ \A c \in Calls : got[c] <= wrote[c]
  /\ conn = "open" => driver = "running"
  /\ driver = "done" => conn = "closed"

\* A request that returns Ok, and a stream whose next says None, has the whole
\* body the server wrote: a connection lost or a stream reset in the middle of
\* it is an error, never a shorter answer.
OkIsComplete ==
  \A c \in Calls : (at[c] = "ok" /\ kind[c] # "datagram") =>
    srv[c] = "ended" /\ got[c] = wrote[c]

\* client.rs: a Stream that was returned is "proof that the server has the
\* request in hand", to its last byte.
StreamMeansReceived ==
  \A c \in Calls : at[c] \in {"held", "next"} => srv[c] \notin {"idle", "receiving"}

\* client.rs: "Dropping a clone does not close the connection; it lives as long
\* as any handle does".  So a call fails only because the server or the network
\* failed it, never because handles were dropped or other calls ended beside
\* it; but a Stream, which holds no handle, may also fail after the last one.
FailureIsExternal ==
  \A c \in Calls : at[c] = "err" =>
    \/ lost \/ srv[c] = "reset"
    \/ kind[c] = "stream" /\ \A h \in Handles : ~ Usable(h)

\* client.rs, on Requests: "It does **not** keep the connection open: when the
\* `Client` is dropped the connection goes".
RequestsHoldNothing ==
  (conn = "open" /\ \A h \in Handles : handle[h] # "client") ~> conn = "closed"

\* A parked call, however long it lasts, holds up no other: every call the
\* server means to answer returns, and every call at all returns once the
\* connection is closed or the server has died.  (A live server that never
\* answers does hold its caller for ever: there is no timeout.)
NobodyHangs ==
  \A c \in Calls :
    (Pending(c) /\ (c \notin Parked \/ dead \/ conn = "closed")) ~> ~ Pending(c)

\* "which is what should happen when the last handle goes": nothing leaks.
\* When every Client and every Requests has been dropped, whatever calls they
\* made before, the connection closes and its driver task ends; a Stream that
\* is still open does not keep them.
LastHandleCloses ==
  (driver # "none" /\ \A h \in Handles : ~ Usable(h)) ~> (driver = "done" /\ conn = "closed")

\* Requests and streams as exchanges, the way caller and server see them; a
\* datagram reader is in none.
Exchanged(c) == kind[c] # "datagram"
CallerSees(c) == CASE ~ Exchanged(c) \/ at[c] = "idle" -> "idle"
                   [] Exchanged(c) /\ at[c] = "ok"     -> "answered"
                   [] Exchanged(c) /\ at[c] \in {"err", "gone"} -> "failed"
                   [] OTHER                            -> "waiting"
ServerSees(c) == CASE srv[c] = "idle"  -> "unseen"
                   [] srv[c] = "ended" -> "replied"
                   [] srv[c] = "reset" -> "refused"
                   [] OTHER            -> "seen"
AnswerGiven(c) == IF Exchanged(c) /\ at[c] = "ok" THEN got[c] ELSE 0
BodyReplied(c) == IF srv[c] = "ended" THEN wrote[c] ELSE 0

Abs == INSTANCE Exchange WITH
  Bodies <- 0..MaxChunks,
  caller <- [c \in Calls |-> CallerSees(c)],
  answer <- [c \in Calls |-> AnswerGiven(c)],
  server <- [c \in Calls |-> ServerSees(c)],
  body   <- [c \in Calls |-> BodyReplied(c)]

\* See Abs: every step of the client, its server and its connection is a step
\* of Exchange or changes nothing of it; in particular no call is ever sent
\* twice, and none is answered with less than the server's whole reply.
ImplementsExchange == Abs!Spec
=============================================================================
