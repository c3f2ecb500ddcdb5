------------------------------ MODULE Exchange ------------------------------
(***************************************************************************)
(* What a caller may count on when it makes a call of client.rs, and what  *)
(* AdminFlow takes for granted of its GET and POST: the server sees a call *)
(* at most once, however it ends; an answer is the whole body of the       *)
(* server's only reply; and any call may fail at any time, whatever the    *)
(* server has made of it.                                                  *)
(***************************************************************************)
EXTENDS Naturals

CONSTANTS
  Calls,
  Bodies   \* sizes a body may have

VARIABLES
  caller,  \* caller[c]: "idle", "waiting", "answered" or "failed"
  answer,  \* the size of the body the caller was given
  server,  \* server[c]: "unseen", "seen", "replied" or "refused"
  body     \* the size of the body the server replied with

vars == <<caller, answer, server, body>>

Init ==
  /\ caller = [c \in Calls |-> "idle"]
  /\ server = [c \in Calls |-> "unseen"]
  /\ answer = [c \in Calls |-> 0]
  /\ body   = [c \in Calls |-> 0]

Caller(c, old, new) == caller[c] = old /\ caller' = [caller EXCEPT ![c] = new]
Server(c, old, new) == server[c] = old /\ server' = [server EXCEPT ![c] = new]

Ask(c) == Caller(c, "idle", "waiting") /\ UNCHANGED <<answer, server, body>>

See(c) ==
  /\ caller[c] # "idle"
  /\ Server(c, "unseen", "seen")
  /\ UNCHANGED <<caller, answer, body>>

Reply(c) ==
  /\ Server(c, "seen", "replied")
  /\ \E n \in Bodies : body' = [body EXCEPT ![c] = n]
  /\ UNCHANGED <<caller, answer>>

Refuse(c) == Server(c, "seen", "refused") /\ UNCHANGED <<caller, answer, body>>

Answer(c) ==
  /\ server[c] = "replied"
  /\ Caller(c, "waiting", "answered")
  /\ answer' = [answer EXCEPT ![c] = body[c]]
  /\ UNCHANGED <<server, body>>

Fail(c) == Caller(c, "waiting", "failed") /\ UNCHANGED <<answer, server, body>>

Next == \E c \in Calls : Ask(c) \/ See(c) \/ Reply(c) \/ Refuse(c) \/ Answer(c) \/ Fail(c)

Spec == Init /\ [][Next]_vars
=============================================================================
