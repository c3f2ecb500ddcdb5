---------------------------- MODULE MCClientConn ----------------------------
(* ClientConn on a small instance. *)
EXTENDS ClientConn

CONSTANTS poll, watch

\* A call that may be parked, and one the server answers.
Pair(p, w) == [c \in Calls |-> IF c = poll THEN p ELSE w]
MCKinds == {Pair("request", "stream"), Pair("stream", "request"), Pair("datagram", "request")}
=============================================================================
