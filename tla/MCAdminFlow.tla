----------------------------- MODULE MCAdminFlow -----------------------------
(* AdminFlow on small instances. *)
EXTENDS AdminFlow

CONSTANTS card, soft, s1, s2, k1, k2, ks

\* One operation, and a batch of two, one more than MaxOps lets a server
\* decode.
MCBatches == {<<>>, <<"op">>, <<"op", "op">>}
MCSmallBatches == {<<"add">>, <<"remove">>}
MCSoftKey == [c \in {soft} |-> ks]
MCNoSoftKey == [c \in {} |-> ks]
\* The card's first key administers both servers, the software key only one,
\* and the key a reprovisioned card holds administers neither.
MCAdmins == [s \in Servers |-> IF s = s1 THEN {k1, ks} ELSE {k1}]
=============================================================================
