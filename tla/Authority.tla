------------------------------ MODULE Authority ------------------------------
(***************************************************************************)
(* What the signed-transaction protocol promises, stated without nonces,   *)
(* challenges, connections or retries: an operator approves a transaction, *)
(* a key signs what was approved, and a server executes a signed           *)
(* transaction addressed to it at most once, and only under the authority  *)
(* of one of its administrators.                                           *)
(*                                                                         *)
(* AdminFlow implements this specification.                                *)
(***************************************************************************)
EXTENDS Sequences

CONSTANTS
  Servers,   \* the servers' Ed25519 keys
  Keys,      \* the keys that may sign
  Txs,       \* the transactions that may be approved
  Admins     \* Admins[s]: the keys server s accepts

VARIABLES
  approved,  \* transactions an operator was shown
  granted,   \* pairs of a transaction and a key that signed it
  executed   \* executed[s]: what server s has run, in order

vars == <<approved, granted, executed>>

Grants == [tx : Txs, key : Keys]

Executed(s, t) == \E i \in DOMAIN executed[s] : executed[s][i].tx = t

Init ==
  /\ approved = {}
  /\ granted  = {}
  /\ executed = [s \in Servers |-> <<>>]

Approve(t) ==
  /\ approved' = approved \cup {t}
  /\ UNCHANGED <<granted, executed>>

Grant(t, k) ==
  /\ t \in approved
  /\ granted' = granted \cup {[tx |-> t, key |-> k]}
  /\ UNCHANGED <<approved, executed>>

Execute(s, g) ==
  /\ g \in granted
  /\ g.tx.server = s
  /\ g.key \in Admins[s]
  /\ ~ Executed(s, g.tx)
  /\ executed' = [executed EXCEPT ![s] = Append(@, g)]
  /\ UNCHANGED <<approved, granted>>

Next ==
  \/ \E t \in Txs : Approve(t)
  \/ \E t \in Txs, k \in Keys : Grant(t, k)
  \/ \E s \in Servers, g \in Grants : Execute(s, g)

Spec == Init /\ [][Next]_vars
=============================================================================
