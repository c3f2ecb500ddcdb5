----------------------------- MODULE MCSettings -----------------------------
(* Settings on small instances. *)
EXTENDS Settings, TLC

CONSTANTS home, vault

File(i, v, ok) == [config |-> [identity |-> i, version |-> v], sound |-> ok]

\* Configs that name each identity, a version or the reserved 0, and a broken
\* one.
MCFiles == {File(vault, 0, TRUE), File(home, 5, TRUE), File(vault, 5, FALSE)}

\* Keys are only compared, and processes are alike.
Symmetry == Permutations(Keys) \cup Permutations(Procs)
=============================================================================
