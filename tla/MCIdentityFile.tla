--------------------------- MODULE MCIdentityFile ---------------------------
(* IdentityFile on small instances. *)
EXTENDS IdentityFile, TLC

\* Keys are only compared, and processes are alike.
Symmetry == Permutations(Keys) \cup Permutations(Procs) \cup Permutations(Passes)
=============================================================================
