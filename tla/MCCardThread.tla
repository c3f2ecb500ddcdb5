---------------------------- MODULE MCCardThread ----------------------------
(* CardThread on small instances. *)
EXTENDS CardThread, TLC

CONSTANTS i1, i2, a, b

\* Both callers hold clones of one handle.
MCOneHost  == [k \in Callers |-> i1]
\* Two processes, each with a handle of its own.
MCTwoHosts == [k \in Callers |-> IF k = a THEN i1 ELSE i2]

\* Keys are only compared, and clones of one handle are interchangeable.
KeySymmetry    == Permutations(Keys)
CallerSymmetry == Permutations(Keys) \cup Permutations(Callers)
=============================================================================
