------------------------------ MODULE Iteration ------------------------------
(***************************************************************************)
(* Functions defined by recursion on 0..n, in a first-order form: the step *)
(* is a function g, with g[i][x] the value that follows x at i.  Induction *)
(* is by the least counterexample.                                         *)
(***************************************************************************)
EXTENDS Integers, WellFoundedInduction, TLAPS

\* f starts at c and follows g up to n.
Iterates(f, c, g, n) ==
  f[0] = c /\ \A i \in 1..n : f[i] = g[i][f[i - 1]]

\* Every set of naturals that is not empty has a least member.
LEMMA LeastNatural ==
  ASSUME NEW T, T \subseteq Nat, T # {}
  PROVE  \E m \in T : \A k \in T : m <= k
<1>1. PICK m \in T : \A k \in T : <<k, m>> \notin OpToRel(<, Nat)
  BY NatLessThanWellFounded, WFMin
<1>2. \A k \in T : ~ (k < m)
  BY <1>1 DEF OpToRel
<1> QED
  BY <1>2

\* A set that holds 0 and is closed under + 1 up to n holds all of 0..n.
LEMMA UpTo ==
  ASSUME NEW n \in Nat, NEW P, 0 \in P, \A i \in 1..n : i - 1 \in P => i \in P
  PROVE  \A i \in 0..n : i \in P
<1> DEFINE T == {i \in 0..n : i \notin P}
<1>1. SUFFICES ASSUME T # {} PROVE FALSE
  OBVIOUS
<1>2. PICK m \in T : \A k \in T : m <= k
  <2>1. T \subseteq Nat
    OBVIOUS
  <2> HIDE DEF T
  <2> QED
    BY <1>1, <2>1, LeastNatural
<1>3. m \in 1..n /\ m - 1 \in 0..n /\ m - 1 \notin T
  BY <1>2
<1> QED
  BY <1>2, <1>3

\* The iteration exists.
LEMMA IterationExists ==
  ASSUME NEW n \in Nat, NEW S, NEW c \in S, NEW g \in [1..n -> [S -> S]]
  PROVE  \E f \in [0..n -> S] : Iterates(f, c, g, n)
<1> DEFINE P == {m \in 0..n : \E f \in [0..m -> S] : Iterates(f, c, g, m)}
<1>1. 0 \in P
  <2>1. [i \in 0..0 |-> c] \in [0..0 -> S] /\ Iterates([i \in 0..0 |-> c], c, g, 0)
    BY DEF Iterates
  <2> QED
    BY <2>1
<1>2. ASSUME NEW m \in 1..n, m - 1 \in P
      PROVE  m \in P
  <2>1. PICK f \in [0..(m - 1) -> S] : Iterates(f, c, g, m - 1)
    BY <1>2
  <2> DEFINE h == [i \in 0..m |-> IF i = m THEN g[m][f[m - 1]] ELSE f[i]]
  <2>2. h \in [0..m -> S]
    OBVIOUS
  <2>3. Iterates(h, c, g, m)
    BY <2>1 DEF Iterates
  <2> QED
    BY <2>2, <2>3
<1>3. \A i \in 0..n : i \in P
  <2> HIDE DEF P
  <2> QED
    BY <1>1, <1>2, UpTo
<1> QED
  BY <1>3

\* It is unique.
LEMMA IterationUnique ==
  ASSUME NEW n \in Nat, NEW c, NEW g, NEW f, NEW h,
         Iterates(f, c, g, n), Iterates(h, c, g, n)
  PROVE  \A i \in 0..n : f[i] = h[i]
<1> DEFINE P == {i \in 0..n : f[i] = h[i]}
<1>1. 0 \in P
  BY DEF Iterates
<1>2. ASSUME NEW i \in 1..n, i - 1 \in P
      PROVE  i \in P
  BY <1>2 DEF Iterates
<1>3. \A i \in 0..n : i \in P
  <2> HIDE DEF P
  <2> QED
    BY <1>1, <1>2, UpTo
<1> QED
  BY <1>3
=============================================================================
