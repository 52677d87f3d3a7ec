----------------------------- MODULE Iteration -----------------------------
(***************************************************************************)
(* Induction over the naturals as a fact about sets, and what it gives for *)
(* the loops of the code: a function defined by iterating a step exists,   *)
(* and what every step keeps holds after any number of them.               *)
(***************************************************************************)
EXTENDS Integers, WellFoundedInduction, TLAPS

(* Every set of naturals with an element has a least one.                  *)
LEMMA LeastElement ==
  ASSUME NEW T, T \subseteq Nat, T # {}
  PROVE  \E x \in T : \A y \in T : x <= y
<1> DEFINE R == OpToRel(<, Nat)
<1>1. IsWellFoundedOn(R, Nat)
  BY NatLessThanWellFounded
<1>2. \E x \in T : \A y \in T : ~ (<<y, x>> \in R)
  <2> HIDE DEF R
  <2> QED BY <1>1, WFMin
<1>3. PICK x \in T : \A y \in T : ~ (<<y, x>> \in R)
  BY <1>2
<1>4. \A y \in T : ~ (y < x)
  BY <1>3 DEF OpToRel
<1> QED BY <1>4

(* A set with 0 and the successor of each of its naturals has them all.    *)
LEMMA SetInduction ==
  ASSUME NEW T, 0 \in T, \A n \in Nat : n \in T => n + 1 \in T
  PROVE  \A n \in Nat : n \in T
<1> SUFFICES ASSUME \E n \in Nat : n \notin T PROVE FALSE
  OBVIOUS
<1> DEFINE U == Nat \ T
<1>1. PICK x \in U : \A y \in U : x <= y
  BY LeastElement
<1>2. x # 0 /\ x - 1 \in Nat /\ x - 1 \notin U
  BY <1>1
<1> QED BY <1>1, <1>2

(* The same, up to a bound.                                                *)
LEMMA BoundedInduction ==
  ASSUME NEW m \in Nat, NEW n \in Nat, NEW T,
         m \in T, \A k \in m..(n - 1) : k \in T => k + 1 \in T
  PROVE  \A k \in m..n : k \in T
<1> DEFINE U == {j \in Nat : m + j <= n => m + j \in T}
<1>1. 0 \in U
  OBVIOUS
<1>2. ASSUME NEW j \in Nat, j \in U PROVE j + 1 \in U
  <2>1. SUFFICES ASSUME m + (j + 1) <= n PROVE m + (j + 1) \in T
    OBVIOUS
  <2>2. m + j \in T /\ m + j \in m..(n - 1) /\ (m + j) + 1 = m + (j + 1)
    BY <1>2, <2>1
  <2> QED BY <2>2
<1>3. \A j \in Nat : j \in U
  <2> HIDE DEF U
  <2> QED BY <1>1, <1>2, SetInduction
<1>4. ASSUME NEW k \in m..n PROVE k \in T
  <2>1. k - m \in Nat /\ m + (k - m) = k
    OBVIOUS
  <2>2. k - m \in U
    BY <1>3, <2>1
  <2> QED BY <2>1, <2>2
<1> QED BY <1>4

(* A step can be iterated any number of times.                             *)
Iterable(n, S, start, step) ==
  \E f \in [0..n -> S] : f[0] = start /\ \A k \in 1..n : f[k] = step[k][f[k - 1]]

LEMMA IterationExists ==
  ASSUME NEW S, NEW start \in S, NEW step \in [Nat -> [S -> S]], NEW m \in Nat
  PROVE  Iterable(m, S, start, step)
<1> DEFINE Solves(f, n) == f[0] = start /\ \A k \in 1..n : f[k] = step[k][f[k - 1]]
           T == {n \in Nat : \E f \in [0..n -> S] : Solves(f, n)}
<1>1. 0 \in T
  <2> DEFINE f == [k \in 0..0 |-> start]
  <2>1. f \in [0..0 -> S] /\ Solves(f, 0)
    OBVIOUS
  <2> QED BY <2>1
<1>2. ASSUME NEW n \in Nat, n \in T PROVE n + 1 \in T
  <2>1. PICK f \in [0..n -> S] : Solves(f, n)
    BY <1>2
  <2> DEFINE g == [k \in 0..(n + 1) |-> IF k = n + 1 THEN step[n + 1][f[n]] ELSE f[k]]
  <2>2. g \in [0..(n + 1) -> S] /\ g[0] = start /\ g[n + 1] = step[n + 1][f[n]]
    BY <2>1
  <2>3. \A k \in 0..n : g[k] = f[k]
    OBVIOUS
  <2>4. ASSUME NEW k \in 1..(n + 1) PROVE g[k] = step[k][g[k - 1]]
    <3>1. k - 1 \in 0..n
      OBVIOUS
    <3>2. g[k - 1] = f[k - 1]
      BY <2>3, <3>1
    <3>3. CASE k = n + 1
      BY <2>2, <3>2, <3>3
    <3>4. CASE k # n + 1
      <4>1. k \in 1..n /\ k \in 0..n
        BY <3>4
      <4>2. f[k] = step[k][f[k - 1]]
        BY <2>1, <4>1
      <4> HIDE DEF g
      <4> QED BY <2>3, <3>2, <4>1, <4>2
    <3> QED BY <3>3, <3>4
  <2> HIDE DEF g
  <2>5. \E h \in [0..(n + 1) -> S] : Solves(h, n + 1)
    BY <2>2, <2>4
  <2> QED BY <2>5
<1> HIDE DEF T
<1>3. \A n \in Nat : n \in T
  BY <1>1, <1>2, SetInduction
<1> QED BY <1>3 DEF T, Iterable
=============================================================================
