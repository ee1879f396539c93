-------------------------- MODULE InductionLemmas --------------------------
(***************************************************************************)
(* Induction over the natural numbers in a form the provers can use: a set *)
(* takes the place of the predicate, so that no operator is instantiated.  *)
(* To show P(n) for every n, apply it to {n \in Nat : P(n)}.               *)
(***************************************************************************)
EXTENDS Integers, FiniteSetsExt, WellFoundedInduction, NaturalsInduction, TLAPS

\* A non-empty set of natural numbers has a smallest one.
LEMMA SmallestNat ==
  ASSUME NEW T, T \subseteq Nat, T # {}
  PROVE  \E x \in T : \A y \in T : x <= y
<1> DEFINE R == OpToRel(<, Nat)
<1>1. IsWellFoundedOn(R, Nat)
  BY NatLessThanWellFounded
<1>2. ASSUME NEW x \in T, NEW y \in T, y < x
      PROVE  << y, x >> \in R
  BY <1>2 DEF OpToRel
<1> HIDE DEF R
<1>3. PICK x \in T : \A y \in T : ~(<< y, x >> \in R)
  BY <1>1, WFMin
<1>4. ASSUME NEW y \in T PROVE x <= y
  <2>1. ~(y < x)
    BY <1>2, <1>3
  <2>2. x \in Nat /\ y \in Nat
    OBVIOUS
  <2> QED BY <2>1, <2>2
<1> QED BY <1>4

\* Min() of such a set is in it and below all of it.
LEMMA MinOfNats ==
  ASSUME NEW T, T \subseteq Nat, T # {}
  PROVE  Min(T) \in T /\ \A y \in T : Min(T) <= y
<1>1. \E x \in T : \A y \in T : x =< y
  BY SmallestNat
<1> QED BY <1>1 DEF Min

LEMMA Induction ==
  ASSUME NEW S, 0 \in S, \A n \in Nat : n \in S => n + 1 \in S
  PROVE  \A n \in Nat : n \in S
<1> DEFINE T == Nat \ S
<1>1. SUFFICES ASSUME T # {} PROVE FALSE
  OBVIOUS
<1>2. PICK x \in T : \A y \in T : x <= y
  <2>1. T \subseteq Nat
    OBVIOUS
  <2> HIDE DEF T
  <2> QED BY <1>1, <2>1, SmallestNat
<1>3. x \in Nat \ {0}
  OBVIOUS
<1>4. x - 1 \in Nat /\ ~(x <= x - 1) /\ x = (x - 1) + 1
  BY <1>3
<1>5. x - 1 \in S
  BY <1>2, <1>4
<1> QED BY <1>3, <1>4, <1>5

\* The greatest of one.
LEMMA MaxOfOne == ASSUME NEW k \in Int PROVE Max({k}) = k
BY DEF Max

\* A function defined by recursion over 0 .. n exists, and whatever satisfies
\* its equation stays in the sets T[0], ..., T[n] if the base is in the first
\* and each step leads from one into the next.
Leads(n, T, base, step) ==
  base \in T[0] /\ \A k \in 1 .. n : \A d \in T[k - 1] : step[k][d] \in T[k]

LEMMA RecursionExists ==
  ASSUME NEW n \in Nat, NEW T, NEW base, NEW step, Leads(n, T, base, step)
  PROVE  \E f : /\ f = [k \in 0 .. n |-> IF k = 0 THEN base ELSE step[k][f[k - 1]]]
                /\ \A k \in 0 .. n : f[k] \in T[k]
<1> DEFINE Fits(f, m) ==
             /\ f = [k \in 0 .. m |-> IF k = 0 THEN base ELSE step[k][f[k - 1]]]
             /\ \A k \in 0 .. m : f[k] \in T[k]
           M == {m \in Nat : m <= n => \E f : Fits(f, m)}
<1>1. 0 \in M
  <2>1. Fits([k \in 0 .. 0 |-> base], 0)
    BY DEF Leads
  <2> QED BY <2>1
<1>2. ASSUME NEW m \in Nat, m \in M PROVE m + 1 \in M
  <2>1. SUFFICES ASSUME m + 1 <= n PROVE \E f : Fits(f, m + 1)
    OBVIOUS
  <2>2. PICK f : Fits(f, m)
    BY <1>2, <2>1
  <2>3. PICK g : g = [k \in 0 .. m + 1 |->
                        IF k = m + 1 THEN step[m + 1][f[m]] ELSE f[k]]
    OBVIOUS
  <2>4. /\ DOMAIN g = 0 .. m + 1 /\ g[m + 1] = step[m + 1][f[m]]
        /\ \A k \in 0 .. m : g[k] = f[k]
    BY <2>3
  <2>5. f[m] \in T[m] /\ m + 1 \in 1 .. n /\ m = (m + 1) - 1
    BY <2>1, <2>2
  <2>6. g[m + 1] \in T[m + 1]
    BY <2>4, <2>5 DEF Leads
  <2>7. \A k \in 0 .. m + 1 : g[k] \in T[k]
    BY <2>2, <2>4, <2>6
  <2>8. \A k \in 0 .. m + 1 : g[k] = IF k = 0 THEN base ELSE step[k][g[k - 1]]
    <3> SUFFICES ASSUME NEW k \in 0 .. m + 1
                 PROVE  g[k] = IF k = 0 THEN base ELSE step[k][g[k - 1]]
      OBVIOUS
    <3>1. CASE k = m + 1
      <4>1. k # 0 /\ k - 1 = m /\ m \in 0 .. m
        BY <3>1
      <4>2. g[k] = step[k][f[m]] /\ g[m] = f[m]
        BY <2>4, <3>1, <4>1
      <4> QED BY <4>1, <4>2
    <3>2. CASE k \in 1 .. m
      <4>1. k # 0 /\ k - 1 \in 0 .. m /\ k \in 0 .. m
        BY <3>2
      <4>2. f[k] = step[k][f[k - 1]]
        BY <2>2, <4>1
      <4>3. g[k] = f[k] /\ g[k - 1] = f[k - 1]
        BY <2>4, <4>1
      <4> QED BY <4>1, <4>2, <4>3
    <3>3. CASE k = 0
      <4>1. g[k] = f[k] /\ f[k] = base
        BY <2>2, <2>4, <3>3
      <4> QED BY <3>3, <4>1
    <3> QED BY <3>1, <3>2, <3>3
  <2>9. g = [k \in 0 .. m + 1 |-> IF k = 0 THEN base ELSE step[k][g[k - 1]]]
    <3>1. g = [k \in 0 .. m + 1 |-> g[k]]
      BY <2>3
    <3> QED BY <2>8, <3>1
  <2> QED BY <2>7, <2>9
<1> HIDE DEF M
<1>3. n \in M
  BY <1>1, <1>2, Induction
<1> QED BY <1>3 DEF M

Stays(n, T, f) ==
  f[0] \in T[0] /\ \A k \in 1 .. n : f[k - 1] \in T[k - 1] => f[k] \in T[k]

LEMMA RecursionStays ==
  ASSUME NEW n \in Nat, NEW T, NEW f, Stays(n, T, f)
  PROVE  \A k \in 0 .. n : f[k] \in T[k]
<1> DEFINE M == {m \in Nat : m <= n => f[m] \in T[m]}
<1>1. 0 \in M
  BY DEF Stays
<1>2. ASSUME NEW m \in Nat, m \in M PROVE m + 1 \in M
  <2>1. SUFFICES ASSUME m + 1 <= n PROVE f[m + 1] \in T[m + 1]
    OBVIOUS
  <2>2. m + 1 \in 1 .. n /\ (m + 1) - 1 = m /\ f[m] \in T[m]
    BY <1>2, <2>1
  <2> QED BY <2>2 DEF Stays
<1> HIDE DEF M
<1>3. \A m \in Nat : m \in M
  BY <1>1, <1>2, Induction
<1> QED BY <1>3 DEF M
=============================================================================
