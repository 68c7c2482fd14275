------------------------------ MODULE Iteration ------------------------------
(***************************************************************************)
(* Induction over the natural numbers, and functions defined step by step. *)
(* The induction theorems of the library take an operator; these take a    *)
(* set, from the least element of a set of numbers.                        *)
(***************************************************************************)
EXTENDS Integers, NaturalsInduction, WellFoundedInduction, TLAPS

\* A set of numbers that is not empty has a least element.
LEMMA Least ==
  ASSUME NEW T \in SUBSET Nat, T # {}
  PROVE \E x \in T : \A y \in T : x <= y
<1> DEFINE R == {ss \in Nat \X Nat : ss[1] < ss[2]}
<1>1. IsWellFoundedOn(R, Nat)
  BY NatLessThanWellFounded DEF OpToRel
<1>2. \E x \in T : \A y \in T : ~ (<<y, x>> \in R)
  <2> HIDE DEF R
  <2> QED BY <1>1, WFMin
<1>3. \A x, y \in Nat : <<y, x>> \in R <=> y < x
  OBVIOUS
<1> HIDE DEF R
<1>4. PICK x \in T : \A y \in T : ~ (<<y, x>> \in R)
  BY <1>2
<1>5. \A y \in T : x \in Nat /\ y \in Nat
  OBVIOUS
<1>6. \A y \in T : ~(y < x)
  BY <1>3, <1>4, <1>5
<1>7. \A y \in T : x <= y
  BY <1>5, <1>6
<1> QED
  BY <1>7

\* Induction: a set of numbers with the first and with every next one has all.
LEMMA Count ==
  ASSUME NEW n \in Nat, NEW T, 0 \in T, \A m \in 1..n : m - 1 \in T => m \in T
  PROVE  \A m \in 0..n : m \in T
<1> DEFINE Missing == {m \in 0..n : m \notin T}
<1> SUFFICES ASSUME Missing # {} PROVE FALSE
  OBVIOUS
<1>1. PICK m \in Missing : \A l \in Missing : m <= l
  <2>1. Missing \in SUBSET Nat
    OBVIOUS
  <2> HIDE DEF Missing
  <2> QED
    BY <2>1, Least
<1>2. m \in 1..n /\ m - 1 \in 0..n /\ ~(m <= m - 1)
  BY <1>1
<1>3. m - 1 \in T
  BY <1>1, <1>2
<1> QED
  BY <1>1, <1>2, <1>3

\* A function whose every value is made from the one before.
Steps(f, n, base, F) == f[0] = base /\ \A i \in 1..n : f[i] = F[<<f[i - 1], i>>]

\* What is defined from one number to the next exists.
LEMMA Stepwise ==
  ASSUME NEW n \in Nat, NEW A, NEW base \in A, NEW F \in [A \X (1..n) -> A]
  PROVE  \E f \in [0..n -> A] : Steps(f, n, base, F)
<1> DEFINE T == {m \in 0..n : \E f \in [0..m -> A] : Steps(f, m, base, F)}
<1>1. 0 \in T
  <2> DEFINE f == [i \in 0..0 |-> base]
  <2>1. f \in [0..0 -> A] /\ Steps(f, 0, base, F)
    BY DEF Steps
  <2> HIDE DEF f
  <2> QED
    BY <2>1
<1>2. ASSUME NEW m \in 1..n, m - 1 \in T PROVE m \in T
  <2>1. PICK f \in [0..(m - 1) -> A] : Steps(f, m - 1, base, F)
    BY <1>2
  <2>2. f[m - 1] \in A /\ m \in 1..n /\ F[<<f[m - 1], m>>] \in A
    <3>1. m - 1 \in 0..(m - 1) /\ <<f[m - 1], m>> \in A \X (1..n)
      OBVIOUS
    <3> QED
      BY <3>1
  <2> DEFINE g == [i \in 0..m |-> IF i = m THEN F[<<f[m - 1], m>>] ELSE f[i]]
  <2>3. g \in [0..m -> A]
    BY <2>2
  <2>4. Steps(g, m, base, F)
    <3>1. \A i \in 0..(m - 1) : g[i] = f[i]
      OBVIOUS
    <3>2. g[m] = F[<<f[m - 1], m>>] /\ 0 \in 0..(m - 1) /\ m - 1 \in 0..(m - 1)
      OBVIOUS
    <3> HIDE DEF g
    <3>3. ASSUME NEW i \in 1..m PROVE g[i] = F[<<g[i - 1], i>>]
      <4>1. CASE i = m
        BY <3>1, <3>2, <4>1
      <4>2. CASE i # m
        <5>1. i \in 1..(m - 1) /\ i \in 0..(m - 1) /\ i - 1 \in 0..(m - 1)
          BY <4>2
        <5> QED
          BY <2>1, <3>1, <5>1 DEF Steps
      <4> QED
        BY <4>1, <4>2
    <3> QED
      BY <2>1, <3>1, <3>2, <3>3 DEF Steps
  <2> HIDE DEF g
  <2> QED
    BY <2>3, <2>4
<1>3. n \in 0..n /\ \A m \in 1..n : m - 1 \in T => m \in T
  BY <1>2
<1> HIDE DEF T
<1>4. n \in T
  BY <1>1, <1>3, Count
<1> QED
  BY <1>4 DEF T

=============================================================================
