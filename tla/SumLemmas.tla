----------------------------- MODULE SumLemmas ------------------------------
(***************************************************************************)
(* Induction over the natural numbers and sums of sequences.  Induction is *)
(* stated with a set instead of a predicate, so that a proof can use it by *)
(* naming the set of the numbers for which its claim holds.                *)
(***************************************************************************)
EXTENDS Naturals, WellFoundedInduction, TLAPS

\* A nonempty set of natural numbers has a least element.
LEMMA LeastElement ==
    ASSUME NEW S \in SUBSET Nat, S # {}
    PROVE  \E u \in S : \A v \in S : u <= v
<1> DEFINE R == {ss \in Nat \X Nat : ss[1] < ss[2]}
<1>1. IsWellFoundedOn(R, Nat)
  BY NatLessThanWellFounded, Zenon DEF OpToRel
<1>2. PICK u \in S : \A v \in S : ~(<<v, u>> \in R)
  <2> HIDE DEF R
  <2> QED
    BY <1>1, WFMin
<1>3. ASSUME NEW v \in S, v < u PROVE FALSE
  <2>1. <<v, u>> \in R
    BY <1>3
  <2> QED
    BY <1>2, <2>1
<1> QED
  BY <1>3

\* Induction, stated with a set.
LEMMA SetInduction ==
    ASSUME NEW S \in SUBSET Nat, 0 \in S, \A m \in S : m + 1 \in S
    PROVE  S = Nat
<1> SUFFICES ASSUME Nat \ S # {} PROVE FALSE
  OBVIOUS
<1>1. PICK u \in Nat \ S : \A v \in Nat \ S : u <= v
  BY LeastElement
<1>2. u - 1 \in Nat /\ u - 1 \in S
  BY <1>1
<1> QED
  BY <1>2

\* Numbers can be added up one after the other.
LEMMA SumExists ==
    ASSUME NEW n \in Nat, NEW w \in [1 .. n -> Nat]
    PROVE  \E f \in [0 .. n -> Nat] : f[0] = 0 /\ \A k \in 1 .. n : f[k] = w[k] + f[k - 1]
<1> DEFINE Sums(m) == {f \in [0 .. m -> Nat] :
                          f[0] = 0 /\ \A k \in 1 .. m : f[k] = w[k] + f[k - 1]}
           S == {m \in Nat : m <= n => Sums(m) # {}}
<1>1. 0 \in S
  <2>1. [k \in 0 .. 0 |-> 0] \in Sums(0)
    OBVIOUS
  <2> QED
    BY <2>1
<1>2. ASSUME NEW m \in S PROVE m + 1 \in S
  <2>0. m \in Nat /\ (m <= n => Sums(m) # {})
    OBVIOUS
  <2> HIDE DEF Sums
  <2> SUFFICES ASSUME m + 1 <= n PROVE Sums(m + 1) # {}
    BY <2>0
  <2>5. Sums(m) # {}
    BY <2>0
  <2> USE DEF Sums
  <2>1. PICK f \in [0 .. m -> Nat] : f[0] = 0 /\ \A k \in 1 .. m : f[k] = w[k] + f[k - 1]
    BY <2>5, Zenon
  <2> DEFINE g == [k \in 0 .. m + 1 |-> IF k = m + 1 THEN w[m + 1] + f[m] ELSE f[k]]
  <2>2. g \in [0 .. m + 1 -> Nat]
    <3>1. w[m + 1] \in Nat /\ f[m] \in Nat
      OBVIOUS
    <3> QED
      BY <2>1, <3>1
  <2>3. g[0] = 0 /\ \A k \in 1 .. m + 1 : g[k] = w[k] + g[k - 1]
    <3>1. g[0] = 0
      BY <2>1
    <3>2. ASSUME NEW k \in 1 .. m + 1 PROVE g[k] = w[k] + g[k - 1]
      <4>1. g[k - 1] = f[k - 1]
        OBVIOUS
      <4>2. CASE k = m + 1
        BY <4>1, <4>2
      <4>3. CASE k # m + 1
        BY <2>1, <4>1, <4>3
      <4> QED
        BY <4>2, <4>3
    <3> QED
      BY <3>1, <3>2
  <2>4. g \in Sums(m + 1)
    BY <2>2, <2>3
  <2> QED
    BY <2>4
<1>3. S \in SUBSET Nat
  OBVIOUS
<1>4. S = Nat
  <2> HIDE DEF S
  <2> QED
    BY <1>1, <1>2, <1>3, SetInduction
<1>5. Sums(n) # {}
  <2>1. n \in S
    BY <1>4
  <2> HIDE DEF Sums
  <2> QED
    BY <2>1
<1> QED
  BY <1>5, Zenon
=============================================================================
