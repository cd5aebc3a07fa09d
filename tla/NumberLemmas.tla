------------------------------ MODULE NumberLemmas ------------------------------
(* The first and the last index of a search, and induction with a set of   *)
(* numbers in the place of a predicate.                                    *)
EXTENDS Naturals, WellFoundedInduction, TLAPS

\* A set of numbers that is not empty has a least one.
LEMMA LeastNumber ==
    ASSUME NEW S \in SUBSET Nat, S # {}
    PROVE  \E m \in S : \A n \in S : m <= n
<1>1. PICK m \in S : \A n \in S : ~(<<n, m>> \in OpToRel(<, Nat))
  BY NatLessThanWellFounded, WFMin, Zenon
<1>2. \A n \in S : ~(n < m)
  BY <1>1, Zenon DEF OpToRel
<1>3. QED
  BY <1>2

\* One that is bounded has a greatest one.
LEMMA GreatestNumber ==
    ASSUME NEW bound \in Nat, NEW S \in SUBSET (0..bound), S # {}
    PROVE  \E m \in S : \A n \in S : n <= m
<1> DEFINE Above == {k \in Nat : \A n \in S : n <= k}
<1>1. PICK m \in Above : \A k \in Above : m <= k
  <2>1. bound \in Above
    OBVIOUS
  <2>2. QED
    BY <2>1, LeastNumber
<1>2. m \in S
  <2> SUFFICES ASSUME m \notin S PROVE FALSE
    OBVIOUS
  <2>1. \A n \in S : n < m
    BY <1>1
  <2>2. m \in Nat /\ m - 1 \in Nat
    <3>1. PICK n \in S : TRUE
      OBVIOUS
    <3>2. n \in Nat /\ m \in Nat /\ n < m
      BY <1>1, <2>1, <3>1
    <3>3. QED
      BY <3>2
  <2>3. \A n \in S : n <= m - 1
    BY <2>1, <2>2
  <2>4. QED
    BY <1>1, <2>2, <2>3
<1>3. QED
  BY <1>1, <1>2

\* A set that holds 0, and with a number the next one, holds all of them.
LEMMA NatBySet ==
    ASSUME NEW P, 0 \in P, \A n \in Nat : n \in P => n + 1 \in P
    PROVE  Nat \subseteq P
<1> SUFFICES ASSUME Nat \ P # {} PROVE FALSE
  OBVIOUS
<1>1. PICK m \in Nat \ P : \A n \in Nat \ P : m <= n
  <2>1. Nat \ P \in SUBSET Nat
    OBVIOUS
  <2>2. QED
    BY <2>1, LeastNumber
<1>2. m # 0 /\ m - 1 \in Nat /\ m - 1 \in P
  BY <1>1
<1>3. (m - 1) + 1 \in P
  BY <1>2
<1>4. QED
  BY <1>1, <1>3

===============================================================================
