---------------------------- MODULE NumberFacts ----------------------------
(***************************************************************************)
(* What the proofs need to know of sets of natural numbers: that what the   *)
(* models CHOOSE as the least or the greatest of one is there.  Ids, cursors *)
(* and windows are compared this way in several models.                     *)
(***************************************************************************)
EXTENDS Naturals, WellFoundedInduction, TLAPS

\* A non-empty set of numbers has a least one.
LEMMA LeastNumber ==
  ASSUME NEW S \in SUBSET Nat, S # {}
  PROVE  \E m \in S : \A n \in S : m <= n
<1>1. \E m \in S : \A n \in S : ~ (<<n, m>> \in OpToRel(<, Nat))
  BY NatLessThanWellFounded, WFMin
<1>2. PICK m \in S : \A n \in S : ~ (<<n, m>> \in OpToRel(<, Nat))
  BY <1>1
<1>3. ASSUME NEW n \in S, n < m PROVE FALSE
  <2>1. <<n, m>> \in Nat \X Nat
    OBVIOUS
  <2>2. <<n, m>> \in {p \in Nat \X Nat : p[1] < p[2]}
    BY <2>1, <1>3
  <2> QED
    BY <1>2, <2>2 DEF OpToRel
<1>4. \A n \in S : m <= n
  <2> SUFFICES ASSUME NEW n \in S PROVE m <= n
    OBVIOUS
  <2>1. m \in Nat /\ n \in Nat /\ ~ (n < m)
    BY <1>3
  <2> QED
    BY <2>1
<1> QED
  BY <1>4

\* One with a bound has a greatest one.
LEMMA GreatestNumber ==
  ASSUME NEW S \in SUBSET Nat, S # {}, NEW b \in Nat, \A n \in S : n < b
  PROVE  \E m \in S : \A n \in S : n <= m
<1> DEFINE T == {i \in Nat : b - i \in S}
<1>1. T \in SUBSET Nat /\ T # {}
  <2>1. PICK n \in S : TRUE
    OBVIOUS
  <2>2. b - n \in Nat /\ b - (b - n) = n
    BY <2>1
  <2> QED
    BY <2>1, <2>2
<1>2. PICK i \in T : \A j \in T : i <= j
  BY <1>1, LeastNumber
<1>3. \A n \in S : b - n \in T
  <2> SUFFICES ASSUME NEW n \in S PROVE b - n \in T
    OBVIOUS
  <2>1. b - n \in Nat /\ b - (b - n) = n
    OBVIOUS
  <2> QED
    BY <2>1
<1>4. b - i \in S /\ \A n \in S : n <= b - i
  BY <1>2, <1>3
<1> QED
  BY <1>4
=============================================================================
