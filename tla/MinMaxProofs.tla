---------------------------- MODULE MinMaxProofs -----------------------------
(***************************************************************************)
(* What Min and Max of the community modules return: both are defined by   *)
(* CHOOSE.                                                                 *)
(***************************************************************************)
EXTENDS Integers, FiniteSetsExt, WellFoundedInduction, TLAPS

\* Min picks the least element of a set of naturals.
LEMMA MinElement ==
  ASSUME NEW S \in SUBSET Nat, S # {}
  PROVE  Min(S) \in S /\ \A n \in S : Min(S) <= n
<1>1. PICK m \in S : \A n \in S : ~(<<n, m>> \in OpToRel(<, Nat))
  BY NatLessThanWellFounded, WFMin
<1>2. ASSUME NEW n \in S PROVE m <= n
  <2>1. n < m => <<n, m>> \in OpToRel(<, Nat)
    <3> SUFFICES ASSUME n < m
                 PROVE  <<n, m>> \in {ss \in Nat \X Nat : ss[1] < ss[2]}
      BY DEF OpToRel
    <3> QED
      OBVIOUS
  <2>2. ~(n < m)
    BY <1>1, <2>1
  <2> QED
    BY <2>2
<1> QED
  BY <1>2 DEF Min

\* Max of two integers is the larger one.
LEMMA MaxOfTwo ==
  ASSUME NEW a \in Int, NEW b \in Int
  PROVE  Max({a, b}) = IF a > b THEN a ELSE b
<1>1. \E m \in {a, b} : \A n \in {a, b} : m >= n
  OBVIOUS
<1>2. Max({a, b}) \in {a, b} /\ \A n \in {a, b} : Max({a, b}) >= n
  BY <1>1 DEF Max
<1> QED
  BY <1>2
=============================================================================
