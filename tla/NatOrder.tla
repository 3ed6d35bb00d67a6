------------------------------ MODULE NatOrder -------------------------------
(***************************************************************************)
(* Least and greatest elements of sets of naturals: what the CHOOSEs of    *)
(* the models rest on.                                                     *)
(***************************************************************************)
EXTENDS Naturals, WellFoundedInduction, NaturalsInduction, TLAPS

\* Any non-empty set of naturals has a least element.
LEMMA LeastOfNats ==
  ASSUME NEW S \in SUBSET Nat, S # {}
  PROVE  \E m \in S : \A x \in S : m <= x
<1> DEFINE Less == {ss \in Nat \X Nat : ss[1] < ss[2]}
<1>1. IsWellFoundedOn(Less, Nat)
  BY NatLessThanWellFounded DEF OpToRel
<1> HIDE DEF Less
<1>2. PICK m \in S : \A x \in S : ~(<<x, m>> \in Less)
  BY <1>1, WFMin
<1>3. ASSUME NEW x \in S PROVE m <= x
  <2>1. m \in Nat /\ x \in Nat /\ ~(<<x, m>> \in Less)
    BY <1>2
  <2>2. x < m => <<x, m>> \in Less
    BY <2>1 DEF Less
  <2>. QED
    BY <2>1, <2>2
<1>. QED
  BY <1>3

\* One with an upper bound has a greatest, its least bound.
LEMMA GreatestOfBounded ==
  ASSUME NEW S \in SUBSET Nat, S # {}, NEW b \in Nat, \A x \in S : x <= b
  PROVE  \E m \in S : \A x \in S : x <= m
<1> DEFINE Above == {u \in Nat : \A x \in S : x <= u}
<1>1. Above \in SUBSET Nat /\ Above # {}
  OBVIOUS
<1>2. PICK u \in Above : \A v \in Above : u <= v
  BY <1>1, LeastOfNats
<1>3. CASE u \in S
  BY <1>3
<1>4. CASE u \notin S
  <2>1. \A x \in S : x < u
    BY <1>4
  <2>2. u \in Nat /\ u > 0
    <3>1. PICK x \in S : x < u
      BY <2>1
    <3>. QED
      BY <3>1
  <2>3. u - 1 \in Above
    BY <2>1, <2>2
  <2>. QED
    BY <2>2, <2>3, <1>2
<1>. QED
  BY <1>3, <1>4
=============================================================================
