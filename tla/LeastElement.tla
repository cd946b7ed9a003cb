---------------------------- MODULE LeastElement ----------------------------
(***************************************************************************)
(* The least element of a set of numbers.  The proofs that count or move   *)
(* along a sequence of unknown length use it where one would argue by      *)
(* induction: the first place where a claim fails is a contradiction.      *)
(***************************************************************************)
EXTENDS Naturals, WellFoundedInduction, TLAPS

\* A set of numbers that is not empty has a least element.
LEMMA LeastExists ==
  ASSUME NEW S \in SUBSET Nat, S # {}
  PROVE  \E m \in S : \A n \in S : m <= n
<1>1. PICK m \in S : \A n \in S : ~(<<n, m>> \in OpToRel(<, Nat))
  BY NatLessThanWellFounded, WFMin
<1>2. \A n \in S : ~(n < m)
  BY <1>1 DEF OpToRel
<1> QED
  BY <1>2
=============================================================================
