---------------------------- MODULE LeastElement ----------------------------
(***************************************************************************)
(* The least element of a set of numbers, for the proofs about operators   *)
(* that choose one.                                                        *)
(***************************************************************************)
EXTENDS Integers, WellFoundedInduction, TLAPS

\* A set of numbers that has an element has a least one.
LEMMA LeastExists ==
  ASSUME NEW S \in SUBSET Nat, S # {}
  PROVE  \E i \in S : \A j \in S : i <= j
<1>1. \E x \in S : \A y \in S : ~ (<<y, x>> \in OpToRel(<, Nat))
  BY NatLessThanWellFounded, WFMin
<1>2. PICK x \in S : \A y \in S : ~ (<<y, x>> \in OpToRel(<, Nat))
  BY <1>1
<1>3. \A y \in S : x <= y
  <2>1. TAKE y \in S
  <2>2. ~ (y < x)
    BY <1>2, <2>1 DEF OpToRel
  <2>. QED
    BY <2>2
<1>. QED
  BY <1>3
=============================================================================
