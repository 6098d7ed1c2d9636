---------------------------- MODULE LeastNumber ----------------------------
(***************************************************************************)
(* Every set of natural numbers that is not empty has a least member: the  *)
(* form of induction the proofs about accumulated weights, logs and ranks  *)
(* use, on the set of counterexamples.                                     *)
(***************************************************************************)
EXTENDS Integers, WellFoundedInduction, TLAPS

Less == OpToRel(<, Nat)

LEMMA LessWellFounded == IsWellFoundedOn(Less, Nat)
BY NatLessThanWellFounded DEF Less

LEMMA LessMeans == \A x, y \in Nat : x < y => <<x, y>> \in Less
BY Zenon DEF Less, OpToRel

LEMMA LeastMember ==
  ASSUME NEW T, T \subseteq Nat, T # {}
  PROVE  \E x \in T : \A y \in T : x <= y
<1>1. PICK x \in T : \A y \in T : ~(<<y, x>> \in Less)
  BY LessWellFounded, WFMin, Zenon
<1>2. \A y \in T : ~(y < x)
  BY <1>1, LessMeans, Zenon
<1> QED BY <1>1, <1>2, SMT

\* The number below the least member is no member.
LEMMA BelowLeast ==
  ASSUME NEW T, NEW m \in Nat, \A k \in T : m <= k
  PROVE  m - 1 \notin T
<1>1. ~(m <= m - 1)
  OBVIOUS
<1> QED BY <1>1
=============================================================================
