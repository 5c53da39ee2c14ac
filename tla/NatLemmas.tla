----------------------------- MODULE NatLemmas -----------------------------
(***************************************************************************)
(* Induction over the natural numbers in the form in which it is used by   *)
(* the other proofs: a set of counterexamples would have a least element.  *)
(***************************************************************************)
EXTENDS Naturals, WellFoundedInduction, TLAPS

\* Every non-empty set of natural numbers has a least element.  It stands in for
\* induction in the proofs about the links of the ready queue and the frames.
LEMMA NatMin ==
    ASSUME NEW S, S \subseteq Nat, S # {}
    PROVE  \E x \in S : \A y \in S : x <= y
<1> DEFINE R == OpToRel(<, Nat)
<1>1. IsWellFoundedOn(R, Nat)
  BY NatLessThanWellFounded
<1> HIDE DEF R
<1>2. PICK x \in S : \A y \in S : ~(<<y, x>> \in R)
  BY <1>1, WFMin
<1>3. ASSUME NEW y \in S, y < x PROVE FALSE
  BY <1>2, <1>3 DEF R, OpToRel
<1> QED
  BY <1>3
=============================================================================
