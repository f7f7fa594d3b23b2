------------------------------- MODULE Lemmas -------------------------------
(* Facts about numbers and sets that the proofs of several modules need.    *)
EXTENDS Integers, FiniteSets, WellFoundedInduction, TLAPS

\* A set of naturals that is not empty has a least member: what a search from the
\* first slot on finds.
LEMMA LeastNatural ==
  ASSUME NEW T \in SUBSET Nat, T # {}
  PROVE  \E m \in T : \A n \in T : m <= n
<1> DEFINE R == OpToRel(<, Nat)
<1>1. IsWellFoundedOn(R, Nat)
  BY NatLessThanWellFounded
<1>2. PICK m \in T : \A n \in T : <<n, m>> \notin R
  <2> HIDE DEF R
  <2> QED BY <1>1, WFMin
<1>3. \A n \in T : ~(n < m)
  BY <1>2 DEF OpToRel
<1> QED BY <1>3
=============================================================================
