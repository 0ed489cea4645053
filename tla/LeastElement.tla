---------------------------- MODULE LeastElement ----------------------------
(***************************************************************************)
(* The least element of a set of naturals.  The handlers' loops stop at   *)
(* the first list entry that meets a condition (the first connection      *)
(* without interfaces in handle_get, the first dotted path segment in the *)
(* describe route); the models name that position with a CHOOSE of the    *)
(* least index, and the proofs need it to exist.                           *)
(***************************************************************************)
EXTENDS Naturals, WellFoundedInduction, TLAPS

\* A non-empty set of naturals has a least element.
LEMMA LeastExists ==
  ASSUME NEW T \in SUBSET Nat, T # {}
  PROVE  \E m \in T : \A y \in T : m <= y
<1>1. \E x \in T : \A y \in T : ~(<<y, x>> \in OpToRel(<, Nat))
  BY NatLessThanWellFounded, WFMin
<1>2. PICK x \in T : \A y \in T : ~(<<y, x>> \in OpToRel(<, Nat))
  BY <1>1
<1>3. \A y \in T : ~(y < x)
  BY <1>2 DEF OpToRel
<1>4. QED
  BY <1>3

\* The CHOOSE of the least element of a non-empty set of naturals picks
\* one, and it lies below every other.
LEMMA LeastChosen ==
  ASSUME NEW T \in SUBSET Nat, T # {}
  PROVE  LET m == CHOOSE k \in T : \A j \in T : k <= j
         IN  m \in T /\ \A j \in T : m <= j
BY LeastExists
=============================================================================
