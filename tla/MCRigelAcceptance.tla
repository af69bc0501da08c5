------------------------- MODULE MCRigelAcceptance -------------------------
(* Instances of RigelAcceptance for TLC. *)
EXTENDS RigelAcceptance, TLC

CONSTANTS ac1, ac2

TwoCriteria == {ac1, ac2}
CriteriaSymmetry == Permutations(TwoCriteria)
=============================================================================
