------------------------- MODULE MCReviewDecisions -------------------------
(* Instance of ReviewDecisions for TLC. *)
EXTENDS ReviewDecisions, TLC

Symmetry == Permutations(Decisions)
=============================================================================
