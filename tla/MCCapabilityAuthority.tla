----------------------- MODULE MCCapabilityAuthority -----------------------
(* Instance of CapabilityAuthority for TLC. *)
EXTENDS CapabilityAuthority, TLC

Symmetry == Permutations(Secrets) \cup Permutations(Claims)
=============================================================================
