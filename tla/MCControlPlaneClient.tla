------------------------ MODULE MCControlPlaneClient ------------------------
(* Instance of ControlPlaneClient for TLC. *)
EXTENDS ControlPlaneClient
=============================================================================
