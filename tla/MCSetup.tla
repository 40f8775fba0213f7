------------------------------ MODULE MCSetup -------------------------------
(* Instances of Setup.tla for TLC. *)
EXTENDS Setup
=============================================================================
