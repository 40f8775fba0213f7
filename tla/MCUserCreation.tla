--------------------------- MODULE MCUserCreation ---------------------------
(* Instances of UserCreation.tla for TLC. *)
EXTENDS UserCreation
=============================================================================
