----------------------------- MODULE MCSessions -----------------------------
(* Instances of Sessions.tla for TLC. *)
EXTENDS Sessions, TLC

Symmetry == Permutations(Req)
=============================================================================
