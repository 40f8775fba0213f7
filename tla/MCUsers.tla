------------------------------ MODULE MCUsers -------------------------------
(* Instances of Users.tla for TLC. *)
EXTENDS Users, TLC

\* Bodies that touch one column, the other, both, and none.
MCPatches == {[role |-> "engineer", active |-> Unset],
              [role |-> Unset, active |-> FALSE],
              [role |-> Unset, active |-> TRUE],
              [role |-> "admin", active |-> FALSE],
              [role |-> Unset, active |-> Unset]}

MCRoles == {"engineer", "admin"}

RequestSymmetry == Permutations(Req)
=============================================================================
