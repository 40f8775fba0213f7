------------------------------ MODULE MCLogins ------------------------------
(* Instances of Logins.tla for TLC. *)
EXTENDS Logins

\* One address, typed in two ways, of which the users' table has one.
MCLower == [e \in Emails |-> "ann"]
=============================================================================
