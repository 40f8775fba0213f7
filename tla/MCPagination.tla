---------------------------- MODULE MCPagination ----------------------------
(* Instances of Pagination.tla for TLC. *)
EXTENDS Pagination
=============================================================================
