------------------------------- MODULE MCPaging -------------------------------
(* Instances of Paging for TLC. *)
EXTENDS Paging

MCRows == 1..4
MCKeys == 1..2
=============================================================================
