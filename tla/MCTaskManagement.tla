-------------------------- MODULE MCTaskManagement --------------------------
(***************************************************************************)
(* A finite instance of TaskManagement: every sequence of legal calls on a *)
(* table of four tasks and two connections of two places each.             *)
(***************************************************************************)
EXTENDS TaskManagement

=============================================================================
