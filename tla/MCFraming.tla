----------------------------- MODULE MCFraming ------------------------------
(***************************************************************************)
(* A finite instance of Framing: two workers after each other in one cell. *)
(***************************************************************************)
EXTENDS Framing

=============================================================================
