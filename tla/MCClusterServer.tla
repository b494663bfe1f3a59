-------------------------- MODULE MCClusterServer --------------------------
(***************************************************************************)
(* Finite instances of ClusterServer.  Workers are interchangeable, so the *)
(* runs that check only invariants and action properties take permutations *)
(* of them as symmetries.                                                  *)
(***************************************************************************)
EXTENDS ClusterServerClaims, TLC

WorkerSymmetry == Permutations(Worker)

=============================================================================
