-------------------------- MODULE MCClusterClient --------------------------
(***************************************************************************)
(* Finite instances of ClusterClient.                                      *)
(***************************************************************************)
EXTENDS ClusterClientClaims

=============================================================================
