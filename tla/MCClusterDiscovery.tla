------------------------- MODULE MCClusterDiscovery -------------------------
(***************************************************************************)
(* Finite instances of ClusterDiscovery.                                   *)
(***************************************************************************)
EXTENDS ClusterDiscoveryClaims

=============================================================================
