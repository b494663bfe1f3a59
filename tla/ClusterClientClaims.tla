------------------------ MODULE ClusterClientClaims ------------------------
(***************************************************************************)
(* What comments and log messages of cluster-client.c say of a worker and  *)
(* the code does not keep; one run each shows how it is broken.            *)
(***************************************************************************)
EXTENDS ClusterClient

\* cluster-client.c:925, "Handle "computation finished" events": the end of a
\* computation is handled whatever else is pending.  Yet a batch that begins
\* with an eventfd takes every later EPOLLIN for that eventfd's and fails to
\* read it again.
EndsAreHandled == pc # "err_eventfd"

=============================================================================
