----------------------- MODULE ClusterDiscoveryClaims -----------------------
(***************************************************************************)
(* What a comment of cluster-client.c says of discovery and the code does  *)
(* not keep.                                                               *)
(***************************************************************************)
EXTENDS ClusterDiscovery

\* cluster-client.c:294, "Pause discovery": nothing of discovery is done for a
\* worker that has connected.  Yet the timer's event can be in the batch that
\* the reply is in; it is handled after the pause, sends one more question and
\* fails to read the timer that was disarmed, and the worker exits.
PauseEndsDiscovery == \A w \in Worker : pc[w] # "err_timer"

=============================================================================
