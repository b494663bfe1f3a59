------------------------ MODULE ClusterServerClaims ------------------------
(***************************************************************************)
(* What comments, log messages and assertions of cluster-server.c say of   *)
(* the event loop and the code does not keep.  Every definition quotes its *)
(* line; one run each shows how it is broken.                              *)
(***************************************************************************)
EXTENDS ClusterServer

\* cluster-server.c:641, BUG_ON(task_i == handle->num_tasks, "Greedy client
\* detected"): no worker asks for more than there is to hand out.  Yet every
\* worker asks once per thread, and writing is enabled from the start.
NoGreedyClient == pc # "bug_greedy"

\* cluster-server.c:851, "Dropping connection#%zu because of send error": a
\* send that fails costs the server that connection and nothing else.
SendErrorDropsConnection == pc \notin {"fault", "bug_send"}

\* cluster-server.c:874, "Finish if all the clients left": when every worker
\* that came is gone, the event loop ends unless another one comes.
EndsWhenAllLeft ==
  (\E w \in Worker : Gone(w)) /\ (\A w \in Worker : sock[w] # "open")
    ~> ~Running \/ \E w \in Worker : sock[w] = "open"

Idle(c) == c \in OpenCells /\ requested[c] > 0

\* cluster-server.c:800, "Allow write when CMD_TASK can be sent": while a
\* worker waits for a task and there are tasks to hand out, one is sent.
WaitingWorkersAreServed ==
  numNotResolved > 0 /\ (\E c \in Cell : Idle(c))
    ~> \/ numNotResolved = 0
       \/ ~\E c \in Cell : Idle(c)
       \/ ~Running

=============================================================================
