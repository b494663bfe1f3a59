------------------------------ MODULE Dialogue ------------------------------
(***************************************************************************)
(* What a server and its workers make of the connections between them:     *)
(* whole messages, in the order they were sent, each once.  This is how    *)
(* ClusterServer and ClusterClient take them.  When a worker dies, what it *)
(* sent last may be lost, and nothing else.                                *)
(***************************************************************************)
EXTENDS Integers, Sequences

CONSTANTS Worker, Task, Threads

VARIABLES
  alive,        \* the workers that have connected and not died
  heard,        \* the workers the server has a connection to
  pool,         \* the tasks that are to be handed out
  credit,       \* the tasks a worker has asked for and not got
  held,         \* the tasks handed out to it
  toServer,     \* the messages on the way to the server, and
  toWorker,     \* those on the way to the worker
  working,      \* the tasks it computes
  unrequested   \* the threads no task was asked for yet

vars == <<alive, heard, pool, credit, held, toServer, toWorker, working, unrequested>>

Request   == [cmd |-> "CMD_REQUEST_FOR_DATA", task |-> 0]
Result(t) == [cmd |-> "CMD_RESULT", task |-> t]
TaskFor(t) == [cmd |-> "CMD_TASK", task |-> t]

Init ==
  /\ alive = {} /\ heard = {}
  /\ pool = Task
  /\ credit      = [w \in Worker |-> 0]
  /\ held        = [w \in Worker |-> {}]
  /\ toServer    = [w \in Worker |-> <<>>]
  /\ toWorker    = [w \in Worker |-> <<>>]
  /\ working     = [w \in Worker |-> {}]
  /\ unrequested = [w \in Worker |-> Threads]

Connect(w) ==
  /\ alive' = alive \cup {w}
  /\ UNCHANGED <<heard, pool, credit, held, toServer, toWorker, working, unrequested>>

Accept(w) ==
  /\ heard' = heard \cup {w}
  /\ UNCHANGED <<alive, pool, credit, held, toServer, toWorker, working, unrequested>>

Ask(w) ==
  /\ w \in alive
  /\ unrequested[w] > 0
  /\ unrequested' = [unrequested EXCEPT ![w] = @ - 1]
  /\ toServer' = [toServer EXCEPT ![w] = Append(@, Request)]
  /\ UNCHANGED <<alive, heard, pool, credit, held, toWorker, working>>

Finish(w, t) ==
  /\ w \in alive
  /\ t \in working[w]
  /\ working' = [working EXCEPT ![w] = @ \ {t}]
  /\ toServer' = [toServer EXCEPT ![w] = Append(@, Result(t))]
  /\ UNCHANGED <<alive, heard, pool, credit, held, toWorker, unrequested>>

\* A result is that of a task handed out to its sender, and counts as a
\* request for the next one.
Hear(w) ==
  /\ w \in heard
  /\ toServer[w] # <<>>
  /\ LET m == Head(toServer[w]) IN
       \/ m = Request /\ UNCHANGED held
       \/ /\ m = Result(m.task)
          /\ m.task \in held[w]
          /\ held' = [held EXCEPT ![w] = @ \ {m.task}]
  /\ toServer' = [toServer EXCEPT ![w] = Tail(@)]
  /\ credit' = [credit EXCEPT ![w] = @ + 1]
  /\ UNCHANGED <<alive, heard, pool, toWorker, working, unrequested>>

HandOut(w, t) ==
  /\ w \in heard
  /\ credit[w] > 0
  /\ t \in pool
  /\ pool' = pool \ {t}
  /\ credit' = [credit EXCEPT ![w] = @ - 1]
  /\ held' = [held EXCEPT ![w] = @ \cup {t}]
  /\ toWorker' = [toWorker EXCEPT ![w] = IF w \in alive THEN Append(@, TaskFor(t)) ELSE @]
  /\ UNCHANGED <<alive, heard, toServer, working, unrequested>>

Take(w) ==
  /\ w \in alive
  /\ toWorker[w] # <<>>
  /\ working' = [working EXCEPT ![w] = @ \cup {Head(toWorker[w]).task}]
  /\ toWorker' = [toWorker EXCEPT ![w] = Tail(@)]
  /\ UNCHANGED <<alive, heard, pool, credit, held, toServer, unrequested>>

Die(w) ==
  /\ alive' = alive \ {w}
  /\ \E n \in 0 .. Len(toServer[w]) :
       toServer' = [toServer EXCEPT ![w] = SubSeq(@, 1, n)]
  /\ toWorker' = [toWorker EXCEPT ![w] = <<>>]
  /\ working'  = [working EXCEPT ![w] = {}]
  /\ UNCHANGED <<heard, pool, credit, held, unrequested>>

Forget(w) ==
  /\ w \notin alive
  /\ heard' = heard \ {w}
  /\ pool'     = pool \cup held[w]
  /\ held'     = [held EXCEPT ![w] = {}]
  /\ credit'   = [credit EXCEPT ![w] = 0]
  /\ toServer' = [toServer EXCEPT ![w] = <<>>]
  /\ UNCHANGED <<alive, toWorker, working, unrequested>>

Next ==
  \E w \in Worker :
    \/ Connect(w) \/ Accept(w) \/ Ask(w) \/ Hear(w) \/ Take(w) \/ Die(w) \/ Forget(w)
    \/ \E t \in Task : Finish(w, t) \/ HandOut(w, t)

Spec == Init /\ [][Next]_vars

=============================================================================
