--------------------------- MODULE ClusterServer ---------------------------
(***************************************************************************)
(* One compute_task() call of the cluster server: the event-loop thread    *)
(* with its connection table and its epoll instance, on top of the task    *)
(* table of TaskManagement, and the worker processes that connect to it.   *)
(*                                                                         *)
(* The event loop is the only writer of the server's state.  What runs     *)
(* concurrently with it are the workers and the kernel: between            *)
(* epoll_wait() and the handling of an event, and between two system calls *)
(* of one handler, a worker may connect, send or die.  So one step here is *)
(* what the loop does from one system call whose outcome depends on a      *)
(* worker to the next.                                                     *)
(*                                                                         *)
(* A socket has the name of the worker at its other end.  A worker process *)
(* connects once; one that is started again is another worker.  A message  *)
(* is in the server's receive queue as soon as it is sent: recv() finding  *)
(* only a part of it (ERR_NOT_READY) has the effect of the event without   *)
(* EPOLLIN.  send() finding no room (ERR_NOT_READY) repeats the loop with  *)
(* nothing changed.                                                        *)
(***************************************************************************)
EXTENDS TaskManagement, Sequences

CONSTANTS
  Worker,     \* the client processes that may ever connect
  Threads,    \* max_threads of each of them
  MaxEvents,  \* MAX_EVENTS: the room in the array given to epoll_wait()
  AcceptFd,   \* accept_socket_fd
  NoFd        \* the -1 in the socket_fd of a free cell

ASSUME ClusterAssumption ==
  /\ IsFiniteSet(Worker)
  /\ Threads \in Nat \ {0}
  /\ MaxEvents \in Nat \ {0}
  /\ AcceptFd \notin Worker
  /\ NoFd \notin Worker \cup {AcceptFd}

VARIABLES
  \* The connection table, and what epoll watches.
  socketFd,     \* client_conns[c].socket_fd
  requested,    \* client_conns[c].requested_tasks
  nowSending,   \* client_conns[c].now_sending_task_i
  numClients,   \* num_clients
  acceptArmed,  \* whether accept_socket_fd is registered in epoll
  canWrite,     \* the sockets registered with EPOLLOUT
  \* The event loop.
  pc,           \* where the thread is, or how the process ended
  batch,        \* the entries of pending_events not handled yet
  cur,          \* conn_i of the send loop
  \* The workers and their connections.
  sock,         \* the state of the worker's socket
  backlog,      \* connected, and not accepted yet
  toServer,     \* messages sent and not read by the server
  atWorker,     \* tasks received by the worker, result not sent
  unrequested   \* initial_requests: threads no task was asked for yet

connVars   == <<socketFd, requested, nowSending, numClients, acceptArmed, canWrite>>
loopVars   == <<pc, batch, cur>>
workerVars == <<sock, backlog, toServer, atWorker, unrequested>>
vars       == <<poolVars, connVars, loopVars, workerVars>>

\* How the server process can end: compute_task() returns; the event loop
\* finds no worker left; a BUG_ON or a memory fault ends the process; a
\* failed system call makes it exit with an error.
Aborted == {"bug_greedy", "bug_no_room", "bug_unknown_result", "bug_no_cell",
            "bug_send", "fault"}
Failed  == {"err_pause", "err_shutdown"}
Exited  == {"returned", "no_workers"} \cup Aborted \cup Failed

Running == pc \notin Exited

CellsOf(w) == {c \in Cell : socketFd[c] = w}
OpenCells  == {c \in Cell : socketFd[c] # NoFd}

Request      == [cmd |-> "CMD_REQUEST_FOR_DATA", task |-> None, value |-> None]
Result(t)    == [cmd |-> "CMD_RESULT", task |-> t, value |-> t]

ServerInit ==
  /\ PoolInit
  /\ socketFd    = [c \in Cell |-> NoFd]
  /\ requested   = [c \in Cell |-> 0]
  /\ nowSending  = [c \in Cell |-> None]
  /\ numClients  = 0
  /\ acceptArmed = TRUE
  /\ canWrite    = {}
  /\ pc    = "wait"
  /\ batch = {}
  /\ cur   = None

WorkerInit ==
  /\ sock        = [w \in Worker |-> "none"]
  /\ backlog     = {}
  /\ toServer    = [w \in Worker |-> <<>>]
  /\ atWorker    = [w \in Worker |-> {}]
  /\ unrequested = [w \in Worker |-> Threads]

Init == ServerInit /\ WorkerInit

-----------------------------------------------------------------------------
(* The workers, as the server can observe them.                            *)

Connect(w) ==
  /\ Running
  /\ sock[w] = "none"
  /\ sock' = [sock EXCEPT ![w] = "open"]
  /\ backlog' = backlog \cup {w}
  /\ UNCHANGED <<poolVars, connVars, loopVars, toServer, atWorker, unrequested>>

\* Seeded fault: initial_requests is not decremented.
SendRequestUncounted(w) ==
  /\ Running
  /\ sock[w] = "open"
  /\ Len(toServer[w]) <= Threads
  /\ toServer' = [toServer EXCEPT ![w] = Append(@, Request)]
  /\ UNCHANGED <<poolVars, connVars, loopVars, sock, backlog, atWorker, unrequested>>

\* One turn of the loop that sends the initial requests.
SendRequest(w) ==
  /\ Running
  /\ sock[w] = "open"
  /\ unrequested[w] > 0
  /\ unrequested' = [unrequested EXCEPT ![w] = @ - 1]
  /\ toServer' = [toServer EXCEPT ![w] = Append(@, Request)]
  /\ UNCHANGED <<poolVars, connVars, loopVars, sock, backlog, atWorker>>

\* A computation has ended and its result, which is also the request for the
\* next task, is sent.  The initial requests leave first: one handler sends
\* them all, on a socket that blocks (fcntl() is given F_SETFD, not F_SETFL).
SendResult(w, t) ==
  /\ Running
  /\ sock[w] = "open"
  /\ unrequested[w] = 0
  /\ t \in atWorker[w]
  /\ atWorker' = [atWorker EXCEPT ![w] = @ \ {t}]
  /\ toServer' = [toServer EXCEPT ![w] = Append(@, Result(t))]
  /\ UNCHANGED <<poolVars, connVars, loopVars, sock, backlog, unrequested>>

(***************************************************************************)
(* A worker's process or machine is gone.  Its socket lingers for 0        *)
(* seconds, so the server sees a reset; a process killed between connect() *)
(* and setsockopt(SO_LINGER) closes with a FIN instead.                    *)
(***************************************************************************)
WorkerDies(w) ==
  /\ Running
  /\ sock[w] = "open"
  /\ \E how \in {"fin", "reset"} :
       /\ how = "fin" => unrequested[w] = Threads
       /\ sock' = [sock EXCEPT ![w] = how]
  /\ UNCHANGED <<poolVars, connVars, loopVars, backlog, toServer, atWorker, unrequested>>

-----------------------------------------------------------------------------
(* epoll_wait()                                                            *)

Readable(w) == toServer[w] # <<>> \/ sock[w] # "open"

\* What epoll reports of the connection of w.
EventOf(w) ==
  [fd  |-> w,
   in  |-> Readable(w),
   out |-> w \in canWrite,
   hup |-> sock[w] = "reset"]

AcceptEvent == [fd |-> AcceptFd, in |-> TRUE, out |-> FALSE, hup |-> FALSE]

ReadyEvents ==
  {e \in {EventOf(w) : w \in {v \in Worker : CellsOf(v) # {}}} : e.in \/ e.out \/ e.hup}
    \cup {e \in {AcceptEvent} : acceptArmed /\ backlog # {}}

\* The thread sleeps until something is ready; the array may be too short
\* for everything that is.
EpollWait ==
  /\ pc = "wait"
  /\ ReadyEvents # {}
  /\ \E b \in SUBSET ReadyEvents :
       /\ b # {}
       /\ Cardinality(b) <= MaxEvents
       /\ b = ReadyEvents \/ Cardinality(b) = MaxEvents
       /\ batch' = b
  /\ pc' = "dispatch"
  /\ UNCHANGED <<poolVars, connVars, cur, workerVars>>

-----------------------------------------------------------------------------
(* The connection table                                                    *)

\* Seeded fault: num_clients is compared after it is decremented.
ResumesAcceptingLate == numClients - 1 = MaxClients

ResumesAccepting == numClients = MaxClients

\* Seeded fault: num_clients is compared before it is incremented.
PausesAcceptingLate == numClients = MaxClients

PausesAccepting == numClients + 1 = MaxClients

\* delete_connection(c).  TableAgrees: EPOLL_CTL_ADD is not done twice.
DeleteConnection(c) ==
  /\ acceptArmed' = (acceptArmed \/ ResumesAccepting)
  /\ canWrite' = canWrite \ {socketFd[c]}
  /\ socketFd' = [socketFd EXCEPT ![c] = NoFd]
  /\ numClients' = numClients - 1
  /\ UNCHANGED <<requested, nowSending>>

\* Seeded fault: the list is emptied and its tasks are forgotten.
DropConnectionOnly(c) ==
  /\ taskList' = [taskList EXCEPT ![c] = [s \in Slot |-> None]]
  /\ UNCHANGED <<status, ret, numNotResolved, numCompleted, minNotResolved>>
  /\ DeleteConnection(c)

\* What each of the three places that give up a connection does first.
DropConnection(c) == DropResolvingTasks(c) /\ DeleteConnection(c)

\* The event tells of EPOLLHUP or EPOLLERR: nothing else is done for it.
HangUp(e, c) ==
  /\ pc = "dispatch"
  /\ e \in batch
  /\ e.hup
  /\ socketFd[c] = e.fd
  /\ DropConnection(c)
  /\ batch' = batch \ {e}
  /\ pc' = IF numClients' = 0 THEN "no_workers" ELSE "dispatch"
  /\ UNCHANGED <<cur, workerVars>>

BeginAccept(e) ==
  /\ pc = "dispatch"
  /\ e \in batch
  /\ e.fd = AcceptFd
  /\ batch' = batch \ {e}
  /\ pc' = "accept"
  /\ UNCHANGED <<poolVars, connVars, cur, workerVars>>

(***************************************************************************)
(* accept_incoming_connection_request() when accept4() returns a socket    *)
(* and the table has room: the first free cell is set up, and the last one *)
(* pauses accepting (TableAgrees: EPOLL_CTL_DEL does not fail here).       *)
(***************************************************************************)
AcceptConnection(w, c) ==
  /\ pc = "accept"
  /\ w \in backlog
  /\ IsLeast(c, Cell \ OpenCells)
  /\ backlog' = backlog \ {w}
  /\ numClients' = numClients + 1
  /\ acceptArmed' = (acceptArmed /\ ~PausesAccepting)
  /\ socketFd' = [socketFd EXCEPT ![c] = w]
  /\ requested' = [requested EXCEPT ![c] = 0]
  /\ nowSending' = [nowSending EXCEPT ![c] = None]
  /\ canWrite' = canWrite \cup {w}
  /\ UNCHANGED <<poolVars, loopVars, sock, toServer, atWorker, unrequested>>

\* The same call with the table full: it pauses accepting once more, which
\* fails when accepting is paused already, and else finds no cell.
AcceptWithFullTable ==
  /\ pc = "accept"
  /\ backlog # {}
  /\ OpenCells = Cell
  /\ pc' = IF acceptArmed THEN "bug_no_cell" ELSE "err_pause"
  /\ UNCHANGED <<poolVars, connVars, batch, cur, workerVars>>

\* accept4() returns EAGAIN.
EndAccept ==
  /\ pc = "accept"
  /\ backlog = {}
  /\ pc' = "dispatch"
  /\ UNCHANGED <<poolVars, connVars, batch, cur, workerVars>>

-----------------------------------------------------------------------------
(* Receives                                                                *)

\* Where the loop goes when it has received for e on the connection c: to
\* the sends if the event tells of EPOLLOUT too.
AfterReceive(e, c) ==
  IF e.out THEN pc' = "send" /\ cur' = c
           ELSE pc' = "dispatch" /\ UNCHANGED cur

\* Seeded fault: requested_tasks is a flag.
OneMoreAsFlag(c) == 1

OneMore(c) == requested[c] + 1

\* Seeded fault: write events stay disabled for the last task.
TasksLeftButLast == numNotResolved > 1

\* (num_not_resolved is not changed by the receive.)
TasksLeft == numNotResolved # 0

\* One request is counted, and write events are enabled if there are tasks.
CountRequest(c) ==
  /\ requested' = [requested EXCEPT ![c] = OneMore(c)]
  /\ canWrite' = IF TasksLeft THEN canWrite \cup {socketFd[c]} ELSE canWrite
  /\ UNCHANGED <<socketFd, nowSending, numClients, acceptArmed>>

Receive(e, c) ==
  /\ pc = "dispatch"
  /\ e \in batch
  /\ e.in /\ ~e.hup
  /\ socketFd[c] = e.fd
  /\ batch' = batch \ {e}

ReceiveRequest(e, c) ==
  /\ Receive(e, c)
  /\ toServer[e.fd] # <<>>
  /\ Head(toServer[e.fd]).cmd = "CMD_REQUEST_FOR_DATA"
  /\ toServer' = [toServer EXCEPT ![e.fd] = Tail(@)]
  /\ UNCHANGED poolVars
  /\ CountRequest(c)
  /\ AfterReceive(e, c)
  /\ UNCHANGED <<sock, backlog, atWorker, unrequested>>

\* A result of a task that is not in the list of c is a BUG_ON.
ReceiveResult(e, c) ==
  /\ Receive(e, c)
  /\ toServer[e.fd] # <<>>
  /\ Head(toServer[e.fd]).cmd = "CMD_RESULT"
  /\ toServer' = [toServer EXCEPT ![e.fd] = Tail(@)]
  /\ LET m == Head(toServer[e.fd]) IN
       IF m.task \in Held(c)
       THEN /\ PushReturnValue(c, m.task, m.value)
            /\ CountRequest(c)
            /\ AfterReceive(e, c)
       ELSE /\ pc' = "bug_unknown_result"
            /\ UNCHANGED <<poolVars, connVars, cur>>
  /\ UNCHANGED <<sock, backlog, atWorker, unrequested>>

\* Seeded fault: recv() returning 0 is taken for a part of a frame.
ReceiveBrokenIgnored(e, c) ==
  /\ Receive(e, c)
  /\ toServer[e.fd] = <<>>
  /\ sock[e.fd] # "open"
  /\ AfterReceive(e, c)
  /\ UNCHANGED <<poolVars, connVars, workerVars>>

\* recv() returns 0 or ECONNRESET: the connection is dropped, and whether
\* any is left is not looked at.
ReceiveBroken(e, c) ==
  /\ Receive(e, c)
  /\ toServer[e.fd] = <<>>
  /\ sock[e.fd] # "open"
  /\ DropConnection(c)
  /\ pc' = "dispatch"
  /\ UNCHANGED <<cur, workerVars>>

-----------------------------------------------------------------------------
(* Sends                                                                   *)

\* An event that tells of EPOLLOUT alone.
BeginSend(e, c) ==
  /\ pc = "dispatch"
  /\ e \in batch
  /\ e.out /\ ~e.in /\ ~e.hup
  /\ socketFd[c] = e.fd
  /\ batch' = batch \ {e}
  /\ pc' = "send"
  /\ cur' = c
  /\ UNCHANGED <<poolVars, connVars, workerVars>>

Sending == pc = "send" /\ requested[cur] # 0

\* Seeded fault: the first cell of the list is sent, not the one just filled.
PickTaskFirstCell(t, s) ==
  /\ Sending
  /\ nowSending[cur] = None
  /\ GetTaskToSend(cur, t, s)
  /\ nowSending' = [nowSending EXCEPT ![cur] = 0]
  /\ UNCHANGED <<socketFd, requested, numClients, acceptArmed, canWrite, loopVars, workerVars>>

\* get_task_to_send()
PickTask(t, s) ==
  /\ Sending
  /\ nowSending[cur] = None
  /\ GetTaskToSend(cur, t, s)
  /\ nowSending' = [nowSending EXCEPT ![cur] = s]
  /\ UNCHANGED <<socketFd, requested, numClients, acceptArmed, canWrite, loopVars, workerVars>>

\* Its two BUG_ONs: no task is left to hand out, or no place in the list.
PickTaskFails ==
  /\ Sending
  /\ nowSending[cur] = None
  /\ \/ Candidates = {} /\ pc' = "bug_greedy"
     \/ Candidates # {} /\ FreeSlots(cur) = {} /\ pc' = "bug_no_room"
  /\ UNCHANGED <<poolVars, connVars, batch, cur, workerVars>>

\* put_data_to_connection() sends the whole task, and write events are
\* disabled until the next request.
PutTask(w) ==
  /\ Sending
  /\ nowSending[cur] # None
  /\ socketFd[cur] = w
  /\ sock[w] # "reset"
  /\ atWorker' = [atWorker EXCEPT ![w] = @ \cup {taskList[cur][nowSending[cur]]}]
  /\ nowSending' = [nowSending EXCEPT ![cur] = None]
  /\ requested' = [requested EXCEPT ![cur] = @ - 1]
  /\ canWrite' = canWrite \ {w}
  /\ UNCHANGED <<poolVars, socketFd, numClients, acceptArmed, loopVars,
                 sock, backlog, toServer, unrequested>>

(***************************************************************************)
(* send() on a reset connection.  POSIX lets it report EPIPE, on which the *)
(* connection is dropped, or ECONNRESET (what Linux does first), which is  *)
(* a BUG_ON.                                                               *)
(***************************************************************************)
PutTaskBroken(w) ==
  /\ Sending
  /\ nowSending[cur] # None
  /\ socketFd[cur] = w
  /\ sock[w] = "reset"
  /\ \/ DropConnection(cur) /\ UNCHANGED pc
     \/ pc' = "bug_send" /\ UNCHANGED <<poolVars, connVars>>
  /\ UNCHANGED <<batch, cur, workerVars>>

\* The "continue" after a dropped connection goes on with its send loop: the
\* task is read at index -1, and if that is no fault send() gets fd -1.
PutTaskOnDeleted ==
  /\ Sending
  /\ nowSending[cur] # None
  /\ socketFd[cur] = NoFd
  /\ pc' \in {"fault", "bug_send"}
  /\ UNCHANGED <<poolVars, connVars, batch, cur, workerVars>>

EndSend ==
  /\ pc = "send"
  /\ requested[cur] = 0
  /\ pc' = "dispatch"
  /\ cur' = None
  /\ UNCHANGED <<poolVars, connVars, batch, workerVars>>

-----------------------------------------------------------------------------
(* The end of a batch, and of the server                                   *)

\* Seeded fault: the call ends when no task is left to hand out.
AllDoneUnresolved == numNotResolved = 0

\* Seeded fault: the event loop is not left.
AllDoneNever == FALSE

AllDone == numCompleted = NumTasks

EndOfBatch ==
  /\ pc = "dispatch"
  /\ batch = {}
  /\ pc' = IF AllDone THEN "stop" ELSE "wait"
  /\ UNCHANGED <<poolVars, connVars, batch, cur, workerVars>>

\* free_connection_management_routine(): shutdown() of a reset connection
\* reports ENOTCONN, on which the process exits.
StopServer ==
  /\ pc = "stop"
  /\ pc' = IF \E c \in OpenCells : sock[socketFd[c]] = "reset"
           THEN "err_shutdown" ELSE "returned"
  /\ UNCHANGED <<poolVars, connVars, batch, cur, workerVars>>

HandleEvent ==
  \E e \in batch :
    \/ BeginAccept(e)
    \/ \E c \in Cell : \/ HangUp(e, c)
                       \/ ReceiveRequest(e, c)
                       \/ ReceiveResult(e, c)
                       \/ ReceiveBroken(e, c)
                       \/ BeginSend(e, c)

AcceptLoop ==
  \/ \E w \in Worker, c \in Cell : AcceptConnection(w, c)
  \/ AcceptWithFullTable
  \/ EndAccept

SendLoop ==
  \/ \E t \in Task, s \in Slot : PickTask(t, s)
  \/ PickTaskFails
  \/ \E w \in Worker : PutTask(w) \/ PutTaskBroken(w)
  \/ PutTaskOnDeleted
  \/ EndSend

ServerNext ==
  EpollWait \/ HandleEvent \/ AcceptLoop \/ SendLoop \/ EndOfBatch \/ StopServer

WorkerNext(w) ==
  \/ Connect(w)
  \/ SendRequest(w)
  \/ \E t \in Task : SendResult(w, t)
  \/ WorkerDies(w)

Next == ServerNext \/ \E w \in Worker : WorkerNext(w)

Spec == Init /\ [][Next]_vars

(***************************************************************************)
(* Fairness: the event-loop thread keeps running, a connected worker sends *)
(* its initial requests, and every computation ends and has its result     *)
(* sent.  No worker has to connect, and none has to die.                   *)
(***************************************************************************)
FairSpec ==
  /\ Spec
  /\ WF_vars(ServerNext)
  /\ \A w \in Worker :
       /\ WF_vars(SendRequest(w))
       /\ WF_vars(\E t \in Task : SendResult(w, t))

-----------------------------------------------------------------------------
(* Properties                                                              *)

Message == {Request} \cup {Result(t) : t \in Task}

\* Every variable holds a value the C declarations and the protocol allow.
TypeOK ==
  /\ PoolTypeOK
  /\ socketFd \in [Cell -> Worker \cup {NoFd}]
  /\ requested \in [Cell -> 0 .. Threads]
  /\ nowSending \in [Cell -> Slot \cup {None}]
  /\ numClients \in 0 .. MaxClients
  /\ acceptArmed \in BOOLEAN
  /\ canWrite \subseteq Worker
  /\ pc \in {"wait", "dispatch", "accept", "send", "stop"} \cup Exited
  /\ batch \subseteq [fd: Worker \cup {AcceptFd}, in: BOOLEAN, out: BOOLEAN, hup: BOOLEAN]
  /\ cur \in Cell \cup {None}
  /\ sock \in [Worker -> {"none", "open", "fin", "reset"}]
  /\ backlog \subseteq Worker
  /\ toServer \in [Worker -> Seq(Message)]
  /\ atWorker \in [Worker -> SUBSET Task]
  /\ unrequested \in [Worker -> 0 .. Threads]

\* num_clients counts the open cells, accepting is paused exactly while the
\* table is full, and no connection is in two cells or still in the backlog;
\* so pausing and resuming (epoll_ctl) is never done twice in a row.
TableAgrees ==
  /\ numClients = Cardinality(OpenCells)
  /\ acceptArmed <=> numClients < MaxClients
  /\ \A w \in Worker : Cardinality(CellsOf(w)) <= 1
  /\ \A c \in OpenCells : socketFd[c] \notin backlog

\* Where messages of one kind stand in the queue of w.
InFlight(w, cmd) == {i \in DOMAIN toServer[w] : toServer[w][i].cmd = cmd}
TasksInFlight(w) == {toServer[w][i].task : i \in InFlight(w, "CMD_RESULT")}

\* The task picked for c and not handed to its socket yet.
BeingSent(c) == IF nowSending[c] = None THEN {} ELSE {taskList[c][nowSending[c]]}

\* Each thread of a connected worker is accounted for exactly once: its
\* request is still to be sent, on its way or counted, or it has a task.  A
\* credit lost starves a thread, one too many overruns the worker.
CreditsConserved ==
  \A c \in OpenCells :
    LET w == socketFd[c] IN
      unrequested[w] + Cardinality(InFlight(w, "CMD_REQUEST_FOR_DATA")) + requested[c]
        + Cardinality(Held(c) \ BeingSent(c)) = Threads

\* Server and worker agree on who has which task: what the list of c names is
\* about to be sent, at the worker, or in a result on its way; nothing is in
\* two of these places, and no result comes twice.
AssignmentsAgree ==
  \A c \in OpenCells :
    LET w == socketFd[c] IN
      /\ Held(c) = BeingSent(c) \cup atWorker[w] \cup TasksInFlight(w)
      /\ BeingSent(c) \cap (atWorker[w] \cup TasksInFlight(w)) = {}
      /\ atWorker[w] \cap TasksInFlight(w) = {}
      /\ \A i, j \in InFlight(w, "CMD_RESULT") :
           toServer[w][i].task = toServer[w][j].task => i = j

\* The BUG_ON of push_return_value() never fires: whatever the order of
\* deaths, messages and events, a result names a task its connection holds.
NoUnknownResult == pc # "bug_unknown_result"

\* Of the ways the process can end before its time, two are impossible, and
\* each of the others has its one reason: a worker with more threads than its
\* list has places, a request that comes when no task is left, a connection
\* too many, or a worker that was reset.
EndsAreExplained ==
  /\ NoUnknownResult
  /\ pc # "bug_no_cell"
  /\ pc = "bug_no_room" => Threads > MaxTasksPerClient
  /\ pc = "bug_greedy" => numNotResolved = 0 /\ \E c \in OpenCells : requested[c] # 0
  /\ pc = "err_pause" => OpenCells = Cell /\ backlog # {}
  /\ pc = "no_workers" => OpenCells = {}
  /\ pc \in {"no_workers", "bug_send", "fault", "err_shutdown"}
       => \E w \in Worker : sock[w] = "reset"

\* compute_task() returns only with the result of every task in its place.
ReturnedIsComplete ==
  pc = "returned" => \A t \in Task : status[t] = "COMPLETED" /\ ret[t] = t

\* The server never quits for want of workers with all the results in hand.
QuitsOnlyUnfinished == pc = "no_workers" => numCompleted < NumTasks

Gone(w)  == sock[w] \in {"fin", "reset"}
NoDeaths == \A w \in Worker : ~Gone(w)

\* The event loop finds out that a connected worker is gone and forgets the
\* connection, however it was told and whatever else is pending.
DeathsAreNoticed ==
  \A w \in Worker :
    Gone(w) /\ CellsOf(w) # {} ~> CellsOf(w) = {} \/ ~Running

\* A waiting connection is accepted while there is room, also after accepting
\* was paused for a full table.
BacklogIsAccepted ==
  \A w \in Worker :
    w \in backlog /\ numClients < MaxClients
      ~> w \notin backlog \/ numClients = MaxClients \/ ~Running

\* If some worker connects and none dies, the call ends: no request and no
\* task is left lying while its worker waits for it.
EndsWithoutDeaths ==
  []NoDeaths /\ <>(\E w \in Worker : sock[w] = "open") => <>~Running

Alone == Cardinality({w \in Worker : sock[w] # "none"}) <= 1

\* A worker with one thread gets everything done if it is alone and lives.
SoleWorkerFinishes ==
  [](NoDeaths /\ Alone) /\ <>(\E w \in Worker : sock[w] = "open") => <>(pc = "returned")

=============================================================================
