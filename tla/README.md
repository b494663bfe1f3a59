# Verification of the computing cluster

The repository is a small distributed-computing library in C: a *cluster
server* (`compute_task()`) that hands the tasks of one computation to whatever
*workers* (`client_compute()`) connect to it over TCP and collects the results,
and a demonstration program that integrates a function with it. This directory
holds TLA+ models of it, the TLC configurations that check them on small
instances, and theorems with proofs that TLAPS checks.

Paths below are relative to `src/`; `server.c` stands for
`cluster-api/cluster-server.c` and `client.c` for `cluster-api/cluster-client.c`.

## 1. Inventory

| Component | Where | State | Operations |
|---|---|---|---|
| Server task management | server.c 593-703 | `task_manager[]` (status, result), `num_not_resolved`, `num_completed`, `min_not_resolved_task`, and each connection's `task_list` | `get_task_to_send`, `push_return_value`, `drop_resolving_tasks` |
| Server connection management | server.c 162-587 | `client_conns[]` (descriptor, counted requests, task being sent, receive buffer), `num_clients`, what is registered in epoll | accept, pause / resume accepting, delete a connection, receive, send, shutdown |
| Server event loop | server.c 709-879 | the batch of pending events and the position in its handlers | dispatch of hangups, accepts, receives and sends; the end of the call |
| Server discovery | server.c 44-156 | a datagram socket | answer a broadcast |
| Client connection and tasks | client.c 307-1007 | `server_conn`, `thread_manager[]` (empty, task, waiting to be sent), `initial_requests`, one eventfd per thread | connect, receive a task, start a thread, notice its end, send results and requests |
| Client discovery | client.c 48-301 | datagram socket, timer | broadcast, catch the reply, connect, pause |
| Wire format | Config.h, both `read_data_*` / `put_data_*` | receive buffers and their fill | frames of fixed size per direction |
| Integral computation | `integral-computation/` | none | split the interval, sum trapezoids |
| Logging, build | `Logging.h`, `logging.c`, `Makefile` | none | `BUG_ON` ends the process with a failure status |

**How they interact.** The server is one event-loop thread; the thread that
called `compute_task()` only joins it, so all server state has one writer. What
runs concurrently with it are the workers and the kernel. Between `epoll_wait()`
and the handling of an event, and between two system calls of one handler, a
worker may connect, send or die; an event is therefore stale when it is handled.
A worker sends one `CMD_REQUEST_FOR_DATA` per thread when it has connected and
then one `CMD_RESULT` per task; a result is also the request for the next task.
The server counts requests in `requested_tasks` and answers each with a
`CMD_TASK`. A connection that breaks returns its tasks to the pool.

Server and workers find each other before that: a worker without a hostname
broadcasts a question every second, a server broadcasts its reply, and the worker
connects to the sender of the first reply it reads.  Two threads of the worker
share that: the one that starts it registers the socket and the timer and arms
it, and the event loop, which runs already, handles their events and undoes all
of it when the worker has connected.

**What is hard.** (1) Tasks come back to the pool between the assignments and
results of other workers, while table, lists, two counters and a cached scan
start must agree. (2) The credit scheme: requests are spread over the worker,
the wire and the server, and both an extra and a lost one are fatal: a `BUG_ON`
or a thread that starves. (3) Write readiness is enabled and disabled by hand,
so a lost wakeup is a liveness bug. (4) A death can be told by `EPOLLHUP`, by
`recv()` or by `send()`, and each has its own path. (5) The accept socket is
taken out of epoll while the table is full. (6) Counters are unsigned and the
BUG_ONs are the only defence. (7) Discovery is a race of two threads, a timer
and a lossy network, and every reply reaches every worker, also one that is
still starting. (8) A frame has no length field and no mark: one count of bytes
that is wrong once, or left over from the last worker in a cell, shifts every
later frame. `PROJECT.json` lists these as hazards, at their
lines.

**What makes each component correct.** Task table: no task is lost, in two
places or reopened, and the counters do not drift. Connections: the table, its
count and the registration of the accept socket agree, and a waiting worker gets
in when there is room. Event loop: server and workers agree on who has which
task and how many requests are outstanding, deaths are noticed, the call ends if
workers live, and it returns complete results only. Client: a task that arrives
finds an empty thread, each result is sent once. Discovery: a worker connects
once, to a server that answered and that listens, searches until then, and epoll
no longer watches discovery afterwards. Wire format: however the streams are cut, each side
takes whole frames, in order, of one connection.

## 2. Modules

```
WorkPool                   what the cluster promises about tasks (abstract)
   ^ refinement
TaskManagement             the task table                -- MCTaskManagement
   ^ EXTENDS; PoolSpec is also a PROPERTY of the server
ClusterServer              event loop, connections and workers
   ^ EXTENDS
ClusterServerClaims        what comments and assertions say and the code breaks
   ^ EXTENDS                                             -- MCClusterServer

WorkerPromise              what a worker promises its server (abstract)
   ^ refinement
ClusterClient              a worker: event loop, threads, eventfds
   ^ EXTENDS
ClusterClientClaims        what a comment says and the code breaks
   ^ EXTENDS                                             -- MCClusterClient

Rendezvous                 what discovery is for (abstract)
   ^ refinement
ClusterDiscovery           servers, workers and datagrams until they have met
   ^ EXTENDS
ClusterDiscoveryClaims     what a comment says and the code breaks
   ^ EXTENDS                                             -- MCClusterDiscovery

Dialogue                   the messages of a server and its workers (abstract)
   ^ refinement
Framing                    the bytes under them          -- MCFraming

TaskManagementProofs       EXTENDS TaskManagement, TLAPS
ClusterServerProofs        EXTENDS ClusterServer, TaskManagementProofs
ClusterAssignmentProofs    EXTENDS ClusterServerProofs
ClusterClientProofs        EXTENDS ClusterClient, TLAPS
ClusterDiscoveryProofs     EXTENDS ClusterDiscovery, TLAPS
DialogueProofs             EXTENDS Dialogue, TLAPS
FramingProofs              EXTENDS Framing, TLAPS
FramingMessageProofs       EXTENDS FramingProofs, uses DialogueProofs by INSTANCE
```

**TaskManagement.** One operator per function, each one atomic step: only the
event-loop thread touches this state and none of the three functions makes a
system call. The loops over the table and the lists are written as what they
compute: the first unresolved task at or after the scan start (`IsLeast` of
`Candidates`), the first free place, the count and the minimum of the tasks
dropped. `ret[t]` holds the task whose computation wrote it, so "its own result"
can be said. `PoolSpec` lets the three calls come in any order their BUG_ONs
allow.

**WorkPool.** Three sets - waiting, held by a holder, done - and three actions.
`TaskManagement` implements it under the mapping in `Pool`.

**ClusterServer.** State, in the order of the declarations: the connection table
(`socketFd`, `requested`, `nowSending`, `numClients`), what epoll watches
(`acceptArmed`, `canWrite`), the thread (`pc`, `batch`, `cur`) and the workers
with their connections (`sock`, `backlog`, `toServer`, `atWorker`,
`unrequested`). One action is what the loop does from one system call whose
outcome depends on a worker to the next:

| Action | Code |
|---|---|
| `EpollWait` | `epoll_wait` returns any non-empty set of ready events that fits the array; a short array may leave some out |
| `HangUp` | the `EPOLLHUP`/`EPOLLERR` branch: drop the tasks, delete the connection, quit if it was the last |
| `BeginAccept`, `AcceptConnection`, `AcceptWithFullTable`, `EndAccept` | the accept loop, up to `EAGAIN` |
| `ReceiveRequest`, `ReceiveResult`, `ReceiveBroken` | the `EPOLLIN` branch and its error path |
| `BeginSend`, `PickTask`, `PickTaskFails`, `PutTask`, `PutTaskBroken`, `PutTaskOnDeleted`, `EndSend` | the `EPOLLOUT` branch: the loop over `requested_tasks` with `get_task_to_send` and `put_data_to_connection` |
| `EndOfBatch`, `StopServer` | the test of `num_completed` after each batch, and `free_connection_management_routine` |
| `Connect`, `SendRequest`, `SendResult`, `WorkerDies` | a worker, as far as the server can observe it |

Events of one batch are handled in any order: epoll gives them in no order the
code can rely on. `pc` also says how the process ended: `returned`,
`no_workers` (the event loop exits for want of workers), one value per `BUG_ON`
that can fire, `fault` (the read at index -1 after a dropped connection), and
`err_pause` / `err_shutdown` for failed system calls. After that nothing moves,
so the runs switch the deadlock check off; a server that sleeps in `epoll_wait`
until a worker comes is no error either.

*Abstractions of the environment.* A socket has the name of its worker, and a
worker process connects once; one that is restarted is another worker. A message
is readable as a whole as soon as it is sent; a frame received in part leaves
nothing but bytes in the buffer, which has the effect of the event without
`EPOLLIN`, and `send()` finding no room repeats the loop with nothing changed.
A dead worker is seen as a reset, because its socket lingers 0 seconds
(client.c 464-474), or as a FIN if it is killed between `connect()` and that
call. `send()` on a reset connection may report `EPIPE` (POSIX) or `ECONNRESET`
(what Linux reports first). Data that arrived before a reset can still be read.
A worker never sends an unknown command, so that `BUG_ON` is not modelled; nor
are the socket options, the limit of the listen backlog and failures of
system calls that no worker can cause.

**WorkerPromise.** A worker without threads, eventfds or sockets: it asks once per
thread, and when it has asked for all of them it answers each task it was given
once, with the result of that task; an answer asks for one more. `ClusterServer`
takes its workers to be this (`SendRequest`, `SendResult`), and `ClusterClient`
implements it, so the two detailed models meet in it.

**ClusterClient.** The event-loop thread (client.c 860-1007) with the threads it
starts. `thread_manager[]` is the sets `empty`, `waiting` and `running` with
`taskId`; `input` and `output` are the tasks whose data and result the two
buffers of an entry hold, which is what "the right result under the right task"
is about. `eventFd` are the counters. `first` is the descriptor in the first
entry of `pending_events`, which the code keeps looking at while it handles the
others, so the first entry is handled first and the rest in any order. A task may
come in parts: a part that is received makes a readable event after which nothing is
started (`ERR_NOT_READY`), but the handler goes on to line 928, where a readable event is
all that matters. `received` counts the parts, as `bytes_recieved` counts their bytes.

| Action | Code |
|---|---|
| `EpollWait`, `EndOfBatch` | `epoll_wait`, the loop over the batch |
| `TakeEvent` | the `EPOLLHUP`/`EPOLLERR` branch (890-896) leaves the loop; else on to the reads |
| `ReceiveTask` | `read_data_on_connection` with a whole task, then `start_computation` with its search for an empty entry and its `BUG_ON` |
| `ReceivePart`, `ReceiveBroken` | the same with a part of a task; at the end of the stream or with an error |
| `MarkComputations` | the loop over the entries (925-935) and `mark_computation_as_ready`: a `read()` of a drained eventfd is fatal (`err_eventfd`) |
| `SendResult`, `SendRequest`, `SendBroken`, `EndSend` | the `EPOLLOUT` branch: waiting results first, then the initial requests, then `EPOLLOUT` is switched off |
| `ThreadFinishes` | `computation_wrapper` on a detached thread: the result, then the eventfd |
| `FreeResources`, `ProcessEnds` | `stop_cluster_client` and the return of `client_compute`; a thread that ends in between writes to freed memory (`use_after_free`) |
| `ServerSends`, `PartArrives`, `ServerLeaves` | the server, as far as a worker can observe it |

The socket is blocking (`fcntl` is given `F_SETFD`, not `F_SETFL`, client.c
~420), so `send()` never reports `EAGAIN`; the model's send loop ends only when
everything is sent or the connection is broken. Each thread has one action: what
it does between its start and the two writes touches nothing but its own
buffers. The worker process has a connection from the start; setting it up is
`Connect` of `ClusterServer`.

**Rendezvous.** Servers come and go, and a worker joins at most one of them in its
life, which is listening when it does.

**ClusterDiscovery.** From the start of the processes to the connection. The state
of a server is how far its start-up is (`stage`) and its datagram queue; that of a
worker is the thread that starts it (`main`), what that shares with the event
loop (`watched`, `armed`, `expired`, the queue `inbox`), and the loop (`pc`,
`batch`, `addr`, `conn`).

| Action | Code |
|---|---|
| `ServerStarts`, `ServerStops` | `init_cluster_server` binds the discovery socket, listens, starts the event loop and registers both sockets, in this order; the end of the call or of the process, after which it may be started again |
| `Answer`, `IgnoreJunk` | `answer_clients_discovery_datagram` reads up to the first question and broadcasts one reply; with no question it reads to `EAGAIN` |
| `StartClient`, `RegisterSocket`, `RegisterTimer`, `ArmTimer` | `init_cluster_client` up to the event loop, then `start_discovery_routine` in its three system calls |
| `ConnectToHost`, `HostIsDown` | with a hostname: `connect()` on the starting thread, again each second while it is refused; any other error ends the process |
| `Tick` | the timer |
| `EpollWait`, `EndOfBatch` | `epoll_wait` and the loop over the batch |
| `PerformDiscoverySend` | the question, and the `read()` of the timer, which fails when it has no expiration (`err_timer`) |
| `CatchReply`, `CatchJunk` | `catch_servers_discovery_datagram` reads up to the first reply, or to `EAGAIN` |
| `ConnectToSender`, `PauseDiscovery` | one attempt to connect to where the reply came from; both descriptors out of epoll, which fails for what is not in it (`err_pause`), and the timer disarmed |
| `CompareDescriptor`, `FirstEvent` | the event is compared with `server_conn.socket_fd` although nobody has set it, and the connection's first event with the discovery descriptors of a worker that has none |
| `LoseServer` | the loop returns when the connection is lost |

*Abstractions of the environment.* A datagram is in the queue of a receiver as soon
as it is sent, or lost; any set of the sockets bound to the port gets it, and what
does not fit a queue is dropped. Other hosts may send questions and anything else at
any time (`Stray`). A worker is on a host of its own, since the discovery port is
fixed and not shared. The descriptors nobody has set name nothing, or one of those
they are compared with: the choice is made once, in `Init`. A `connect()` succeeds
as soon as the server listens, and a reply arrives from the port that the worker
then connects to, which is why `DISCOVERY_SERVER_PORT` and `CONNECTION_PORT` must
be equal (Config.h 16 and 30). Failing `socket()`, `bind()` and `sendto()` calls are
left out, as are `EPOLLHUP` events of discovery's own descriptors.

**Dialogue.** Whole messages between the server and its workers, each once and in
order: what `ClusterServer` and `ClusterClient` take for granted. A death loses
what was sent last and nothing else.

**Framing.** The bytes. A byte is known by the frame it is of and its place in it,
so that a buffer filled from two frames can be told from one that holds a frame; the
table of tasks is a set, and an accepted connection always finds a cell.

| Action | Code |
|---|---|
| `AcceptConnection`, `DropConnection` | a cell is taken with its old buffer and `bytes_recieved = 0`, and freed |
| `ReceivePart`, `ReceiveFrame` | `read_data_on_connection` of the server: `recv()` of any part of what is missing; a complete frame is handled, and ends the server if its command is none or its task is not in the list |
| `TakePart`, `TakeTask` | the same on the worker |
| `SendRequest`, `SendResult`, `SendRest` | `put_data_to_connection` of the worker, which waits for room: the socket blocks |
| `SendTask` | that of the server, which does not wait: without room for the whole task a part is a `BUG_ON`, and nothing at all is tried again for ever (`no_room`) |
| `Connect`, `WorkerDies` | a worker; what it has sent last may not arrive |

*Abstractions of the environment.* `MSG_WAITALL` is no promise on a socket that does
not block, so `recv()` may return any part on both sides. The way to a worker has
room for one task per thread (`WorkerRoom`, an assumption: 256 bytes at most for
each, far below any socket buffer); the way to the server may be as small as one
byte. A dead worker is noticed at any time after its death, in whichever way.

**ClusterServerClaims, ClusterClientClaims, ClusterDiscoveryClaims.** What comments, log messages and
assertions say and the code does not keep: one property each, quoted at its
definition.

Definitions whose comment begins with "Seeded fault" are deliberately wrong
variants of the operator after them (a dropped guard, an off-by-one, a missing
reset). No specification uses them. Substituting one for its original must break
the property it is listed with under `mutants` in `PROJECT.json`, which shows
that the property can fail.

## 3. Runs

`tlc -config X.cfg M` for each; all are in `PROJECT.json`.

| Run | Module, cfg | Checks | Size |
|---|---|---|---|
| `task_pool` | MCTaskManagement | all of `PoolInv`, `CompletedIsFinal`, `ImplementsWorkPool` | 12 thousand states |
| `server_tasks` | MCClusterServer | `TypeOK`, `CreditsConserved`, `AssignmentsAgree`, `ReturnedIsComplete`, `QuitsOnlyUnfinished`, and `PoolSpec` as a property: the event loop calls the table legally | 157 thousand |
| `server_life` | MCClusterServer, MCServerLife.cfg | `TableAgrees`, `EndsAreExplained`, `BacklogIsAccepted`, `DeathsAreNoticed`, `EndsWithoutDeaths`, `SoleWorkerFinishes` | 488 thousand |
| `client` | MCClusterClient | `TypeOK`, `ThreadsAccounted`, `EndsAreExplained`, `OneStage`, `OwnResultOnce`, `SleepsOnlyWhenSent`, `KeepsPromise`, `TasksAreAnswered`, `LossIsNoticed` | 46 thousand |
| `discovery` | MCClusterDiscovery | `TypeOK`, `PausedForGood`, `SearchGoesOn`, `PostMortem`, `MeetsServers`, `WorkersConnect` | 185 thousand |
| `framing` | MCFraming | `TypeOK`, `FramesAligned`, `NoTornFrame`, `RoomForTasks`, `CarriesMessages`, `StreamsDrain` | 181 thousand |
| `claim_*` | MCClaim*.cfg | one claim each, violated | see below |

**Bounds.** One bound is in a guard, `MaxParts` of `ClusterClient`, the parts of a task
that are received before the rest of it. Every run explores its whole state space, which
is finite because requests, tasks and workers are.

* `task_pool`: four tasks, two connections, two places each - a list can be
  full, a dropped list can hold two tasks, and a third task can lie between
  them, which is what the scan start and the two searches depend on.
* `server_tasks`: three tasks, two workers of *three* threads, two cells with
  *two* places. More threads than places reaches the full task list, fewer
  tasks than threads reaches the empty pool, and two messages can wait in one
  queue while a third is handled. The array of events has room for two although
  three can be ready. Workers are a symmetry set; only safety is checked here.
* `server_life`: three workers for two cells, so the table fills, accepting
  is paused, and a freed cell is reused. Two tasks, one thread each, no symmetry.
  `EndsAreExplained` is checked here, where each of its reasons can be missing: the
  third worker may or may not be in the backlog when the table fills (`err_pause`, and
  `bug_no_cell`, which must not happen), and a worker has no more threads than its list
  has places, so that a full list (`bug_no_room`) must not happen either.
  `SoleWorkerFinishes` is a statement about workers with one thread that nobody
  else disturbs: with two threads, a worker alone can meet the `BUG_ON` of
  `claim_greedy`.
* `client`: two threads and three tasks, so that an entry and its buffers are used
  again for a later task while the other thread still computes, two ends can be
  pending at once, and an end, a task and write readiness can share a batch. A task comes
  in up to three pieces (`MaxParts = 2`): the bound stands for the finitely many bytes of a
  frame, and there has to be one, for a socket that is readable for ever could keep the
  first entry of every batch and with it the ends of the threads from being looked at.
  The larger instance with four tasks, three threads and four events, and tasks in two
  pieces (1.3 million states), passes as well.
* `discovery`: two servers of which one stops and starts again at any time, so that
  a reply can be older than its sender, and one worker with every way to be started.
  A second worker would add only its questions, which `Stray` brings. The server's
  queue holds one datagram and the worker's two: a reply behind something else, or
  two replies. `CHECK_DEADLOCK FALSE`: a process that has died, or a worker that has
  connected, does no more discovery.
* `framing`: two workers and *one* cell, so that the second gets the buffer of the
  first with a part of a frame in it; frames of three bytes to the server (first,
  inner, last) and of two to the worker; four bytes of room, so that a frame is split
  by a full stream as well as by `recv()`; two threads and three tasks, so that
  requests, results and tasks follow each other. Both workers may die, then nothing
  moves, so the deadlock check is off.

**Fairness** (`FairSpec`). In `ClusterServer` the event-loop thread keeps running
(`WF(ServerNext)`): it blocks only in `epoll_wait`, which returns when an event is
ready. A connected worker sends its initial requests and every computation ends
and is sent (weak fairness per worker): the client's loop does both without
waiting for the server. No worker has to connect and none has to die; a starved
or stuck computation is outside the model. Nothing is assumed about which ready
events `epoll_wait` returns when the array is too short, so the liveness runs
give it room for all of them. In `ClusterClient` the event loop keeps running and
every computation ends (weak fairness each); the server owes nothing.

In `ClusterDiscovery` both threads of a worker keep running and an armed timer
expires. A server that does not stop (`Stable`) is started and handles its
datagrams. Strong fairness is on the network: of the questions that find room in
such a server's socket some arrive, and so do some of its replies; without it
every datagram may be lost. Weak fairness would not do, since a question is being
sent only once a second. `WorkersConnect` also supposes that the other hosts fall
silent at last (`QuietNetwork`), for they could keep the queues full for ever. In
`Framing` both event loops read what has arrived and a worker's `send()` goes on when
there is room (weak fairness each).

## 4. What the runs show to be wrong

| Run | The code says | What happens |
|---|---|---|
| `claim_greedy` | `BUG_ON(..."Greedy client detected")`, server.c:641 | writing is enabled from the start and until the next task is sent, so a request that comes when every task is being resolved is answered at once; two honest workers end the server |
| `claim_send_error` | "Dropping connection#%zu because of send error", server.c:851 | `ECONNRESET` is a `BUG_ON`; on `EPIPE` the `continue` (868) goes on with the deleted cell |
| `claim_all_left` | "Finish if all the clients left", server.c:874 | a last connection lost on `recv()` is not looked at: the loop waits for ever |
| `claim_served` | "Allow write when CMD_TASK can be sent", server.c:800 | tasks that a hangup returns are never offered to workers that asked before |
| `claim_event_fd` | "Handle \"computation finished\" events", client.c:925 | the event is looked up in the first entry of the batch (928): one that begins with an eventfd and has another readable entry - a task, a part of one, or another eventfd - reads the drained eventfd again, and the worker exits |
| `claim_pause` | "Pause discovery", client.c:294 | the timer's event can be in the batch of the reply: handled after the pause, it sends one more question, and `read()` of the disarmed timer ends the worker, which has just connected |

Other outcomes the models reach, for which the code promises nothing different
or that are a matter of configuration, have no run of their own: a second worker
in the backlog when the last cell is taken makes the accept loop pause twice, and
the server exits (`err_pause`, server.c:440 and 758); a worker reset after the last
result makes `shutdown()` fail with `ENOTCONN`, and the server exits with all
results in hand (`err_shutdown`, server.c:258); a reply that is read while the
starting thread is between the registration of the socket and that of the timer
ends the worker (`err_pause`, client.c:204); so does a server that stopped after its
reply (`err_connect`, client.c:349), and a descriptor that nobody has set and that
happens to name another one (`err_stray`, `bug_mode`); a worker with
more threads than `MAX_TASKS_PER_CLIENT` (16) ends the server (`bug_no_room`,
server.c:653); the server that lost its last connection exits while a worker
waits in the backlog (`no_workers`, server.c:745); a reset that `recv()` or
`send()` meets ends a worker's process instead of its loop (`err_recv`,
`err_send`, client.c:561 and 621); and the buffers of a worker that lost its
server are freed while its detached threads compute (`use_after_free`,
client.c:733-735, called at 1070).

## 5. What is proved

For every number of tasks, cells, places, workers and threads and every size of
the event array, of servers and sockets' queues, and for every frame size; the only
assumptions are `SizesAssumption` (sizes are positive), `ClusterAssumption` (the
workers are finitely many and the descriptors are distinct), `ClientAssumption` (the
same for a worker), `DiscoveryAssumption` (queues hold something, and what is in
them can be told apart) and `FramingAssumption` (sizes are positive, and the way to
a worker has room for a task per thread), which TLC evaluates on every run.

**TaskManagementProofs.** `PoolIInv` is `PoolTypeOK` with the four parts of
`PoolInv`, and is inductive as it stands. The parts need one another: that the
counters stay right when a connection is dropped needs the number of places in
its list to be the number of tasks they name (`HeldMatchesUsedSlots`), which is
`ListedOnce`, and that these were counted as being resolved, which is
`ResolvingIsListed`; that assigning a task is legal needs `ScanMissesNothing`.
`GetLists`, `PushLists` and `DropLists` say what each operation does to the lists
once and for all; `GetPreserves`, `PushPreserves` and `DropPreserves` prove the
step, one per operation. The theorems are the parts, `CompletedTasksAreFinal`
(an action property from the same invariant) and `PoolImplementsWorkPool`.

**ClusterServerProofs.** `CallsInv` is what the calls on the table rely on: the
send loop runs for a cell, events about cells are about workers, queues hold
messages. With it every step of the server and its workers is a step of
`PoolSpec` or leaves the table alone (`StepIsPoolStep`), so `ServerUsesPool` holds
and carries every theorem of the table over to the running server. For
`ServerReturnsEverything` the invariant is strengthened by `ResultsInv`: a
completed task has its own result, and the loop is left only with
`num_completed` at its end; the counter being right then leaves no task out,
since a subset of the tasks with as many elements is all of them.

In the same module, for the connection table: `Connections` says where a connection can be - not
made, in the backlog, in one cell, dropped - and is inductive over the accept
loop and the three ways a connection is deleted; with it `num_clients` counts the
open cells and the accept socket is registered exactly while there is room
(`ServerTableAgrees`).

**ClusterAssignmentProofs.** `Assigned` has the agreement of every cell with its
worker and what that rests on: a task being sent is in the list, the list of a
free cell is empty (or a new worker would inherit tasks), a worker that was not
accepted yet has nothing, no result is twice in a queue, and the send loop picks no
task for a connection it has dropped. The lemmas about queues come first, then one
lemma per call that moves a task: accept, drop, receive, pick, put. That no result
is unknown to the list (`NoResultIsUnknown`) is the agreement read at the head of
a queue. `Quitting` says why results are not thrown away by
a hangup (`NoResultIsThrownAway`): the connection that brought the last one has had
its only event of the batch, so it is still there when the others are dropped, and
at the end of the batch the loop is left.

In the same module, for the requests: `Credit(w)` counts what a worker will ask for, the
requests on their way and the tasks it owes; with the cell's `requested_tasks` it
makes up the threads of the worker. Every step moves one credit from one of these
to another or leaves all alone (`SendKeepsCredits`, `ReceiveKeepsCredits`,
`PutKeepsCredits`); it needs `Assigned`, for which the task put is not yet owed
and the result read was. The bound `requested_tasks <= Threads` in `TypeOK`
(`ServerTypeCorrect`) follows from this and from nothing simpler.

Last in that module, the ends of the process (`ServerEndsAreExplained`). Each way to
end has one reason, and each reason rests on an invariant proved before: accepting
never finds the table full while it is armed (`Connections`); a task list is full only
if its worker has more threads than it has places, because what the list names and
what the worker may still ask for add up to the threads (`Credits`, in
`FullListExplained`); the send loop goes on with a deleted connection only after a
reset, which stays one (`Resets`, `ResetForGood`). `QuietServerReturns` is what an
operator can use of it: with room in the lists and the table and no deaths, the call
returns, or the greedy-client `BUG_ON` of `claim_greedy` ends it, and nothing else
does. That last case is real, so the theorem cannot do without it.

**ClusterClientProofs.** `OneStage` and `ThreadsAccounted` need only the types.
`NoTaskIsSpare` follows from the second: a task on its way is itself accounted
for, so fewer than all entries are occupied. `AnswersAreRight` needs that a task
is in one place (`OnePlace`: with the server, on its way, in one entry, or
answered) and that the buffers of an entry that is announced or waiting hold its
own task (`OwnBuffers`), which `OneStage` protects from a second task. That the
loop never sleeps with something unsent (`NothingIsLeftUnsent`) needs
`WritesEnabled` at every point of the batch, not only at its end. For the
refinement (`ClientKeepsPromise`), `AskedFirst` gives that no result leaves
before the last initial request: the first requests are sent in one pass of the
send loop, before any task can have come. `ClientEndsAreExplained` bounds the defect
of `claim_event_fd`: the event at which a drained eventfd is read is never its own, which
the batch began with (`Batches`), and the worker is not one with a single thread, whose
entry stays occupied until the batch is done, so that neither a task nor a part of one can
come in it (`SoleThread`). Such workers, and those that fetch one event at a time, are
safe from it. Parts of tasks leave one in stock (`PartsLeaveARest`): a part that is
received, or can be, is that of a task which the server still has to send the rest of.

**ClusterDiscoveryProofs.** `WorkerInv` has five parts for each worker. `Named`: one
with a hostname has nothing of discovery. `Registered`: until the pause, what epoll
watches is what the starting thread has registered by then, and after it nothing.
`Timed`: nothing of the timer is there before it is armed, and an event of it in the
batch of a worker that searches is backed by an expiration. `Joined`: a worker that has
connected has no event of the discovery socket left in its batch, so it does not
connect twice. `Heard`: a server that replied was running, and is still if it does not
stop. The invariant is `Inv`; none of the parts is inductive alone (`PausedForGood`
needs `Joined` to know that the pause is not undone, and `PostMortem` needs `Heard`).
One lemma per action of a worker, one each for the network and the servers
(`SameWorker` says what they leave alone). For `DiscoveryImplementsRendezvous` the
home of a worker is `addr` once it has connected: `CatchReply` still changes `addr`,
but never then (`Joined`). `PausedForGood` is about registrations: an event of the timer that
is in the batch already is `claim_pause`, and the starting thread may still arm the timer
then, unwatched. `DeathsAreExplained` takes one more invariant, `Unset`: an event is taken
for one of the wrong kind only if the descriptor nobody has set happens to name its own.

**FramingProofs.** `Shape` is `TypeOK` with the fact that each connection is in the
backlog or in at most one cell, and is inductive by itself: that a buffer is never filled
past its end is what `BytesToRead` is for. The invariant is
`Shape /\ FramesAligned /\ NoTornFrame`. The lemmas about streams come first, for
sequences of any kind: taking the first bytes and cutting the last keeps a stream in
frames (`RestInFrames`, `StartInFrames`), a whole frame can be appended to a whole one
(`OneMoreFrame`), and a `recv()` leaves buffer and stream making up the same frames, a full
buffer being one of them (`ReceivingKeepsFrames`). What a blocked `send()` still holds
counts as stream (`UpStream`), so that sending the rest changes nothing
(`PuttingBytes`). `FramesAligned` is then kept by every action, one lemma each, for the
worker concerned, and by the others because no two workers share a cell. `NoTornFrame`
is `FramesAligned` read at the moment a buffer is full.

**DialogueProofs.** The abstract dialogue keeps its books (`Books`), and the proof of
the refinement below stands on this. `Counted`: what a worker has not asked for, its
requests and results on the way, its credit, the tasks on the way to it and those it
computes are never more than its threads. `Entrusted`: what it has, is told or has
answered was handed out to it and is in one of these places, once. `HeldOnce`: a task is
handed out to one worker at a time. Each action has a lemma; that the three need one
another shows in `HearKeeps`, where the result heard leaves the books for good, and in
`DieKeeps`, where a prefix of a queue keeps what was true of all of it.

**FramingMessageProofs.** Three results from one invariant, `Tidy`: the alignment of
`FramingProofs`, `Orderly` (the server has not ended, every flow is a number of whole
frames unless a death cut it, free cells hold nothing) and the books of the dialogue
read through the refinement mapping (`Carried!Books`). The circle is this: that a step
of the bytes is a step of the dialogue needs that there is room for the task sent and
that a result is one of a task handed out; both are known from the books; and the books
are kept because the step is a step of the dialogue. So one proves, from `Tidy`, that
every step is a step of the dialogue or a stutter (`StepIsCarried`, one lemma per
action), and from this and `Carried!BooksStep` that `Tidy` is kept (`TidyStep`).
`TasksHaveRoom` (`RoomForTasks`), `ResultsAreKnown` and `StreamsCarryMessages`
(`CarriesMessages`) follow. The mapping takes the last byte of each frame for its
message, so `recv()` and the sending of a remainder are stutters unless they complete
a frame; the lemmas on flows (`Messages` of a concatenation, of a prefix, of a rest)
say so for sequences of any kind, with no induction: a message is a quotient of a
position, not the result of a recursion. `Carried` is the mapping `Talk` written over
the module that holds the lemmas of the dialogue, so that they can be cited.

**Model-checked only.** Liveness under fairness (and ENABLED) is out of the
prover's reach: `BacklogIsAccepted`, `DeathsAreNoticed`, `EndsWithoutDeaths`,
`SoleWorkerFinishes`, `TasksAreAnswered`, `LossIsNoticed`, `WorkersConnect` and
`StreamsDrain`. Every invariant, action property and refinement that a passing run
checks is also proved.

## 6. Plan

1. *(done)* the task table, the server with observable workers, their claims.
2. *(done)* `ClusterClient` and the promise it keeps.
3. *(done)* `ClusterDiscovery`: question, reply, timer and pause, with several servers
   and lost datagrams.
4. *(done)* `Framing`: the byte streams and the receive buffers, under the messages of
   the other modules.
5. *(done)* the theorems about all of these.
6. *(done)* `RoomForTasks` and `CarriesMessages` as theorems, over the books of the
   dialogue; the ends of the server and of a worker explained.
7. Left: that `Framing` and `ClusterServer` speak of the same messages, by proof and not
   by reading. `ClusterServer` has a task at the worker as soon as it is sent, while
   `Dialogue` has it on its way first, so it takes a coarser dialogue, without that way,
   which both implement.

## 7. Not modelled

*Integral computation.* The two programs on top of the library keep no state
between their calls. The one cuts the interval into equal parts, the other sums
trapezoids, both in `double`: what could be wrong with them is rounding, which TLA+
does not have, and over exact numbers the parts tile the interval by construction.

*Logging and build.* Log files and Make rules; of `BUG_ON` only the end of the process
matters, and the models have it.

*Parts of modelled components.* Socket options and their keepalive times (a death is
noticed at some time), failures of system calls that no peer can cause, the limit of
the listen backlog, and the payload of tasks and results. The worker reads
`cache_line_size` and `max_cpu` before it has queried them (client.c:661): what its
buffers look like then depends on the stack, and the model has buffers that do not
overlap. The size of `send_buffer` is checked against `task_size` while a result has
`ret_size` bytes (client.c:590); both are constants of the call. A worker that
violates the protocol is not considered: the models say how the code behaves among
its own clients.
