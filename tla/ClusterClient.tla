--------------------------- MODULE ClusterClient ---------------------------
(***************************************************************************)
(* A worker that has connected to its server: the event-loop thread, the   *)
(* detached threads that compute, the eventfds by which they tell the loop *)
(* that they have ended, and the thread that waits in                      *)
(* stop_cluster_client().                                                  *)
(*                                                                         *)
(* The computing threads and the server run concurrently with the event    *)
(* loop, so a step of the loop is what it does from one system call whose  *)
(* outcome depends on them to the next.  The socket is a blocking one      *)
(* (fcntl() is given F_SETFD, not F_SETFL), so a send never reports        *)
(* EAGAIN.  The server keeps to the protocol: it answers a request with a  *)
(* task it has not sent here before.  A task can arrive in parts.  What a  *)
(* part holds is left to module Framing; here it is an EPOLLIN after which *)
(* no computation starts.                                                  *)
(***************************************************************************)
EXTENDS Integers, FiniteSets, Sequences

CONSTANTS
  NumTasks,    \* the tasks of the server
  MaxThreads,  \* handle->max_threads
  MaxParts,    \* how often a task can be received in part, less than its bytes
  MaxEvents,   \* MAX_EVENTS: the room in the array given to epoll_wait()
  SocketFd     \* server_conn.socket_fd

Task   == 0 .. NumTasks - 1
Thread == 0 .. MaxThreads - 1

\* An eventfd has the name of its thread.
ASSUME ClientAssumption ==
  /\ NumTasks \in Nat \ {0}
  /\ MaxThreads \in Nat \ {0}
  /\ MaxParts \in Nat
  /\ MaxEvents \in Nat \ {0}
  /\ SocketFd \notin Thread

None == -1

VARIABLES
  \* thread_manager[i] and its buffers.
  empty,            \* the entries that are free
  waiting,          \* the entries with waiting_to_be_sent
  taskId,           \* task_id
  input,            \* the task whose data the task buffer of i holds
  output,           \* the task whose result the return buffer of i holds
  running,          \* the entries a thread computes for
  eventFd,          \* the counter of event_fd
  \* The event loop.
  initialRequests,  \* initial_requests
  canWrite,         \* whether the socket is registered with EPOLLOUT
  pc,               \* where the loop is, or how the process ended
  batch,            \* the entries of pending_events not handled yet
  first,            \* the descriptor in its first entry
  cur,              \* the entry being handled
  \* The server and the connection.
  conn,             \* the state of the connection
  toClient,         \* tasks sent by the server and not read here
  part,             \* whether a part of the next one is there to be read
  received,         \* bytes_recieved, counted in the parts that were read
  unsent,           \* tasks the server has not sent here
  requests,         \* requests sent and not answered, a result being one too
  results           \* results sent: [task, value]

threadVars == <<empty, waiting, taskId, input, output, running, eventFd>>
loopVars   == <<pc, batch, first, cur>>
serverVars == <<conn, toClient, part, received, unsent, requests, results>>
vars       == <<threadVars, initialRequests, canWrite, loopVars, serverVars>>

\* How the event loop can end: it returns and stop_cluster_client() frees what
\* the threads use; a BUG_ON, a failed system call or memory fault ends the
\* process.
Stopped == {"left", "freed", "done"}
Failed  == {"bug_spare_task", "err_recv", "err_send", "err_eventfd", "use_after_free"}

Looping == pc \notin Stopped \cup Failed

NoEvent == [fd |-> None, in |-> FALSE, out |-> FALSE, hup |-> FALSE]

IsLeast(x, S) == x \in S /\ \A y \in S : x <= y

Init ==
  /\ empty   = Thread
  /\ waiting = {}
  /\ taskId  = [i \in Thread |-> None]
  /\ input   = [i \in Thread |-> None]
  /\ output  = [i \in Thread |-> None]
  /\ running = {}
  /\ eventFd = [i \in Thread |-> 0]
  /\ initialRequests = MaxThreads
  /\ canWrite = TRUE
  /\ pc    = "wait"
  /\ batch = {}
  /\ first = None
  /\ cur   = NoEvent
  /\ conn     = "up"
  /\ toClient = <<>>
  /\ part     = FALSE
  /\ received = 0
  /\ unsent   = Task
  /\ requests = 0
  /\ results  = <<>>

-----------------------------------------------------------------------------
(* The server                                                              *)

\* What has been read of the task that comes after those sent.
ReceivedOfNext == IF toClient = <<>> THEN received ELSE 0

\* A part of a task arrives.
PartArrives ==
  /\ conn = "up"
  /\ requests > 0
  /\ unsent # {}
  /\ ~part
  /\ ReceivedOfNext < MaxParts
  /\ part' = TRUE
  /\ UNCHANGED <<threadVars, initialRequests, canWrite, loopVars,
                 conn, toClient, received, unsent, requests, results>>

\* A task arrives, or the rest of it.
ServerSends(t) ==
  /\ conn = "up"
  /\ requests > 0
  /\ t \in unsent
  /\ toClient' = Append(toClient, t)
  /\ part'     = FALSE
  /\ unsent'   = unsent \ {t}
  /\ requests' = requests - 1
  /\ UNCHANGED <<threadVars, initialRequests, canWrite, loopVars, conn, received, results>>

\* The server closes the connection, or it is gone and answers with a reset.
ServerLeaves ==
  /\ \/ conn = "up"  /\ conn' \in {"fin", "reset"}
     \/ conn = "fin" /\ conn' = "reset"
  /\ UNCHANGED <<threadVars, initialRequests, canWrite, loopVars,
                 toClient, part, received, unsent, requests, results>>

-----------------------------------------------------------------------------
(* computation_wrapper()                                                   *)

\* The thread of entry i leaves its result and writes to the eventfd.  Once
\* the entries and buffers are freed, it does both in freed memory.
ThreadFinishes(i) ==
  /\ i \in running
  /\ pc \notin Failed \cup {"done"}
  /\ running' = running \ {i}
  /\ IF pc = "freed"
     THEN /\ pc' = "use_after_free"
          /\ UNCHANGED <<output, eventFd>>
     ELSE /\ output'  = [output EXCEPT ![i] = input[i]]
          /\ eventFd' = [eventFd EXCEPT ![i] = @ + 1]
          /\ UNCHANGED pc
  /\ UNCHANGED <<empty, waiting, taskId, input, initialRequests, canWrite,
                 batch, first, cur, serverVars>>

-----------------------------------------------------------------------------
(* epoll_wait() and the events                                             *)

SocketEvent ==
  [fd |-> SocketFd, in |-> toClient # <<>> \/ part \/ conn # "up",
   out |-> canWrite, hup |-> conn = "reset"]

ThreadEvent(i) == [fd |-> i, in |-> eventFd[i] > 0, out |-> FALSE, hup |-> FALSE]

ReadyEvents ==
  {e \in {SocketEvent} \cup {ThreadEvent(i) : i \in Thread} : e.in \/ e.out \/ e.hup}

EpollWait ==
  /\ pc = "wait"
  /\ ReadyEvents # {}
  /\ \E b \in SUBSET ReadyEvents :
       /\ Cardinality(b) <= MaxEvents
       /\ b = ReadyEvents \/ Cardinality(b) = MaxEvents
       /\ \E e \in b : first' = e.fd
       /\ batch' = b
  /\ pc' = "dispatch"
  /\ UNCHANGED <<threadVars, initialRequests, canWrite, cur, serverVars>>

\* The first entry is handled first, the others follow in any order.
IsNext(e) == e \in batch /\ (e.fd = first \/ \A d \in batch : d.fd # first)

\* EPOLLHUP and EPOLLERR of the socket end the loop; EPOLLIN of it is read.
TakeEvent(e) ==
  /\ pc = "dispatch"
  /\ IsNext(e)
  /\ batch' = batch \ {e}
  /\ cur' = e
  /\ pc' = IF e.hup THEN "left" ELSE IF e.fd = SocketFd /\ e.in THEN "read" ELSE "mark"
  /\ UNCHANGED <<threadVars, initialRequests, canWrite, first, serverVars>>

EndOfBatch ==
  /\ pc = "dispatch"
  /\ batch = {}
  /\ pc' = "wait"
  /\ first' = None
  /\ cur' = NoEvent
  /\ UNCHANGED <<threadVars, initialRequests, canWrite, batch, serverVars>>

-----------------------------------------------------------------------------
(* A task arrives                                                          *)

\* Seeded fault: the search does not look whether the entry is empty.
FreeEntryFirst(i) == IsLeast(i, Thread)

\* The entry the search of start_computation() ends at.
FreeEntry(i) == IsLeast(i, empty)

\* read_data_on_connection() and start_computation(); the BUG_ON fires when
\* no entry is empty.
ReceiveTask ==
  /\ pc = "read"
  /\ toClient # <<>>
  /\ toClient' = Tail(toClient)
  /\ received' = 0
  /\ LET t == Head(toClient) IN
       \/ /\ empty = {}
          /\ pc' = "bug_spare_task"
          /\ UNCHANGED threadVars
       \/ \E i \in Thread :
            /\ FreeEntry(i)
            /\ empty'   = empty \ {i}
            /\ taskId'  = [taskId EXCEPT ![i] = t]
            /\ input'   = [input EXCEPT ![i] = t]
            /\ running' = running \cup {i}
            /\ pc' = "mark"
            /\ UNCHANGED <<waiting, output, eventFd>>
  /\ UNCHANGED <<initialRequests, canWrite, batch, first, cur, conn, part, unsent, requests, results>>

\* read_data_on_connection() has to wait for the rest: ERR_NOT_READY.
ReceivePart ==
  /\ pc = "read"
  /\ toClient = <<>>
  /\ part
  /\ part' = FALSE
  /\ received' = received + 1
  /\ pc' = "mark"
  /\ UNCHANGED <<threadVars, initialRequests, canWrite, batch, first, cur,
                 conn, toClient, unsent, requests, results>>

\* Seeded fault: recv() returning 0 is taken for a part of a task.
AfterEofGoesOn == "mark"

AfterEof == "left"

\* recv() returns 0, on which the loop is left, or fails after a reset.
ReceiveBroken ==
  /\ pc = "read"
  /\ toClient = <<>>
  /\ ~part
  /\ conn # "up"
  /\ \/ pc' = AfterEof
     \/ conn = "reset" /\ pc' = "err_recv"
  /\ UNCHANGED <<threadVars, initialRequests, canWrite, batch, first, cur, serverVars>>

-----------------------------------------------------------------------------
(* A computation has ended                                                 *)

\* Which entries the current event is taken to speak of: the code compares the
\* eventfd with the descriptor of the FIRST event of the batch, and EPOLLIN
\* with the current one.
Announced == {i \in Thread : first = i /\ cur.in}

\* Seeded fault: the eventfd is not read.
CounterAfterMarkUnread(i) == eventFd[i]

CounterAfterMark(i) == IF i \in Announced THEN 0 ELSE eventFd[i]

\* Seeded fault: write events are not enabled.
WantsWriteNever == canWrite

WantsWrite == canWrite \/ Announced # {}

AfterMark == IF cur.fd = SocketFd /\ cur.out THEN "send" ELSE "dispatch"

MarkComputations ==
  /\ pc = "mark"
  /\ IF \E i \in Announced : eventFd[i] = 0
     THEN /\ pc' = "err_eventfd"
          /\ UNCHANGED <<waiting, eventFd, canWrite>>
     ELSE /\ waiting'  = waiting \cup Announced
          /\ eventFd'  = [i \in Thread |-> CounterAfterMark(i)]
          /\ canWrite' = WantsWrite
          /\ pc' = AfterMark
  /\ UNCHANGED <<empty, taskId, input, output, running, initialRequests,
                 batch, first, cur, serverVars>>

-----------------------------------------------------------------------------
(* Results and requests leave                                              *)

\* Seeded fault: the entry stays occupied.
EmptyAfterSendSame(i) == empty

EmptyAfterSend(i) == empty \cup {i}

\* Seeded fault: waiting_to_be_sent is not reset.
WaitingAfterSendSame(i) == waiting

WaitingAfterSend(i) == waiting \ {i}

SendResult(i) ==
  /\ pc = "send"
  /\ IsLeast(i, waiting)
  /\ conn # "reset"
  /\ results'  = Append(results, [task |-> taskId[i], value |-> output[i]])
  /\ requests' = requests + 1
  /\ waiting' = WaitingAfterSend(i)
  /\ empty'   = EmptyAfterSend(i)
  /\ UNCHANGED <<taskId, input, output, running, eventFd, initialRequests, canWrite,
                 loopVars, conn, toClient, part, received, unsent>>

\* Seeded fault: initial_requests is not decremented.
RequestsLeftSame == initialRequests

RequestsLeft == initialRequests - 1

SendRequest ==
  /\ pc = "send"
  /\ waiting = {}
  /\ initialRequests # 0
  /\ conn # "reset"
  /\ requests' = requests + 1
  /\ initialRequests' = RequestsLeft
  /\ UNCHANGED <<threadVars, canWrite, loopVars, conn, toClient, part, received, unsent, results>>

\* send() reports EPIPE, on which the loop is left, or ECONNRESET.
SendBroken ==
  /\ pc = "send"
  /\ (waiting # {} \/ initialRequests # 0)
  /\ conn = "reset"
  /\ pc' \in {"left", "err_send"}
  /\ UNCHANGED <<threadVars, initialRequests, canWrite, batch, first, cur, serverVars>>

\* Everything is sent: write events are disabled.
EndSend ==
  /\ pc = "send"
  /\ waiting = {}
  /\ initialRequests = 0
  /\ canWrite' = FALSE
  /\ pc' = "dispatch"
  /\ UNCHANGED <<threadVars, initialRequests, batch, first, cur, serverVars>>

-----------------------------------------------------------------------------
(* stop_cluster_client(), and what follows                                 *)

FreeResources ==
  /\ pc = "left"
  /\ pc' = "freed"
  /\ UNCHANGED <<threadVars, initialRequests, canWrite, batch, first, cur, serverVars>>

ProcessEnds ==
  /\ pc = "freed"
  /\ pc' = "done"
  /\ UNCHANGED <<threadVars, initialRequests, canWrite, batch, first, cur, serverVars>>

LoopNext ==
  \/ EpollWait
  \/ \E e \in batch : TakeEvent(e)
  \/ EndOfBatch
  \/ ReceiveTask
  \/ ReceivePart
  \/ ReceiveBroken
  \/ MarkComputations
  \/ \E i \in Thread : SendResult(i)
  \/ SendRequest
  \/ SendBroken
  \/ EndSend

ServerNext == Looping /\ (ServerLeaves \/ PartArrives \/ \E t \in Task : ServerSends(t))

Next ==
  \/ LoopNext
  \/ \E i \in Thread : ThreadFinishes(i)
  \/ ServerNext
  \/ FreeResources
  \/ ProcessEnds

Spec == Init /\ [][Next]_vars

\* The event-loop thread keeps running and every computation ends.
FairSpec ==
  /\ Spec
  /\ WF_vars(LoopNext)
  /\ \A i \in Thread : WF_vars(ThreadFinishes(i))

-----------------------------------------------------------------------------
(* Properties                                                              *)

\* Every variable holds a value its declaration and the protocol allow.
TypeOK ==
  /\ empty \subseteq Thread /\ waiting \subseteq Thread /\ running \subseteq Thread
  /\ taskId \in [Thread -> Task \cup {None}]
  /\ input \in [Thread -> Task \cup {None}]
  /\ output \in [Thread -> Task \cup {None}]
  /\ eventFd \in [Thread -> Nat]
  /\ initialRequests \in 0 .. MaxThreads
  /\ canWrite \in BOOLEAN
  /\ pc \in {"wait", "dispatch", "read", "mark", "send"} \cup Stopped \cup Failed
  /\ batch \subseteq [fd: Thread \cup {SocketFd}, in: BOOLEAN, out: BOOLEAN, hup: BOOLEAN]
  /\ first \in Thread \cup {SocketFd, None}
  /\ cur \in [fd: Thread \cup {SocketFd, None}, in: BOOLEAN, out: BOOLEAN, hup: BOOLEAN]
  /\ conn \in {"up", "fin", "reset"}
  /\ toClient \in Seq(Task)
  /\ part \in BOOLEAN
  /\ received \in 0 .. MaxParts
  /\ unsent \subseteq Task
  /\ requests \in 0 .. MaxThreads
  /\ results \in Seq([task: Task, value: Task \cup {None}])

Busy == Thread \ empty

\* Every thread is accounted for once: its request is still to be sent, known
\* to the server, answered by a task on its way, or its entry is occupied.
ThreadsAccounted ==
  initialRequests + requests + Len(toClient) + Cardinality(Busy) = MaxThreads

\* The BUG_ON of start_computation() never fires: however computations end
\* and messages cross, a task that arrives finds an empty entry.
NoSpareTask == pc # "bug_spare_task"

\* The process ends for the reasons the code has for it only: the loop is left
\* and the calls on the socket fail when the server is gone, and an eventfd is
\* read in vain only when its own event began the batch and a later one, of
\* another descriptor, is being handled; a worker of one thread, or one that
\* takes one event at a time, never does it.
EndsAreExplained ==
  /\ NoSpareTask
  /\ pc \in Stopped \cup {"use_after_free"} => conn # "up"
  /\ pc \in {"err_recv", "err_send"} => conn = "reset"
  /\ pc = "err_eventfd" =>
       first \in Thread /\ cur.fd # first /\ MaxThreads > 1 /\ MaxEvents > 1

\* An occupied entry is at exactly one stage, so the end of a computation is
\* told once, and its buffers and task_id are not touched by another task.
OneStage ==
  pc # "use_after_free" =>
    \A i \in Thread :
      /\ eventFd[i] \in {0, 1}
      /\ i \in empty   => i \notin running \cup waiting /\ eventFd[i] = 0
      /\ i \in running => i \notin waiting /\ eventFd[i] = 0
      /\ i \in waiting => eventFd[i] = 0
      /\ i \in Busy    => i \in running \cup waiting \/ eventFd[i] = 1

\* What leaves under the name of a task is the result of that task, and no
\* task is answered twice.
OwnResultOnce ==
  /\ \A k \in DOMAIN results : results[k].value = results[k].task
  /\ \A k, l \in DOMAIN results : results[k].task = results[l].task => k = l

\* The loop never goes to sleep with something to send and write events
\* disabled.
SleepsOnlyWhenSent ==
  pc = "wait" /\ (waiting # {} \/ initialRequests # 0) => canWrite

\* The tasks the worker owes an answer for.
AtWorker == {toClient[k] : k \in DOMAIN toClient} \cup {taskId[i] : i \in Busy}

\* Threads, entries, eventfds and buffers implement the worker the server
\* relies on.
Promise == INSTANCE WorkerPromise WITH
  unrequested <- initialRequests,
  asked       <- requests,
  held        <- AtWorker,
  answers     <- {results[k] : k \in DOMAIN results}

KeepsPromise == Promise!Spec

\* A task that has arrived is answered, while the server and the process live.
TasksAreAnswered ==
  \A t \in Task :
    t \in AtWorker ~> t \notin AtWorker \/ conn # "up" \/ ~Looping

\* A worker whose server is gone does not wait for it for ever.
LossIsNoticed == conn # "up" ~> ~Looping

=============================================================================
