------------------------- MODULE ClusterServerProofs -------------------------
(***************************************************************************)
(* Theorems about the cluster server - its calls on the task table, what   *)
(* it returns, and its connection table - for any number of tasks,         *)
(* workers, threads, cells and places, and any size of the event array.    *)
(***************************************************************************)
EXTENDS ClusterServer, TaskManagementProofs

\* What the calls on the task table rely on: the send loop runs for a cell,
\* an event that concerns a cell is one of a worker, and a result is the
\* result of a task.
CallsInv ==
  /\ pc = "send" => cur \in Cell
  /\ socketFd \in [Cell -> Worker \cup {NoFd}]
  /\ \A e \in batch : e.fd \in Worker \cup {AcceptFd}
  /\ toServer \in [Worker -> Seq(Message)]

-----------------------------------------------------------------------------
(* The event loop uses the task table legally                              *)

LEMMA HeadAndTail ==
  ASSUME NEW w \in Worker, toServer \in [Worker -> Seq(Message)], toServer[w] # <<>>
  PROVE  /\ Head(toServer[w]) \in Message
         /\ [toServer EXCEPT ![w] = Tail(@)] \in [Worker -> Seq(Message)]
<1>1. toServer[w] \in Seq(Message)
  OBVIOUS
<1>2. Head(toServer[w]) \in Message /\ Tail(toServer[w]) \in Seq(Message)
  BY <1>1
<1> QED
  BY <1>2

LEMMA EventOfCell ==
  ASSUME CallsInv, NEW e \in batch, NEW c \in Cell, socketFd[c] = e.fd
  PROVE  e.fd \in Worker
  BY ClusterAssumption DEF CallsInv

LEMMA CallsInvInit == Init => CallsInv
  BY DEF Init, ServerInit, WorkerInit, CallsInv

LEMMA CallsInvStep == CallsInv /\ [Next]_vars => CallsInv'
<1> SUFFICES ASSUME CallsInv, [Next]_vars PROVE CallsInv'
  OBVIOUS
<1> USE DEF CallsInv
<1>1. CASE UNCHANGED vars
  BY <1>1 DEF vars, connVars, loopVars, workerVars
<1>2. ASSUME NEW w \in Worker, WorkerNext(w) PROVE CallsInv'
  <2>1. CASE Connect(w) \/ WorkerDies(w)
    BY <2>1 DEF Connect, WorkerDies, connVars, loopVars
  <2>2. CASE SendRequest(w)
    <3>1. Request \in Message
      BY DEF Message
    <3>2. Append(toServer[w], Request) \in Seq(Message)
      BY <3>1
    <3> QED
      BY <2>2, <3>2 DEF SendRequest, connVars, loopVars
  <2>3. ASSUME NEW t \in Task, SendResult(w, t) PROVE CallsInv'
    <3>1. Result(t) \in Message
      BY DEF Message
    <3>2. Append(toServer[w], Result(t)) \in Seq(Message)
      BY <3>1
    <3> QED
      BY <2>3, <3>2 DEF SendResult, connVars, loopVars
  <2> QED
    BY <1>2, <2>1, <2>2, <2>3 DEF WorkerNext
<1>3. CASE EpollWait
  <2>1. \A e \in ReadyEvents : e.fd \in Worker \cup {AcceptFd}
    BY DEF ReadyEvents, EventOf, AcceptEvent
  <2> QED
    BY <1>3, <2>1 DEF EpollWait, connVars, workerVars
<1>4. CASE EndOfBatch \/ StopServer
  BY <1>4 DEF EndOfBatch, StopServer, connVars, workerVars
<1>5. CASE AcceptLoop
  BY <1>5 DEF AcceptLoop, AcceptConnection, AcceptWithFullTable, EndAccept,
              connVars, loopVars, workerVars
<1>6. CASE SendLoop
  BY <1>6 DEF SendLoop, PickTask, PickTaskFails, PutTask, PutTaskBroken, PutTaskOnDeleted,
              EndSend, Sending, DropConnection, DeleteConnection, connVars, loopVars, workerVars
<1>7. ASSUME NEW e \in batch, BeginAccept(e) PROVE CallsInv'
  BY <1>7 DEF BeginAccept, connVars, workerVars
<1>8. ASSUME NEW e \in batch, NEW c \in Cell, HangUp(e, c) \/ ReceiveBroken(e, c)
      PROVE  CallsInv'
  BY <1>8 DEF HangUp, ReceiveBroken, Receive, DropConnection, DeleteConnection, workerVars
<1>9. ASSUME NEW e \in batch, NEW c \in Cell, BeginSend(e, c)
      PROVE  CallsInv'
  BY <1>9 DEF BeginSend, connVars, workerVars
<1>10. ASSUME NEW e \in batch, NEW c \in Cell,
              ReceiveRequest(e, c) \/ ReceiveResult(e, c)
       PROVE  CallsInv'
  <2>1. toServer' \in [Worker -> Seq(Message)]
    <3>1. /\ toServer' = [toServer EXCEPT ![e.fd] = Tail(@)]
          /\ toServer[e.fd] # <<>>
          /\ socketFd[c] = e.fd
      BY <1>10 DEF ReceiveRequest, ReceiveResult, Receive
    <3> QED
      BY <3>1, EventOfCell, HeadAndTail
  <2>2. pc' = "send" => cur' \in Cell
    BY <1>10 DEF ReceiveRequest, ReceiveResult, AfterReceive
  <2>3. socketFd' = socketFd /\ batch' \subseteq batch
    BY <1>10 DEF ReceiveRequest, ReceiveResult, Receive, CountRequest, connVars
  <2> QED
    BY <2>1, <2>2, <2>3
<1> QED
  BY <1>1, <1>2, <1>3, <1>4, <1>5, <1>6, <1>7, <1>8, <1>9, <1>10 DEF Next, ServerNext, HandleEvent


LEMMA StepIsPoolStep == CallsInv /\ [Next]_vars => [PoolNext]_poolVars
<1> SUFFICES ASSUME CallsInv, [Next]_vars PROVE PoolNext \/ UNCHANGED poolVars
  OBVIOUS
<1>1. CASE UNCHANGED vars
  BY <1>1 DEF vars
<1>2. ASSUME NEW w \in Worker, WorkerNext(w) PROVE UNCHANGED poolVars
  BY <1>2 DEF WorkerNext, Connect, SendRequest, SendResult, WorkerDies
<1>3. CASE EpollWait \/ EndOfBatch \/ StopServer \/ AcceptLoop
  BY <1>3 DEF EpollWait, EndOfBatch, StopServer, AcceptLoop, AcceptConnection,
              AcceptWithFullTable, EndAccept
<1>4. ASSUME NEW e \in batch, BeginAccept(e) PROVE UNCHANGED poolVars
  BY <1>4 DEF BeginAccept
<1>5. ASSUME NEW e \in batch, NEW c \in Cell, BeginSend(e, c) \/ ReceiveRequest(e, c)
      PROVE  UNCHANGED poolVars
  BY <1>5 DEF BeginSend, ReceiveRequest
<1>6. ASSUME NEW e \in batch, NEW c \in Cell, HangUp(e, c) \/ ReceiveBroken(e, c)
      PROVE  PoolNext
  BY <1>6 DEF HangUp, ReceiveBroken, DropConnection, PoolNext
<1>7. ASSUME NEW e \in batch, NEW c \in Cell, ReceiveResult(e, c)
      PROVE  PoolNext \/ UNCHANGED poolVars
  <2> DEFINE m == Head(toServer[e.fd])
  <2>1. CASE m.task \in Held(c)
    <3>1. PushReturnValue(c, m.task, m.value)
      BY <1>7, <2>1 DEF ReceiveResult
    <3>2. m.value \in Task
      <4>1. toServer[e.fd] # <<>> /\ m.cmd = "CMD_RESULT" /\ socketFd[c] = e.fd
        BY <1>7 DEF ReceiveResult, Receive
      <4>2. m \in Message
        BY <4>1, EventOfCell, HeadAndTail DEF CallsInv
      <4> HIDE DEF m
      <4>3. ASSUME NEW t \in Task, m = Result(t) PROVE m.value \in Task
        BY <4>3 DEF Result
      <4>4. m # Request
        BY <4>1 DEF Request
      <4> QED
        BY <4>2, <4>3, <4>4 DEF Message
    <3> QED
      BY <2>1, <3>1, <3>2 DEF PoolNext
  <2>2. CASE m.task \notin Held(c)
    BY <1>7, <2>2 DEF ReceiveResult
  <2> QED
    BY <2>1, <2>2
<1>8. CASE SendLoop
  <2>1. ASSUME NEW t \in Task, NEW s \in Slot, PickTask(t, s) PROVE PoolNext
    <3>1. cur \in Cell /\ GetTaskToSend(cur, t, s)
      BY <2>1 DEF CallsInv, PickTask, Sending
    <3> QED
      BY <3>1 DEF PoolNext
  <2>2. ASSUME NEW w \in Worker, PutTaskBroken(w) PROVE PoolNext \/ UNCHANGED poolVars
    <3>1. cur \in Cell
      BY <2>2 DEF CallsInv, PutTaskBroken, Sending
    <3>2. CASE DropResolvingTasks(cur)
      BY <3>1, <3>2 DEF PoolNext
    <3>3. CASE ~DropResolvingTasks(cur)
      BY <2>2, <3>3 DEF PutTaskBroken, DropConnection
    <3> QED
      BY <3>2, <3>3
  <2>3. CASE PickTaskFails \/ PutTaskOnDeleted \/ EndSend \/ \E w \in Worker : PutTask(w)
    BY <2>3 DEF PickTaskFails, PutTaskOnDeleted, EndSend, PutTask
  <2> QED
    BY <1>8, <2>1, <2>2, <2>3 DEF SendLoop
<1> QED
  BY <1>1, <1>2, <1>3, <1>4, <1>5, <1>6, <1>7, <1>8 DEF Next, ServerNext, HandleEvent

\* Every call the event loop makes on the task table, from any handler and in
\* any interleaving with the workers, is one the table's BUG_ONs allow: the
\* server implements the free-standing task table.
THEOREM ServerUsesPool == Spec => PoolSpec
<1>1. Init => PoolInit
  BY DEF Init, ServerInit
<1> QED
  BY <1>1, CallsInvInit, CallsInvStep, StepIsPoolStep, PTL DEF Spec, PoolSpec

\* The task table, its lists, counters and scan start stay consistent in the
\* running server (cluster-server.c:625-703 as called from the event loop).
THEOREM ServerPoolInv == Spec => []PoolInv
BY ServerUsesPool, ResolvingTasksAreListed, TasksAreListedOnce, CountersAreRight,
   ScanIsComplete, PTL DEF PoolInv

\* No event reopens a completed task or overwrites its result.
THEOREM ServerKeepsResults == Spec => CompletedIsFinal
BY ServerUsesPool, CompletedTasksAreFinal, PTL

\* The cluster as a whole implements the abstract pool of work.
THEOREM ServerImplementsWorkPool == Spec => ImplementsWorkPool
BY ServerUsesPool, PoolImplementsWorkPool, PTL

-----------------------------------------------------------------------------
(* What compute_task() returns                                             *)

\* A completed task has its own result, and the event loop is left only when
\* num_completed has reached the number of tasks.
ResultsInv ==
  /\ \A t \in Task : status[t] = "COMPLETED" => ret[t] = t
  /\ pc \in {"stop", "returned"} => numCompleted = NumTasks

LEMMA ResultsInvInit == Init => ResultsInv
  BY DEF Init, ServerInit, PoolInit, ResultsInv

LEMMA ResultsInvStep ==
  PoolIInv /\ CallsInv /\ ResultsInv /\ [Next]_vars => ResultsInv'
<1> SUFFICES ASSUME PoolIInv, CallsInv, ResultsInv, [Next]_vars PROVE ResultsInv'
  OBVIOUS
<1> USE DEF ResultsInv
<1>0. status \in [Task -> Status] /\ ret \in [Task -> Task \cup {None}]
  BY DEF PoolIInv, PoolTypeOK
<1>1. CASE UNCHANGED vars
  BY <1>1 DEF vars, poolVars, loopVars
<1>2. ASSUME NEW w \in Worker, WorkerNext(w) PROVE ResultsInv'
  BY <1>2 DEF WorkerNext, Connect, SendRequest, SendResult, WorkerDies, poolVars, loopVars
<1>3. CASE EpollWait \/ EndOfBatch \/ StopServer \/ AcceptLoop
  BY <1>3 DEF EpollWait, EndOfBatch, AllDone, StopServer, AcceptLoop, AcceptConnection,
              AcceptWithFullTable, EndAccept, poolVars, loopVars
<1>4. ASSUME NEW e \in batch, BeginAccept(e) PROVE ResultsInv'
  BY <1>4 DEF BeginAccept, poolVars
<1>5. ASSUME NEW e \in batch, NEW c \in Cell, BeginSend(e, c) \/ ReceiveRequest(e, c)
      PROVE  ResultsInv'
  BY <1>5 DEF BeginSend, ReceiveRequest, AfterReceive, poolVars
<1>6. ASSUME NEW c \in Cell, DropResolvingTasks(c)
      PROVE  \A t \in Task : status'[t] = "COMPLETED" => ret'[t] = t
  BY <1>0, <1>6 DEF DropResolvingTasks, StatusAfterDrop
<1>7. ASSUME NEW e \in batch, NEW c \in Cell, HangUp(e, c) \/ ReceiveBroken(e, c)
      PROVE  ResultsInv'
  BY <1>6, <1>7 DEF HangUp, ReceiveBroken, DropConnection
<1>8. ASSUME NEW e \in batch, NEW c \in Cell, ReceiveResult(e, c)
      PROVE  ResultsInv'
  <2> DEFINE m == Head(toServer[e.fd])
  <2>1. CASE m.task \in Held(c)
    <3>1. PushReturnValue(c, m.task, m.value) /\ AfterReceive(e, c)
      BY <1>8, <2>1 DEF ReceiveResult
    <3>2. m.value = m.task
      <4>1. m \in Message
        BY <1>8, EventOfCell, HeadAndTail DEF CallsInv, ReceiveResult, Receive
      <4> HIDE DEF m
      <4> QED
        BY <4>1 DEF Message, Request, Result
    <3>3. ret' = [ret EXCEPT ![m.task] = m.task] /\ status' = [status EXCEPT ![m.task] = "COMPLETED"]
      BY <3>1, <3>2 DEF PushReturnValue
    <3>4. pc' \in {"send", "dispatch"}
      BY <3>1 DEF AfterReceive
    <3> HIDE DEF m
    <3> QED
      BY <1>0, <3>3, <3>4
  <2>2. CASE m.task \notin Held(c)
    BY <1>8, <2>2 DEF ReceiveResult, poolVars
  <2> QED
    BY <2>1, <2>2
<1>9. CASE SendLoop
  <2>1. ASSUME NEW t \in Task, NEW s \in Slot, PickTask(t, s) PROVE ResultsInv'
    BY <1>0, <2>1 DEF PickTask, Sending, GetTaskToSend, loopVars
  <2>2. ASSUME NEW w \in Worker, PutTaskBroken(w) PROVE ResultsInv'
    BY <1>6, <2>2 DEF PutTaskBroken, Sending, DropConnection, CallsInv, poolVars
  <2>3. CASE PickTaskFails \/ PutTaskOnDeleted \/ EndSend \/ \E w \in Worker : PutTask(w)
    BY <2>3 DEF PickTaskFails, PutTaskOnDeleted, EndSend, PutTask, Sending, poolVars, loopVars
  <2> QED
    BY <1>9, <2>1, <2>2, <2>3 DEF SendLoop
<1> QED
  BY <1>1, <1>2, <1>3, <1>4, <1>5, <1>7, <1>8, <1>9 DEF Next, ServerNext, HandleEvent

LEMMA ResultsAreComplete == PoolIInv /\ ResultsInv => ReturnedIsComplete
<1> SUFFICES ASSUME PoolIInv, ResultsInv, pc = "returned",
                    NEW t \in Task
             PROVE  status[t] = "COMPLETED" /\ ret[t] = t
  BY DEF ReturnedIsComplete
<1>1. Cardinality(WithStatus("COMPLETED")) = NumTasks
  BY DEF PoolIInv, PoolInv, CountersAgree, ResultsInv
<1>2. IsFiniteSet(Task) /\ Cardinality(Task) = NumTasks
  BY FS_Interval, SizesAssumption DEF Task
<1>3. WithStatus("COMPLETED") \subseteq Task
  BY DEF WithStatus
<1>4. WithStatus("COMPLETED") = Task
  BY <1>1, <1>2, <1>3, FS_Subset
<1> QED
  BY <1>4 DEF WithStatus, ResultsInv

\* compute_task() returns only with the result of every task in its place,
\* whatever the workers did and in whatever order the events came.
THEOREM ServerReturnsEverything == Spec => []ReturnedIsComplete
<1>1. Spec => []PoolIInv
  BY ServerUsesPool, PoolInvariant, PTL
<1> QED
  BY <1>1, CallsInvInit, CallsInvStep, ResultsInvInit, ResultsInvStep, ResultsAreComplete,
     PTL DEF Spec

-----------------------------------------------------------------------------
(* The connection table                                                    *)

\* A connection is in one place: not made, in the backlog, in one cell, or
\* dropped; num_clients and the accept socket's registration follow.
Connections ==
  /\ acceptArmed \in BOOLEAN
  /\ backlog \subseteq Worker
  /\ sock \in [Worker -> {"none", "open", "fin", "reset"}]
  /\ \A c, d \in OpenCells : socketFd[c] = socketFd[d] => c = d
  /\ \A c \in OpenCells : socketFd[c] \notin backlog /\ sock[socketFd[c]] # "none"
  /\ \A w \in backlog : sock[w] # "none"
  /\ numClients = Cardinality(OpenCells)
  /\ acceptArmed <=> numClients < MaxClients

LEMMA CellsAreFinite ==
  /\ IsFiniteSet(Cell) /\ Cardinality(Cell) = MaxClients
  /\ IsFiniteSet(OpenCells) /\ Cardinality(OpenCells) \in Nat
<1>1. IsFiniteSet(Cell) /\ Cardinality(Cell) = MaxClients
  BY FS_Interval, SizesAssumption DEF Cell
<1>2. OpenCells \subseteq Cell
  BY DEF OpenCells
<1> QED
  BY <1>1, <1>2, FS_Subset, FS_CardinalityType

LEMMA OpenCell ==
  ASSUME CallsInv, NEW c \in Cell, socketFd[c] \in Worker
  PROVE  c \in OpenCells
  BY ClusterAssumption DEF OpenCells

LEMMA ConnectionsInit == Init => Connections
<1> SUFFICES ASSUME Init PROVE Connections
  OBVIOUS
<1>1. OpenCells = {}
  BY DEF Init, ServerInit, OpenCells
<1>2. Cardinality(OpenCells) = 0
  BY <1>1, FS_EmptySet
<1> QED
  BY <1>1, <1>2, SizesAssumption DEF Init, ServerInit, WorkerInit, Connections

LEMMA DeleteKeepsConnections ==
  ASSUME CallsInv, Connections, NEW c \in OpenCells, DeleteConnection(c),
         UNCHANGED <<sock, backlog>>
  PROVE  Connections'
<1>1. OpenCells' = OpenCells \ {c} /\ \A d \in OpenCells' : socketFd'[d] = socketFd[d]
  BY DEF CallsInv, DeleteConnection, OpenCells
<1>2. Cardinality(OpenCells') = Cardinality(OpenCells) - 1
  BY <1>1, CellsAreFinite, FS_RemoveElement
<1>3. Cardinality(OpenCells) <= MaxClients
  BY CellsAreFinite, FS_Subset DEF OpenCells
<1>4. numClients' = numClients - 1 /\ acceptArmed' = (acceptArmed \/ numClients = MaxClients)
  BY DEF DeleteConnection, ResumesAccepting
<1>5. numClients' = Cardinality(OpenCells')
  BY <1>2, <1>4 DEF Connections
<1>6. acceptArmed' <=> numClients' < MaxClients
  <2>1. acceptArmed <=> numClients < MaxClients
    BY DEF Connections
  <2>2. numClients = Cardinality(OpenCells)
    BY DEF Connections
  <2>3. /\ numClients = MaxClients \/ numClients < MaxClients
        /\ numClients' < MaxClients
    BY <1>3, <1>4, <2>2, CellsAreFinite, SizesAssumption
  <2>4. acceptArmed'
    BY <1>4, <2>1, <2>3
  <2> QED
    BY <2>3, <2>4
<1>7. acceptArmed' \in BOOLEAN
  BY <1>4
<1> QED
  BY <1>1, <1>5, <1>6, <1>7 DEF Connections

LEMMA AcceptKeepsConnections ==
  ASSUME CallsInv, Connections, NEW w \in Worker, NEW c \in Cell, AcceptConnection(w, c)
  PROVE  Connections'
<1>1. /\ c \notin OpenCells
      /\ w \in backlog /\ backlog' = backlog \ {w}
      /\ socketFd' = [socketFd EXCEPT ![c] = w]
      /\ numClients' = numClients + 1
      /\ acceptArmed' = (acceptArmed /\ numClients + 1 # MaxClients)
      /\ sock' = sock
  BY DEF AcceptConnection, PausesAccepting, IsLeast
<1>2. /\ OpenCells' = OpenCells \cup {c}
      /\ socketFd'[c] = w
      /\ \A d \in OpenCells : socketFd'[d] = socketFd[d]
  BY <1>1, ClusterAssumption DEF CallsInv, OpenCells
<1>3. Cardinality(OpenCells') = Cardinality(OpenCells) + 1
  BY <1>1, <1>2, CellsAreFinite, FS_AddElement
<1>4. Cardinality(OpenCells') <= MaxClients
  <2>1. OpenCells' \subseteq Cell
    BY DEF OpenCells
  <2> QED
    BY <2>1, CellsAreFinite, FS_Subset
<1>5. numClients' = Cardinality(OpenCells')
  BY <1>1, <1>3 DEF Connections
<1>6. acceptArmed' <=> numClients' < MaxClients
  <2>1. acceptArmed <=> numClients < MaxClients
    BY DEF Connections
  <2>2. numClients = Cardinality(OpenCells)
    BY DEF Connections
  <2>3. /\ numClients < MaxClients
        /\ numClients + 1 # MaxClients <=> numClients' < MaxClients
    BY <1>1, <1>3, <1>4, <2>2, CellsAreFinite, SizesAssumption
  <2> QED
    BY <1>1, <2>1, <2>3
<1>7. /\ acceptArmed' \in BOOLEAN
      /\ backlog' \subseteq Worker
      /\ \A v \in backlog' : sock'[v] # "none"
      /\ sock' \in [Worker -> {"none", "open", "fin", "reset"}]
  BY <1>1 DEF Connections
<1>8. \A d \in OpenCells : socketFd[d] # w
  BY <1>1 DEF Connections
<1>9. \A b, d \in OpenCells' : socketFd'[b] = socketFd'[d] => b = d
  BY <1>2, <1>8 DEF Connections
<1>10. \A d \in OpenCells' : socketFd'[d] \notin backlog' /\ sock'[socketFd'[d]] # "none"
  BY <1>1, <1>2, <1>8 DEF Connections
<1> QED
  BY <1>5, <1>6, <1>7, <1>9, <1>10 DEF Connections

\* Nothing but accepting, dropping, connecting and dying concerns connections.
LEMMA SameConnections ==
  ASSUME Connections, UNCHANGED <<socketFd, numClients, acceptArmed, backlog, sock>>
  PROVE  Connections'
  BY DEF Connections, OpenCells

LEMMA ConnectionsStep == CallsInv /\ Connections /\ [Next]_vars => Connections'
<1> SUFFICES ASSUME CallsInv, Connections, [Next]_vars PROVE Connections'
  OBVIOUS
<1>1. CASE UNCHANGED vars
  BY <1>1, SameConnections DEF vars, connVars, workerVars
<1>2. ASSUME NEW w \in Worker, WorkerNext(w) PROVE Connections'
  <2>1. CASE Connect(w)
    <3>1. /\ sock[w] = "none" /\ sock' = [sock EXCEPT ![w] = "open"]
          /\ backlog' = backlog \cup {w}
          /\ UNCHANGED <<socketFd, numClients, acceptArmed>>
      BY <2>1 DEF Connect, connVars
    <3>2. OpenCells' = OpenCells
      BY <3>1 DEF OpenCells
    <3>3. \A c \in OpenCells : socketFd[c] # w
      BY <3>1 DEF Connections
    <3>4. \A c \in OpenCells : socketFd[c] \in Worker
      BY DEF CallsInv, OpenCells
    <3> QED
      BY <3>1, <3>2, <3>3, <3>4 DEF Connections
  <2>2. CASE WorkerDies(w)
    <3>1. PICK how \in {"fin", "reset"} : sock' = [sock EXCEPT ![w] = how]
      BY <2>2 DEF WorkerDies
    <3>2. UNCHANGED <<socketFd, numClients, acceptArmed, backlog>>
      BY <2>2 DEF WorkerDies, connVars
    <3>3. OpenCells' = OpenCells
      BY <3>2 DEF OpenCells
    <3>4. \A v \in Worker : sock[v] # "none" => sock'[v] # "none"
      BY <3>1 DEF Connections
    <3>5. \A c \in OpenCells : socketFd[c] \in Worker
      BY DEF CallsInv, OpenCells
    <3> QED
      BY <3>1, <3>2, <3>3, <3>4, <3>5 DEF Connections
  <2>3. CASE SendRequest(w) \/ \E t \in Task : SendResult(w, t)
    BY <2>3, SameConnections DEF SendRequest, SendResult, connVars
  <2> QED
    BY <1>2, <2>1, <2>2, <2>3 DEF WorkerNext
<1>3. CASE EpollWait \/ EndOfBatch \/ StopServer
  BY <1>3, SameConnections DEF EpollWait, EndOfBatch, StopServer, connVars, workerVars
<1>4. CASE AcceptLoop
  <2>1. CASE AcceptWithFullTable \/ EndAccept
    BY <2>1, SameConnections DEF AcceptWithFullTable, EndAccept, connVars, workerVars
  <2> QED
    BY <1>4, <2>1, AcceptKeepsConnections DEF AcceptLoop
<1>5. ASSUME NEW e \in batch,
             BeginAccept(e) \/ \E c \in Cell : BeginSend(e, c) \/ ReceiveRequest(e, c) \/ ReceiveResult(e, c)
      PROVE  Connections'
  BY <1>5, SameConnections DEF BeginAccept, BeginSend, ReceiveRequest, ReceiveResult,
                               CountRequest, connVars, workerVars
<1>6. ASSUME NEW e \in batch, NEW c \in Cell, HangUp(e, c) \/ ReceiveBroken(e, c)
      PROVE  Connections'
  <2>1. socketFd[c] = e.fd /\ DeleteConnection(c) /\ UNCHANGED <<sock, backlog>>
    BY <1>6 DEF HangUp, ReceiveBroken, Receive, DropConnection, workerVars
  <2> QED
    BY <2>1, EventOfCell, OpenCell, DeleteKeepsConnections
<1>7. CASE SendLoop
  <2>1. ASSUME NEW t \in Task, NEW s \in Slot, PickTask(t, s) PROVE Connections'
    BY <2>1, SameConnections DEF PickTask, workerVars
  <2>2. ASSUME NEW w \in Worker, PutTaskBroken(w) PROVE Connections'
    <3>1. CASE UNCHANGED connVars
      BY <2>2, <3>1, SameConnections DEF PutTaskBroken, connVars, workerVars
    <3>2. CASE DropConnection(cur)
      <4>1. cur \in Cell /\ socketFd[cur] = w /\ UNCHANGED <<sock, backlog>>
        BY <2>2 DEF PutTaskBroken, Sending, CallsInv, workerVars
      <4> QED
        BY <3>2, <4>1, OpenCell, DeleteKeepsConnections DEF DropConnection
    <3> QED
      BY <2>2, <3>1, <3>2 DEF PutTaskBroken
  <2>3. CASE PickTaskFails \/ PutTaskOnDeleted \/ EndSend \/ \E w \in Worker : PutTask(w)
    BY <2>3, SameConnections DEF PickTaskFails, PutTaskOnDeleted, EndSend, PutTask,
                                 connVars, workerVars
  <2> QED
    BY <1>7, <2>1, <2>2, <2>3 DEF SendLoop
<1> QED
  BY <1>1, <1>2, <1>3, <1>4, <1>5, <1>6, <1>7 DEF Next, ServerNext, HandleEvent

LEMMA ConnectionsInvariant == Spec => [](CallsInv /\ Connections)
  BY CallsInvInit, CallsInvStep, ConnectionsInit, ConnectionsStep, PTL DEF Spec

\* num_clients counts the open cells, accepting is paused exactly while the
\* table is full, and a connection is in at most one cell and not in the
\* backlog then (cluster-server.c:343-499), for any number of workers.
THEOREM ServerTableAgrees == Spec => []TableAgrees
<1>1. CallsInv /\ Connections => TableAgrees
  <2> SUFFICES ASSUME CallsInv, Connections PROVE TableAgrees
    OBVIOUS
  <2>1. ASSUME NEW w \in Worker PROVE Cardinality(CellsOf(w)) <= 1
    <3>1. CASE CellsOf(w) = {}
      BY <3>1, FS_EmptySet
    <3>2. ASSUME NEW c \in CellsOf(w) PROVE Cardinality(CellsOf(w)) = 1
      <4>1. CellsOf(w) = {c}
        BY ClusterAssumption DEF Connections, CellsOf, OpenCells
      <4> QED
        BY <4>1, FS_Singleton
    <3> QED
      BY <3>1, <3>2
  <2> QED
    BY <2>1 DEF TableAgrees, Connections
<1> QED
  BY <1>1, ConnectionsInvariant, PTL

=============================================================================
