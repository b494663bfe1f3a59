------------------------------ MODULE Framing -------------------------------
(***************************************************************************)
(* The byte streams under the messages of ClusterServer.  A frame has no   *)
(* length field: all frames to the server have one size and all frames to  *)
(* a worker another, so each side fills its receive buffer up to that size *)
(* and takes it for a frame.  recv() may return any part of it; one byte   *)
(* too many or too few, or a count left over from the worker that had the  *)
(* cell before, and every later frame is torn.                             *)
(*                                                                         *)
(* The server's sockets do not block: a task must fit into the socket as a *)
(* whole.  A worker's socket blocks (fcntl() is given F_SETFD, not         *)
(* F_SETFL): send() returns when the last byte has found room, and the     *)
(* event loop of the worker does nothing until then.                       *)
(*                                                                         *)
(* Here the task table is a set of tasks, an accepted connection always    *)
(* finds a cell, and the event loop is always free to handle any of the    *)
(* connections: ClusterServer has what is left out.                        *)
(***************************************************************************)
EXTENDS Integers, Sequences

CONSTANTS
  Worker, Cell, Task,
  Threads,     \* max_threads of a worker
  ServerSize,  \* of a frame to the server: the header and ret_size
  WorkerSize,  \* of a frame to a worker: the header and task_size
  ServerRoom,  \* what fits into a connection on the way to the server
  WorkerRoom,  \* and on the way to the worker
  NoFd

\* The last line is what the send() of the server relies on.
ASSUME FramingAssumption ==
  /\ Cell \subseteq Nat
  /\ 0 \notin Task
  /\ NoFd \notin Worker
  /\ Threads \in Nat \ {0}
  /\ ServerSize \in Nat \ {0}
  /\ WorkerSize \in Nat \ {0}
  /\ ServerRoom \in Nat \ {0}
  /\ WorkerRoom \in Nat
  /\ WorkerRoom >= Threads * WorkerSize

VARIABLES
  \* The server.
  pc,           \* "running", or how the process ended
  backlog,      \* the connections that are not accepted yet
  socketFd,     \* client_conns[c].socket_fd
  received,     \* client_conns[c].bytes_recieved
  buffer,       \* client_conns[c].recv_buffer
  requested,    \* client_conns[c].requested_tasks
  held,         \* the tasks in client_conns[c].task_list
  pool,         \* the tasks that are NOT_RESOLVED
  \* The workers.
  sock,         \* "none", "open", "gone", or "torn": it got an unknown command
  taken,        \* server_conn.bytes_recieved
  taskBuffer,   \* server_conn.recv_buffer
  working,      \* the tasks it has and has not sent the result of
  unrequested,  \* initial_requests
  unsent,       \* the bytes its send() has found no room for yet
  \* The connections: bytes sent and not received.
  toServer,
  toWorker

serverVars == <<pc, backlog, socketFd, received, buffer, requested, held, pool>>
workerVars == <<sock, taken, taskBuffer, working, unrequested, unsent>>
vars       == <<serverVars, workerVars, toServer, toWorker>>

Request    == [cmd |-> "CMD_REQUEST_FOR_DATA", task |-> 0]
Result(t)  == [cmd |-> "CMD_RESULT", task |-> t]
TaskFor(t) == [cmd |-> "CMD_TASK", task |-> t]

ServerFrame == {Request} \cup {Result(t) : t \in Task}
WorkerFrame == {TaskFor(t) : t \in Task}

\* A byte is known by the frame it is of and its place in it; a buffer that
\* was never written holds bytes of no frame.
Byte(f, i)    == [of |-> f, at |-> i]
Bytes(f, size) == [i \in 1 .. size |-> Byte(f, i)]
Unwritten == Byte([cmd |-> "none", task |-> 0], 0)
ServerByte == [of: ServerFrame, at: 1 .. ServerSize]
WorkerByte == [of: WorkerFrame, at: 1 .. WorkerSize]

CellsOf(w) == {c \in Cell : socketFd[c] = w}
FreeCells  == {c \in Cell : socketFd[c] = NoFd}

Running == pc = "running"

Init ==
  /\ pc = "running"
  /\ backlog = {}
  /\ socketFd    = [c \in Cell |-> NoFd]
  /\ received    = [c \in Cell |-> 0]
  /\ buffer      = [c \in Cell |-> [i \in 1 .. ServerSize |-> Unwritten]]
  /\ requested   = [c \in Cell |-> 0]
  /\ held        = [c \in Cell |-> {}]
  /\ pool        = Task
  /\ sock        = [w \in Worker |-> "none"]
  /\ taken       = [w \in Worker |-> 0]
  /\ taskBuffer  = [w \in Worker |-> [i \in 1 .. WorkerSize |-> Unwritten]]
  /\ working     = [w \in Worker |-> {}]
  /\ unrequested = [w \in Worker |-> Threads]
  /\ unsent      = [w \in Worker |-> <<>>]
  /\ toServer    = [w \in Worker |-> <<>>]
  /\ toWorker    = [w \in Worker |-> <<>>]

-----------------------------------------------------------------------------
(* Connections                                                             *)

Connect(w) ==
  /\ sock[w] = "none"
  /\ sock' = [sock EXCEPT ![w] = "open"]
  /\ backlog' = backlog \cup {w}
  /\ UNCHANGED <<pc, socketFd, received, buffer, requested, held, pool>>
  /\ UNCHANGED <<taken, taskBuffer, working, unrequested, unsent, toServer, toWorker>>

\* Seeded fault: a new connection goes on where the last one of its cell
\* ended.
AcceptConnectionUnreset(w, c) ==
  /\ Running
  /\ w \in backlog
  /\ c \in FreeCells /\ \A d \in FreeCells : c <= d
  /\ backlog'   = backlog \ {w}
  /\ socketFd'  = [socketFd EXCEPT ![c] = w]
  /\ requested' = [requested EXCEPT ![c] = 0]
  /\ UNCHANGED <<pc, received, buffer, held, pool, workerVars, toServer, toWorker>>

\* accept_incoming_connection_request(): the cell keeps its buffer and what
\* is in it.
AcceptConnection(w, c) ==
  /\ Running
  /\ w \in backlog
  /\ c \in FreeCells /\ \A d \in FreeCells : c <= d
  /\ backlog'   = backlog \ {w}
  /\ socketFd'  = [socketFd EXCEPT ![c] = w]
  /\ received'  = [received EXCEPT ![c] = 0]
  /\ requested' = [requested EXCEPT ![c] = 0]
  /\ UNCHANGED <<pc, buffer, held, pool, workerVars, toServer, toWorker>>

\* The worker is gone, and with it what the network has not delivered.
WorkerDies(w) ==
  /\ sock[w] \in {"open", "torn"}
  /\ sock'   = [sock EXCEPT ![w] = "gone"]
  /\ unsent' = [unsent EXCEPT ![w] = <<>>]
  /\ \E n \in 0 .. Len(toServer[w]) :
       toServer' = [toServer EXCEPT ![w] = SubSeq(@, 1, n)]
  /\ toWorker' = [toWorker EXCEPT ![w] = <<>>]
  /\ working'  = [working EXCEPT ![w] = {}]
  /\ taken'    = [taken EXCEPT ![w] = 0]
  /\ UNCHANGED <<serverVars, taskBuffer, unrequested>>

\* The server hears of it, in one of the ways ClusterServer tells apart, and
\* drops the connection, whatever it has not read of it.
DropConnection(c) ==
  /\ Running
  /\ socketFd[c] # NoFd /\ sock[socketFd[c]] = "gone"
  /\ toServer' = [toServer EXCEPT ![socketFd[c]] = <<>>]
  /\ socketFd' = [socketFd EXCEPT ![c] = NoFd]
  /\ pool' = pool \cup held[c]
  /\ held' = [held EXCEPT ![c] = {}]
  /\ UNCHANGED <<pc, backlog, received, buffer, requested, workerVars, toWorker>>

-----------------------------------------------------------------------------
(* Receiving                                                               *)

\* recv() of n bytes to the place behind the first k of a buffer.
Filled(buf, k, bytes, n) ==
  [i \in DOMAIN buf |-> IF i \in k + 1 .. k + n THEN bytes[i - k] ELSE buf[i]]

AfterFirst(bytes, n) == SubSeq(bytes, n + 1, Len(bytes))

\* Seeded fault: bytes_recieved is not reset when a frame is complete.
CountUnreset(k, n, size) == k + n

\* bytes_recieved after a recv().
Count(k, n, size) == IF k + n = size THEN 0 ELSE k + n

\* Seeded fault: recv() is asked for a whole frame.
BytesToReadWhole(k, size) == size

BytesToRead(k, size) == size - k

\* What can come of a recv(): a part of what is asked for and has arrived.
Portions(k, size, bytes) ==
  {n \in 1 .. Len(bytes) : n <= BytesToRead(k, size)}

\* The frame a full buffer is, if it is one.
Frame(buf) == buf[1].of
IsFrame(buf) == \A i \in DOMAIN buf : buf[i] = Byte(Frame(buf), i)

\* read_data_on_connection() of the server finds a part of a frame.
ReceivePart(c, n) ==
  LET w == socketFd[c] IN
  /\ Running
  /\ w # NoFd
  /\ n \in Portions(received[c], ServerSize, toServer[w])
  /\ received[c] + n # ServerSize
  /\ buffer'   = [buffer EXCEPT ![c] = Filled(@, received[c], toServer[w], n)]
  /\ received' = [received EXCEPT ![c] = @ + n]
  /\ toServer' = [toServer EXCEPT ![w] = AfterFirst(@, n)]
  /\ UNCHANGED <<pc, backlog, socketFd, requested, held, pool, workerVars, toWorker>>

\* It completes one.  A command that is none, and a result of a task that is
\* not in the list of c, is a BUG_ON.
ReceiveFrame(c, n) ==
  LET w == socketFd[c]
      full == Filled(buffer[c], received[c], toServer[w], n)
      f == Frame(full) IN
  /\ Running
  /\ w # NoFd
  /\ n \in Portions(received[c], ServerSize, toServer[w])
  /\ received[c] + n = ServerSize
  /\ buffer'   = [buffer EXCEPT ![c] = full]
  /\ received' = [received EXCEPT ![c] = Count(@, n, ServerSize)]
  /\ toServer' = [toServer EXCEPT ![w] = AfterFirst(@, n)]
  /\ requested' = [requested EXCEPT ![c] = @ + 1]
  /\ \/ /\ IsFrame(full) /\ f = Request
        /\ UNCHANGED <<pc, held>>
     \/ /\ IsFrame(full) /\ f \in ServerFrame \ {Request} /\ f.task \in held[c]
        /\ held' = [held EXCEPT ![c] = @ \ {f.task}]
        /\ UNCHANGED pc
     \/ /\ ~IsFrame(full) \/ f \notin ServerFrame
        /\ pc' = "bug_command"
        /\ UNCHANGED held
     \/ /\ IsFrame(full) /\ f \in ServerFrame \ {Request} /\ f.task \notin held[c]
        /\ pc' = "bug_unknown_result"
        /\ UNCHANGED held
  /\ UNCHANGED <<backlog, socketFd, pool, workerVars, toWorker>>

\* A worker reads only when no send() of its own is under way.
Reading(w, n) ==
  /\ sock[w] = "open"
  /\ unsent[w] = <<>>
  /\ n \in Portions(taken[w], WorkerSize, toWorker[w])
  /\ toWorker'   = [toWorker EXCEPT ![w] = AfterFirst(@, n)]
  /\ taskBuffer' = [taskBuffer EXCEPT ![w] = Filled(@, taken[w], toWorker[w], n)]

TakePart(w, n) ==
  /\ Reading(w, n)
  /\ taken[w] + n # WorkerSize
  /\ taken' = [taken EXCEPT ![w] = @ + n]
  /\ UNCHANGED <<serverVars, sock, working, unrequested, unsent, toServer>>

TakeTask(w, n) ==
  /\ Reading(w, n)
  /\ taken[w] + n = WorkerSize
  /\ taken' = [taken EXCEPT ![w] = Count(@, n, WorkerSize)]
  /\ LET full == taskBuffer'[w] IN
       IF IsFrame(full) /\ Frame(full) \in WorkerFrame
       THEN /\ working' = [working EXCEPT ![w] = @ \cup {Frame(full).task}]
            /\ UNCHANGED sock
       ELSE /\ sock' = [sock EXCEPT ![w] = "torn"]
            /\ UNCHANGED working
  /\ UNCHANGED <<serverVars, unrequested, unsent, toServer>>

-----------------------------------------------------------------------------
(* Sending                                                                 *)

\* What of the bytes fits into a stream that has room for so many.
Fitting(stream, bytes, room) ==
  IF Len(stream) + Len(bytes) <= room THEN Len(bytes) ELSE room - Len(stream)

\* Seeded fault: what has found no room is not sent at all.
PutBytesOnce(w, bytes) ==
  LET n == Fitting(toServer[w], bytes, ServerRoom) IN
  /\ toServer' = [toServer EXCEPT ![w] = @ \o SubSeq(bytes, 1, n)]
  /\ unsent'   = [unsent EXCEPT ![w] = <<>>]

\* send() of a worker takes what fits and waits with the rest.
PutBytes(w, bytes) ==
  LET n == Fitting(toServer[w], bytes, ServerRoom) IN
  /\ toServer' = [toServer EXCEPT ![w] = @ \o SubSeq(bytes, 1, n)]
  /\ unsent'   = [unsent EXCEPT ![w] = AfterFirst(bytes, n)]

\* put_data_to_connection() of a worker: a request, and a result once all the
\* requests are sent.
SendRequest(w) ==
  /\ sock[w] = "open"
  /\ unsent[w] = <<>>
  /\ unrequested[w] > 0
  /\ unrequested' = [unrequested EXCEPT ![w] = @ - 1]
  /\ PutBytes(w, Bytes(Request, ServerSize))
  /\ UNCHANGED <<serverVars, sock, taken, taskBuffer, working, toWorker>>

SendResult(w, t) ==
  /\ sock[w] = "open"
  /\ unsent[w] = <<>>
  /\ unrequested[w] = 0
  /\ t \in working[w]
  /\ working' = [working EXCEPT ![w] = @ \ {t}]
  /\ PutBytes(w, Bytes(Result(t), ServerSize))
  /\ UNCHANGED <<serverVars, sock, taken, taskBuffer, unrequested, toWorker>>

\* There is room again.
SendRest(w) ==
  /\ sock[w] = "open"
  /\ unsent[w] # <<>>
  /\ Len(toServer[w]) < ServerRoom
  /\ PutBytes(w, unsent[w])
  /\ UNCHANGED <<serverVars, sock, taken, taskBuffer, working, unrequested, toWorker>>

\* Seeded fault: requested_tasks is not decremented.
OneLessForgotten(c) == requested[c]

OneLess(c) == requested[c] - 1

(***************************************************************************)
(* put_data_to_connection() of the server.  Without room for the whole     *)
(* task it ends for the server: a part is a BUG_ON, and on nothing at all  *)
(* (EAGAIN) the loop tries again at once and reads nothing meanwhile.  The *)
(* send to a worker that is gone is a matter of ClusterServer; here its    *)
(* bytes are lost.                                                         *)
(***************************************************************************)
SendTask(c, t) ==
  LET w == socketFd[c]
      frame == Bytes(TaskFor(t), WorkerSize) IN
  /\ Running
  /\ w # NoFd
  /\ requested[c] > 0
  /\ t \in pool
  /\ IF Len(toWorker[w]) + WorkerSize <= WorkerRoom
     THEN /\ toWorker' = [toWorker EXCEPT ![w] = IF sock[w] = "gone" THEN @ ELSE @ \o frame]
          /\ pool' = pool \ {t}
          /\ held' = [held EXCEPT ![c] = @ \cup {t}]
          /\ requested' = [requested EXCEPT ![c] = OneLess(c)]
          /\ UNCHANGED pc
     ELSE /\ pc' = "no_room"
          /\ UNCHANGED <<toWorker, pool, held, requested>>
  /\ UNCHANGED <<backlog, socketFd, received, buffer, workerVars, toServer>>

-----------------------------------------------------------------------------

ServerReads(c) == \E n \in 1 .. ServerSize : ReceivePart(c, n) \/ ReceiveFrame(c, n)

WorkerReads(w) == \E n \in 1 .. WorkerSize : TakePart(w, n) \/ TakeTask(w, n)

WorkerSends(w) == SendRequest(w) \/ SendRest(w) \/ \E t \in Task : SendResult(w, t)

ServerNext(c) ==
  \/ \E w \in Worker : AcceptConnection(w, c)
  \/ DropConnection(c)
  \/ ServerReads(c)
  \/ \E t \in Task : SendTask(c, t)

WorkerNext(w) == Connect(w) \/ WorkerReads(w) \/ WorkerSends(w) \/ WorkerDies(w)

Next == (\E c \in Cell : ServerNext(c)) \/ (\E w \in Worker : WorkerNext(w))

Spec == Init /\ [][Next]_vars

\* Both event loops read what has arrived, and a worker sends what it has.
FairSpec ==
  /\ Spec
  /\ \A c \in Cell : WF_vars(ServerReads(c))
  /\ \A w \in Worker : WF_vars(WorkerReads(w)) /\ WF_vars(WorkerSends(w))

-----------------------------------------------------------------------------
(* Properties                                                              *)

\* Every variable holds a value its declaration and the protocol allow.  In
\* particular a buffer is never full between two recv(), which would then be
\* asked for nothing, return 0, and be taken for the end of the connection.
TypeOK ==
  /\ pc \in {"running", "bug_command", "bug_unknown_result", "no_room"}
  /\ backlog \subseteq Worker
  /\ socketFd \in [Cell -> Worker \cup {NoFd}]
  /\ received \in [Cell -> 0 .. ServerSize - 1]
  /\ buffer \in [Cell -> [1 .. ServerSize -> ServerByte \cup {Unwritten}]]
  /\ requested \in [Cell -> Nat]
  /\ held \in [Cell -> SUBSET Task]
  /\ pool \subseteq Task
  /\ sock \in [Worker -> {"none", "open", "gone", "torn"}]
  /\ taken \in [Worker -> 0 .. WorkerSize - 1]
  /\ taskBuffer \in [Worker -> [1 .. WorkerSize -> WorkerByte \cup {Unwritten}]]
  /\ working \in [Worker -> SUBSET Task]
  /\ unrequested \in [Worker -> 0 .. Threads]
  /\ unsent \in [Worker -> Seq(ServerByte)]
  /\ toServer \in [Worker -> Seq(ServerByte)]
  /\ toWorker \in [Worker -> Seq(WorkerByte)]

\* A stream is cut at the ends of frames of one size: each byte is followed
\* by the rest of its frame, and that by the first byte of another one.
InFrames(bytes, size) ==
  \A i \in DOMAIN bytes :
    /\ \A j \in DOMAIN bytes :
         j >= i /\ j - i <= size - bytes[i].at
           => bytes[j] = Byte(bytes[i].of, bytes[i].at + (j - i))
    /\ i + 1 \in DOMAIN bytes /\ bytes[i].at = size => bytes[i + 1].at = 1

\* The first k bytes of a buffer begin a frame, and the stream goes on with
\* the rest of that frame.
Follows(bytes, buf, k) ==
  /\ \A i \in DOMAIN buf : i <= k => buf[i] = Byte(Frame(buf), i)
  /\ bytes # <<>> =>
       IF k = 0 THEN bytes[1].at = 1 ELSE bytes[1] = Byte(Frame(buf), k + 1)

\* The last frame is complete: no byte of it is still to come.
EndsWhole(bytes, k, size) ==
  IF bytes = <<>> THEN k = 0 ELSE bytes[Len(bytes)].at = size

UpStream(w) == toServer[w] \o unsent[w]

\* However recv() and send() cut the streams, and whoever had the cell before,
\* what a buffer holds and what is still to come for it make up whole frames
\* of one connection, in the order they were sent; only the death of a worker
\* cuts the last one short.
FramesAligned ==
  /\ \A w \in Worker :
       /\ InFrames(UpStream(w), ServerSize)
       /\ InFrames(toWorker[w], WorkerSize)
       /\ Follows(toWorker[w], taskBuffer[w], taken[w])
       /\ EndsWhole(toWorker[w], taken[w], WorkerSize)
       /\ CellsOf(w) = {} /\ UpStream(w) # <<>> => UpStream(w)[1].at = 1
       /\ CellsOf(w) = {} /\ sock[w] # "gone" => EndsWhole(UpStream(w), 0, ServerSize)
  /\ \A c \in Cell \ FreeCells :
       LET w == socketFd[c] IN
       /\ Follows(UpStream(w), buffer[c], received[c])
       /\ sock[w] # "gone" => EndsWhole(UpStream(w), received[c], ServerSize)

\* No side ever takes bytes of two frames for one.
NoTornFrame ==
  /\ pc # "bug_command"
  /\ \A w \in Worker : sock[w] # "torn"

\* A worker never has more tasks on their way than threads, so there is room
\* for every task the server sends: its send() is never cut short.
RoomForTasks == pc # "no_room"

\* What is on its way to the server, the part it has received included.
UpFlow(w) ==
  LET part(c) == SubSeq(buffer[c], 1, received[c]) IN
  IF CellsOf(w) = {} THEN UpStream(w)
  ELSE part(CHOOSE c \in Cell : socketFd[c] = w) \o UpStream(w)

DownFlow(w) == SubSeq(taskBuffer[w], 1, taken[w]) \o toWorker[w]

Messages(flow, size) == [i \in 1 .. Len(flow) \div size |-> flow[i * size].of]

OfCell(row, w, default) ==
  IF CellsOf(w) = {} THEN default ELSE row[CHOOSE c \in Cell : socketFd[c] = w]

Talk == INSTANCE Dialogue WITH
  alive    <- {w \in Worker : sock[w] \in {"open", "torn"}},
  heard    <- {w \in Worker : CellsOf(w) # {}},
  credit   <- [w \in Worker |-> OfCell(requested, w, 0)],
  held     <- [w \in Worker |-> OfCell(held, w, {})],
  toServer <- [w \in Worker |-> Messages(UpFlow(w), ServerSize)],
  toWorker <- [w \in Worker |-> Messages(DownFlow(w), WorkerSize)]

\* The streams implement what the other modules take for granted: messages
\* arrive whole, once, in order, and a death loses the last ones only.
CarriesMessages == Talk!Spec

\* Whatever is sent on an accepted connection is received, also when the
\* sender had to wait for room, unless one of the two processes ends.
StreamsDrain ==
  \A w \in Worker :
    /\ UpFlow(w) # <<>> /\ CellsOf(w) # {}
         ~> UpFlow(w) = <<>> \/ sock[w] # "open" \/ ~Running
    /\ DownFlow(w) # <<>>
         ~> DownFlow(w) = <<>> \/ sock[w] # "open" \/ ~Running

=============================================================================
