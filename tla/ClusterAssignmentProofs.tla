----------------------- MODULE ClusterAssignmentProofs -----------------------
(***************************************************************************)
(* Theorems about what the server and its workers agree on - tasks handed  *)
(* out, requests made - and the types and the ends of the process that     *)
(* rest on it, for any number of tasks, workers, threads, cells and        *)
(* places, and any size of the event array.                                *)
(***************************************************************************)
EXTENDS ClusterServerProofs

-----------------------------------------------------------------------------
(* Queues of messages                                                      *)

\* No result is twice in the queue of w.
Once(w) ==
  \A i, j \in InFlight(w, "CMD_RESULT") :
    toServer[w][i].task = toServer[w][j].task => i = j

LEMMA SameQueue ==
  ASSUME NEW w, toServer'[w] = toServer[w]
  PROVE  TasksInFlight(w)' = TasksInFlight(w) /\ (Once(w) => Once(w)')
  BY DEF TasksInFlight, InFlight, Once

LEMMA AppendQueue ==
  ASSUME CallsInv, NEW w \in Worker, NEW m \in Message,
         toServer' = [toServer EXCEPT ![w] = Append(@, m)]
  PROVE  /\ \A v \in Worker \ {w} : toServer'[v] = toServer[v]
         /\ \A i \in DOMAIN toServer'[w] :
              \/ i \in DOMAIN toServer[w] /\ toServer'[w][i] = toServer[w][i]
              \/ i = Len(toServer[w]) + 1 /\ toServer'[w][i] = m
         /\ \A i \in DOMAIN toServer[w] :
              i \in DOMAIN toServer'[w] /\ toServer'[w][i] = toServer[w][i]
         /\ Len(toServer[w]) + 1 \in DOMAIN toServer'[w]
         /\ Len(toServer[w]) + 1 \notin DOMAIN toServer[w]
         /\ toServer'[w][Len(toServer[w]) + 1] = m
<1>1. toServer[w] \in Seq(Message) /\ toServer'[w] = Append(toServer[w], m)
  BY DEF CallsInv
<1>2. \A v \in Worker \ {w} : toServer'[v] = toServer[v]
  BY DEF CallsInv
<1> QED
  BY <1>1, <1>2

LEMMA HeadAndRest ==
  ASSUME NEW S, NEW q \in Seq(S), q # <<>>
  PROVE  /\ 1 \in DOMAIN q /\ Head(q) = q[1]
         /\ \A i \in DOMAIN Tail(q) :
              i \in Int /\ i + 1 # 1 /\ i + 1 \in DOMAIN q /\ Tail(q)[i] = q[i + 1]
         /\ \A i \in DOMAIN q :
              i = 1 \/ (i - 1 \in DOMAIN Tail(q) /\ Tail(q)[i - 1] = q[i])
<1>1. 1 \in DOMAIN q /\ Head(q) = q[1]
  OBVIOUS
<1>2. \A i \in DOMAIN Tail(q) :
        i \in Int /\ i + 1 # 1 /\ i + 1 \in DOMAIN q /\ Tail(q)[i] = q[i + 1]
  OBVIOUS
<1>3. \A i \in DOMAIN q :
        i = 1 \/ (i - 1 \in DOMAIN Tail(q) /\ Tail(q)[i - 1] = q[i])
  OBVIOUS
<1> QED
  BY <1>1, <1>2, <1>3

LEMMA TailQueue ==
  ASSUME CallsInv, NEW w \in Worker, toServer[w] # <<>>,
         toServer' = [toServer EXCEPT ![w] = Tail(@)]
  PROVE  /\ \A v \in Worker \ {w} : toServer'[v] = toServer[v]
         /\ 1 \in DOMAIN toServer[w] /\ Head(toServer[w]) = toServer[w][1]
         /\ \A i \in DOMAIN toServer'[w] :
              /\ i \in Int /\ i + 1 # 1
              /\ i + 1 \in DOMAIN toServer[w]
              /\ toServer'[w][i] = toServer[w][i + 1]
         /\ \A i \in DOMAIN toServer[w] :
              i = 1 \/ (i - 1 \in DOMAIN toServer'[w] /\ toServer'[w][i - 1] = toServer[w][i])
<1>1. toServer[w] \in Seq(Message) /\ toServer'[w] = Tail(toServer[w])
  BY DEF CallsInv
<1>2. \A v \in Worker \ {w} : toServer'[v] = toServer[v]
  BY DEF CallsInv
<1>3. toServer[w] # <<>>
  OBVIOUS
<1>4. /\ 1 \in DOMAIN toServer[w] /\ Head(toServer[w]) = toServer[w][1]
      /\ \A i \in DOMAIN Tail(toServer[w]) :
           /\ i \in Int /\ i + 1 # 1
           /\ i + 1 \in DOMAIN toServer[w]
           /\ Tail(toServer[w])[i] = toServer[w][i + 1]
      /\ \A i \in DOMAIN toServer[w] :
           \/ i = 1
           \/ i - 1 \in DOMAIN Tail(toServer[w]) /\ Tail(toServer[w])[i - 1] = toServer[w][i]
  BY <1>1, <1>3, HeadAndRest
<1> QED
  BY <1>1, <1>2, <1>4

LEMMA RequestQueued ==
  ASSUME CallsInv, NEW w \in Worker,
         toServer' = [toServer EXCEPT ![w] = Append(@, Request)]
  PROVE  \A v \in Worker :
           TasksInFlight(v)' = TasksInFlight(v) /\ (Once(v) => Once(v)')
<1>1. Request \in Message /\ Request.cmd # "CMD_RESULT"
  BY DEF Message, Request
<1>2. InFlight(w, "CMD_RESULT")' = InFlight(w, "CMD_RESULT")
  BY <1>1, AppendQueue DEF InFlight
<1>3. \A i \in InFlight(w, "CMD_RESULT") : toServer'[w][i] = toServer[w][i]
  BY <1>1, AppendQueue DEF InFlight
<1>4. TasksInFlight(w)' = TasksInFlight(w) /\ (Once(w) => Once(w)')
  BY <1>2, <1>3 DEF TasksInFlight, Once
<1>5. \A v \in Worker \ {w} : toServer'[v] = toServer[v]
  BY <1>1, AppendQueue
<1> QED
  BY <1>4, <1>5, SameQueue

LEMMA ResultQueued ==
  ASSUME CallsInv, NEW w \in Worker, NEW t \in Task,
         toServer' = [toServer EXCEPT ![w] = Append(@, Result(t))]
  PROVE  /\ \A v \in Worker \ {w} : toServer'[v] = toServer[v]
         /\ TasksInFlight(w)' = TasksInFlight(w) \cup {t}
         /\ Once(w) /\ t \notin TasksInFlight(w) => Once(w)'
<1> DEFINE k == Len(toServer[w]) + 1
<1>1. Result(t) \in Message /\ Result(t).cmd = "CMD_RESULT" /\ Result(t).task = t
  BY DEF Message, Result
<1>2. InFlight(w, "CMD_RESULT")' = InFlight(w, "CMD_RESULT") \cup {k}
  <2>1. /\ \A i \in DOMAIN toServer'[w] :
             \/ i \in DOMAIN toServer[w] /\ toServer'[w][i] = toServer[w][i]
             \/ i = k
        /\ \A i \in DOMAIN toServer[w] :
             i \in DOMAIN toServer'[w] /\ toServer'[w][i] = toServer[w][i]
        /\ k \in DOMAIN toServer'[w] /\ toServer'[w][k] = Result(t)
    BY <1>1, AppendQueue
  <2> HIDE DEF k
  <2> QED
    BY <1>1, <2>1 DEF InFlight
<1>3. /\ \A i \in InFlight(w, "CMD_RESULT") : toServer'[w][i] = toServer[w][i]
      /\ toServer'[w][k].task = t
  <2>1. toServer'[w][k] = Result(t)
    BY <1>1, AppendQueue
  <2>2. \A i \in DOMAIN toServer[w] : toServer'[w][i] = toServer[w][i]
    BY <1>1, AppendQueue
  <2> HIDE DEF k
  <2> QED
    BY <1>1, <2>1, <2>2 DEF InFlight
<1>4. \A v \in Worker \ {w} : toServer'[v] = toServer[v]
  BY <1>1, AppendQueue
<1> HIDE DEF k
<1>5. TasksInFlight(w)' = TasksInFlight(w) \cup {t}
  BY <1>2, <1>3 DEF TasksInFlight
<1>6. Once(w) /\ t \notin TasksInFlight(w) => Once(w)'
  <2> SUFFICES ASSUME Once(w), t \notin TasksInFlight(w),
                      NEW i \in InFlight(w, "CMD_RESULT")', NEW j \in InFlight(w, "CMD_RESULT")',
                      toServer'[w][i].task = toServer'[w][j].task
               PROVE  i = j
    BY DEF Once
  <2>1. \A x \in InFlight(w, "CMD_RESULT") : toServer'[w][x].task # t
    BY <1>3 DEF TasksInFlight
  <2>2. CASE i = k \/ j = k
    BY <1>2, <1>3, <2>1, <2>2
  <2>3. CASE i # k /\ j # k
    BY <1>2, <1>3, <2>3 DEF Once
  <2> QED
    BY <2>2, <2>3
<1> QED
  BY <1>4, <1>5, <1>6

LEMMA MessageRead ==
  ASSUME CallsInv, NEW w \in Worker, toServer[w] # <<>>, Once(w),
         toServer' = [toServer EXCEPT ![w] = Tail(@)]
  PROVE  /\ \A v \in Worker \ {w} : toServer'[v] = toServer[v]
         /\ Once(w)'
         /\ Head(toServer[w]).cmd = "CMD_REQUEST_FOR_DATA" =>
              TasksInFlight(w)' = TasksInFlight(w)
         /\ Head(toServer[w]).cmd = "CMD_RESULT" =>
              /\ Head(toServer[w]).task \in TasksInFlight(w)
              /\ TasksInFlight(w)' = TasksInFlight(w) \ {Head(toServer[w]).task}
<1> DEFINE h == Head(toServer[w])
<1>1. \A v \in Worker \ {w} : toServer'[v] = toServer[v]
  BY TailQueue
<1>2. h = toServer[w][1] /\ 1 \in DOMAIN toServer[w]
  BY TailQueue
<1>3. \A i \in InFlight(w, "CMD_RESULT")' :
        /\ i \in Int /\ i + 1 # 1
        /\ i + 1 \in InFlight(w, "CMD_RESULT") /\ toServer'[w][i] = toServer[w][i + 1]
  BY TailQueue DEF InFlight
<1>4. \A i \in InFlight(w, "CMD_RESULT") :
        i = 1 \/ \E j \in InFlight(w, "CMD_RESULT")' : toServer'[w][j] = toServer[w][i]
  <2>1. \A i \in InFlight(w, "CMD_RESULT") :
          i = 1 \/ (i - 1 \in InFlight(w, "CMD_RESULT")' /\ toServer'[w][i - 1] = toServer[w][i])
    BY TailQueue DEF InFlight
  <2> QED
    BY <2>1
<1>5. h.cmd = "CMD_RESULT" <=> 1 \in InFlight(w, "CMD_RESULT")
  BY <1>2 DEF InFlight
<1> HIDE DEF h
<1>6. Once(w)'
  <2> SUFFICES ASSUME NEW i \in InFlight(w, "CMD_RESULT")', NEW j \in InFlight(w, "CMD_RESULT")',
                      toServer'[w][i].task = toServer'[w][j].task
               PROVE  i = j
    BY DEF Once
  <2>1. \A x, y \in InFlight(w, "CMD_RESULT") :
          toServer[w][x].task = toServer[w][y].task => x = y
    BY DEF Once
  <2>2. /\ i \in Int /\ i + 1 \in InFlight(w, "CMD_RESULT") /\ toServer'[w][i] = toServer[w][i + 1]
        /\ j \in Int /\ j + 1 \in InFlight(w, "CMD_RESULT") /\ toServer'[w][j] = toServer[w][j + 1]
    BY <1>3
  <2>3. toServer[w][i + 1].task = toServer[w][j + 1].task
    BY <2>2
  <2>4. i + 1 = j + 1
    BY <2>1, <2>2, <2>3
  <2> QED
    BY <2>2, <2>4
<1>7. CASE h.cmd = "CMD_REQUEST_FOR_DATA"
  <2>1. 1 \notin InFlight(w, "CMD_RESULT")
    BY <1>5, <1>7
  <2>2. TasksInFlight(w)' \subseteq TasksInFlight(w)
    BY <1>3 DEF TasksInFlight
  <2>3. TasksInFlight(w) \subseteq TasksInFlight(w)'
    BY <1>4, <2>1 DEF TasksInFlight
  <2> QED
    BY <1>1, <1>6, <1>7, <2>2, <2>3 DEF h
<1>8. CASE h.cmd = "CMD_RESULT"
  <2>1. h.task \in TasksInFlight(w)
    BY <1>2, <1>5, <1>8 DEF TasksInFlight
  <2>2. \A i \in InFlight(w, "CMD_RESULT") : i # 1 => toServer[w][i].task # h.task
    BY <1>2, <1>5, <1>8 DEF Once
  <2>3. TasksInFlight(w)' = TasksInFlight(w) \ {h.task}
    <3>1. TasksInFlight(w)' \subseteq TasksInFlight(w) \ {h.task}
      <4>1. \A i \in InFlight(w, "CMD_RESULT")' :
              /\ toServer'[w][i].task \in TasksInFlight(w)
              /\ toServer'[w][i].task # h.task
        BY <1>3, <2>2 DEF TasksInFlight
      <4> QED
        BY <4>1 DEF TasksInFlight
    <3>2. \A i \in InFlight(w, "CMD_RESULT") :
            toServer[w][i].task # h.task => toServer[w][i].task \in TasksInFlight(w)'
      BY <1>2, <1>4 DEF TasksInFlight
    <3>3. TasksInFlight(w) \ {h.task} \subseteq TasksInFlight(w)'
      BY <3>2 DEF TasksInFlight
    <3> QED
      BY <3>1, <3>3
  <2> QED
    BY <1>1, <1>6, <1>8, <2>1, <2>3 DEF h
<1> QED
  BY <1>1, <1>6, <1>7, <1>8 DEF h

-----------------------------------------------------------------------------
(* The invariant                                                           *)

\* Workers the event loop has not met.
Unaccepted == {w \in Worker : w \in backlog \/ sock[w] = "none"}

\* The cell c and the worker w it belongs to agree: AssignmentsAgree for one.
AgreeOn(c, w) ==
  /\ Held(c) = BeingSent(c) \cup atWorker[w] \cup TasksInFlight(w)
  /\ BeingSent(c) \cap (atWorker[w] \cup TasksInFlight(w)) = {}
  /\ atWorker[w] \cap TasksInFlight(w) = {}
  /\ Once(w)

\* What agreement rests on: a task being sent is in the list, the list of a
\* free cell is empty, a worker nobody accepted has nothing, and the send loop
\* picks no task for a connection it has dropped.
Assigned ==
  /\ nowSending \in [Cell -> Slot \cup {None}]
  /\ atWorker \in [Worker -> SUBSET Task]
  /\ \A c \in Cell :
       socketFd[c] # NoFd /\ nowSending[c] # None => nowSending[c] \in UsedSlots(c)
  /\ \A c \in Cell : socketFd[c] = NoFd => UsedSlots(c) = {}
  /\ \A w \in Unaccepted : atWorker[w] = {} /\ TasksInFlight(w) = {}
  /\ pc = "send" /\ socketFd[cur] = NoFd => nowSending[cur] # None
  /\ \A c \in Cell, w \in Worker : socketFd[c] = w => AgreeOn(c, w)
  /\ NoUnknownResult

LEMMA AssignedInit == Init => Assigned
<1> SUFFICES ASSUME Init PROVE Assigned
  OBVIOUS
<1>1. \A c \in Cell : UsedSlots(c) = {} /\ socketFd[c] = NoFd
  BY DEF Init, ServerInit, PoolInit, UsedSlots
<1>2. \A w \in Worker : TasksInFlight(w) = {} /\ atWorker[w] = {}
  BY DEF Init, WorkerInit, TasksInFlight, InFlight
<1> QED
  BY <1>1, <1>2, ClusterAssumption
     DEF Init, ServerInit, WorkerInit, Assigned, NoUnknownResult, Unaccepted

\* A step that concerns neither c nor w.
LEMMA SameAgreement ==
  ASSUME NEW c \in Cell, NEW w \in Worker, AgreeOn(c, w),
         nowSending'[c] = nowSending[c], taskList'[c] = taskList[c],
         atWorker'[w] = atWorker[w],
         TasksInFlight(w)' = TasksInFlight(w), Once(w)'
  PROVE  AgreeOn(c, w)'
<1>1. UsedSlots(c)' = UsedSlots(c)
  BY DEF UsedSlots
<1>2. Held(c)' = Held(c) /\ BeingSent(c)' = BeingSent(c)
  BY <1>1 DEF Held, BeingSent
<1> QED
  BY <1>2 DEF AgreeOn

\* A step that leaves lists, queues and cells alone: it does not begin to send
\* to a dropped connection, and meets no worker for the first time.
LEMMA SameAssigned ==
  ASSUME Assigned, UNCHANGED <<taskList, socketFd, nowSending, toServer, atWorker>>,
         Unaccepted' \subseteq Unaccepted, NoUnknownResult',
         pc' = "send" => (pc = "send" /\ cur' = cur) \/ socketFd[cur'] # NoFd
  PROVE  Assigned'
<1>1. \A c \in Cell : UsedSlots(c)' = UsedSlots(c)
  BY DEF UsedSlots
<1>2. \A w \in Worker : TasksInFlight(w)' = TasksInFlight(w) /\ (Once(w) => Once(w)')
  BY SameQueue
<1>3. ASSUME NEW c \in Cell, NEW w \in Worker, socketFd'[c] = w PROVE AgreeOn(c, w)'
  <2>1. AgreeOn(c, w)
    BY <1>3 DEF Assigned
  <2>2. Once(w)
    BY <2>1 DEF AgreeOn
  <2> QED
    BY <1>2, <2>1, <2>2, SameAgreement
<1>4. \A w \in Unaccepted' : atWorker'[w] = {} /\ TasksInFlight(w)' = {}
  BY <1>2 DEF Assigned, Unaccepted
<1>5. pc' = "send" /\ socketFd'[cur'] = NoFd => nowSending'[cur'] # None
  BY DEF Assigned
<1> QED
  BY <1>1, <1>3, <1>4, <1>5 DEF Assigned

-----------------------------------------------------------------------------
(* Workers send                                                            *)

LEMMA RequestKeepsAssigned ==
  ASSUME CallsInv, Connections, Assigned, NEW w \in Worker, SendRequest(w)
  PROVE  Assigned'
<1>1. /\ toServer' = [toServer EXCEPT ![w] = Append(@, Request)]
      /\ UNCHANGED <<taskList, socketFd, nowSending, sock, backlog, atWorker, pc, cur>>
  BY DEF SendRequest, poolVars, connVars, loopVars
<1>2. \A v \in Worker : TasksInFlight(v)' = TasksInFlight(v) /\ (Once(v) => Once(v)')
  BY <1>1, RequestQueued
<1>3. ASSUME NEW c \in Cell, NEW v \in Worker, socketFd'[c] = v PROVE AgreeOn(c, v)'
  <2>1. AgreeOn(c, v)
    BY <1>1, <1>3 DEF Assigned
  <2>2. Once(v)
    BY <2>1 DEF AgreeOn
  <2> QED
    BY <1>1, <1>2, <2>1, <2>2, SameAgreement
<1>4. \A c \in Cell : UsedSlots(c)' = UsedSlots(c)
  BY <1>1 DEF UsedSlots
<1>5. Unaccepted' = Unaccepted
  BY <1>1 DEF Unaccepted
<1>6. \A v \in Unaccepted' : atWorker'[v] = {} /\ TasksInFlight(v)' = {}
  BY <1>1, <1>2, <1>5 DEF Assigned, Unaccepted
<1> QED
  BY <1>1, <1>3, <1>4, <1>6 DEF Assigned, NoUnknownResult

LEMMA ResultKeepsAssigned ==
  ASSUME CallsInv, Connections, Assigned, NEW w \in Worker, NEW t \in Task, SendResult(w, t)
  PROVE  Assigned'
<1>1. /\ t \in atWorker[w]
      /\ atWorker' = [atWorker EXCEPT ![w] = @ \ {t}]
      /\ toServer' = [toServer EXCEPT ![w] = Append(@, Result(t))]
      /\ UNCHANGED <<taskList, socketFd, nowSending, sock, backlog, pc, cur>>
  BY DEF SendResult, poolVars, connVars, loopVars
<1>2. /\ atWorker'[w] = atWorker[w] \ {t}
      /\ \A v \in Worker \ {w} : atWorker'[v] = atWorker[v]
      /\ atWorker' \in [Worker -> SUBSET Task]
  BY <1>1 DEF Assigned
<1>3. /\ \A v \in Worker \ {w} :
           TasksInFlight(v)' = TasksInFlight(v) /\ (Once(v) => Once(v)')
      /\ TasksInFlight(w)' = TasksInFlight(w) \cup {t}
      /\ Once(w) /\ t \notin TasksInFlight(w) => Once(w)'
  BY <1>1, ResultQueued, SameQueue
<1>4. \A c \in Cell : UsedSlots(c)' = UsedSlots(c) /\ Held(c)' = Held(c) /\ BeingSent(c)' = BeingSent(c)
  BY <1>1 DEF UsedSlots, Held, BeingSent
<1>5. ASSUME NEW c \in Cell, NEW v \in Worker, socketFd'[c] = v PROVE AgreeOn(c, v)'
  <2>1. AgreeOn(c, v)
    BY <1>1, <1>5 DEF Assigned
  <2>2. CASE v = w
    <3>1. t \notin TasksInFlight(w) /\ t \notin BeingSent(c) /\ Once(w)
      BY <1>1, <2>1, <2>2 DEF AgreeOn
    <3> QED
      BY <1>1, <1>2, <1>3, <1>4, <2>1, <2>2, <3>1 DEF AgreeOn
  <2>3. CASE v # w
    <3>1. Once(v)
      BY <2>1 DEF AgreeOn
    <3> QED
      BY <1>1, <1>2, <1>3, <2>1, <2>3, <3>1, SameAgreement
  <2> QED
    BY <2>2, <2>3
<1>6. Unaccepted' = Unaccepted /\ w \notin Unaccepted
  BY <1>1 DEF Unaccepted, Assigned
<1>7. \A v \in Unaccepted' : atWorker'[v] = {} /\ TasksInFlight(v)' = {}
  BY <1>2, <1>3, <1>6 DEF Assigned, Unaccepted
<1> QED
  BY <1>1, <1>2, <1>4, <1>5, <1>7 DEF Assigned, NoUnknownResult

-----------------------------------------------------------------------------
(* Connections come and go                                                 *)

LEMMA AcceptKeepsAssigned ==
  ASSUME CallsInv, Connections, Assigned,
         NEW w \in Worker, NEW c \in Cell, AcceptConnection(w, c)
  PROVE  Assigned'
<1>1. /\ w \in backlog /\ backlog' = backlog \ {w}
      /\ c \notin OpenCells /\ pc' = pc /\ pc = "accept"
      /\ socketFd' = [socketFd EXCEPT ![c] = w]
      /\ nowSending' = [nowSending EXCEPT ![c] = None]
      /\ UNCHANGED <<taskList, sock, toServer, atWorker>>
  BY DEF AcceptConnection, IsLeast, poolVars, loopVars
<1>2. /\ socketFd'[c] = w /\ nowSending'[c] = None
      /\ \A d \in Cell \ {c} : socketFd'[d] = socketFd[d] /\ nowSending'[d] = nowSending[d]
      /\ nowSending' \in [Cell -> Slot \cup {None}]
  BY <1>1 DEF CallsInv, Assigned
<1>3. \A d \in Cell : UsedSlots(d)' = UsedSlots(d)
  BY <1>1 DEF UsedSlots
<1>4. \A v \in Worker : TasksInFlight(v)' = TasksInFlight(v) /\ (Once(v) => Once(v)')
  BY <1>1, SameQueue
<1>5. ASSUME NEW d \in Cell, NEW v \in Worker, socketFd'[d] = v PROVE AgreeOn(d, v)'
  <2>1. CASE d = c
    <3>1. v = w /\ w \in Unaccepted
      BY <1>1, <1>2, <1>5, <2>1 DEF Unaccepted
    <3>2. UsedSlots(c)' = {} /\ atWorker'[w] = {} /\ TasksInFlight(w)' = {}
      BY <1>1, <1>3, <1>4, <3>1 DEF Assigned, OpenCells
    <3>3. Held(c)' = {} /\ BeingSent(c)' = {}
      BY <1>2, <3>2 DEF Held, BeingSent
    <3>4. Once(w)'
      BY <3>2 DEF Once, TasksInFlight
    <3> QED
      BY <2>1, <3>1, <3>2, <3>3, <3>4 DEF AgreeOn
  <2>2. CASE d # c
    <3>1. AgreeOn(d, v)
      BY <1>2, <1>5, <2>2 DEF Assigned
    <3>2. Once(v)
      BY <3>1 DEF AgreeOn
    <3> QED
      BY <1>1, <1>2, <1>4, <2>2, <3>1, <3>2, SameAgreement
  <2> QED
    BY <2>1, <2>2
<1>6. Unaccepted' \subseteq Unaccepted
  BY <1>1 DEF Unaccepted
<1>7. \A v \in Unaccepted' : atWorker'[v] = {} /\ TasksInFlight(v)' = {}
  BY <1>1, <1>4, <1>6 DEF Assigned, Unaccepted
<1>8. \A d \in Cell :
        socketFd'[d] # NoFd /\ nowSending'[d] # None => nowSending'[d] \in UsedSlots(d)'
  BY <1>2, <1>3 DEF Assigned
<1>9. \A d \in Cell : socketFd'[d] = NoFd => UsedSlots(d)' = {}
  BY <1>2, <1>3, ClusterAssumption DEF Assigned
<1> QED
  BY <1>1, <1>2, <1>5, <1>7, <1>8, <1>9 DEF Assigned, NoUnknownResult

LEMMA DropKeepsAssigned ==
  ASSUME PoolTypeOK, CallsInv, Connections, Assigned, NEW c \in Cell, DropConnection(c),
         UNCHANGED <<sock, backlog, toServer, atWorker>>,
         NoUnknownResult', pc' = "send" => cur' = c /\ nowSending[c] # None
  PROVE  Assigned'
<1>1. /\ socketFd' = [socketFd EXCEPT ![c] = NoFd]
      /\ nowSending' = nowSending
      /\ DropResolvingTasks(c)
  BY DEF DropConnection, DeleteConnection
<1>2. /\ socketFd'[c] = NoFd
      /\ \A d \in Cell \ {c} : socketFd'[d] = socketFd[d]
  BY <1>1 DEF CallsInv
<1>3. \A d \in Cell : UsedSlots(d)' = IF d = c THEN {} ELSE UsedSlots(d)
  BY <1>1, DropLists
<1>4. \A d \in Cell \ {c} : taskList'[d] = taskList[d]
  BY <1>1 DEF DropResolvingTasks, PoolTypeOK
<1>5. \A v \in Worker : TasksInFlight(v)' = TasksInFlight(v) /\ (Once(v) => Once(v)')
  BY SameQueue
<1>6. ASSUME NEW d \in Cell, NEW v \in Worker, socketFd'[d] = v PROVE AgreeOn(d, v)'
  <2>1. d # c
    BY <1>2, <1>6, ClusterAssumption
  <2>2. AgreeOn(d, v)
    BY <1>2, <1>6, <2>1 DEF Assigned
  <2>3. Once(v)
    BY <2>2 DEF AgreeOn
  <2> QED
    BY <1>1, <1>4, <1>5, <2>1, <2>2, <2>3, SameAgreement
<1>7. \A v \in Unaccepted' : atWorker'[v] = {} /\ TasksInFlight(v)' = {}
  BY <1>5 DEF Assigned, Unaccepted
<1>8. \A d \in Cell :
        socketFd'[d] # NoFd /\ nowSending'[d] # None => nowSending'[d] \in UsedSlots(d)'
  BY <1>1, <1>2, <1>3 DEF Assigned
<1>9. \A d \in Cell : socketFd'[d] = NoFd => UsedSlots(d)' = {}
  BY <1>2, <1>3 DEF Assigned
<1> QED
  BY <1>1, <1>6, <1>7, <1>8, <1>9 DEF Assigned

-----------------------------------------------------------------------------
(* The server receives                                                     *)

LEMMA ReceiveRequestKeepsAssigned ==
  ASSUME CallsInv, Connections, Assigned,
         NEW e \in batch, NEW c \in Cell, ReceiveRequest(e, c)
  PROVE  Assigned'
<1>1. PICK w \in Worker : w = e.fd
  BY EventOfCell DEF ReceiveRequest, Receive
<1>2. /\ socketFd[c] = w /\ toServer[w] # <<>>
      /\ Head(toServer[w]).cmd = "CMD_REQUEST_FOR_DATA"
      /\ toServer' = [toServer EXCEPT ![w] = Tail(@)]
      /\ UNCHANGED <<taskList, socketFd, nowSending, sock, backlog, atWorker>>
      /\ pc' \in {"send", "dispatch"} /\ (pc' = "send" => cur' = c)
  BY <1>1 DEF ReceiveRequest, Receive, CountRequest, AfterReceive, poolVars
<1>3. AgreeOn(c, w)
  BY <1>2 DEF Assigned
<1>4. /\ \A v \in Worker \ {w} : toServer'[v] = toServer[v]
      /\ TasksInFlight(w)' = TasksInFlight(w) /\ Once(w)'
  BY <1>2, <1>3, MessageRead DEF AgreeOn
<1>5. \A v \in Worker : TasksInFlight(v)' = TasksInFlight(v) /\ (Once(v) => Once(v)')
  BY <1>4, SameQueue
<1>6. ASSUME NEW d \in Cell, NEW v \in Worker, socketFd'[d] = v PROVE AgreeOn(d, v)'
  <2>1. AgreeOn(d, v)
    BY <1>2, <1>6 DEF Assigned
  <2>2. Once(v)
    BY <2>1 DEF AgreeOn
  <2> QED
    BY <1>2, <1>5, <2>1, <2>2, SameAgreement
<1>7. \A d \in Cell : UsedSlots(d)' = UsedSlots(d)
  BY <1>2 DEF UsedSlots
<1>8. \A v \in Unaccepted' : atWorker'[v] = {} /\ TasksInFlight(v)' = {}
  BY <1>2, <1>5 DEF Assigned, Unaccepted
<1>9. pc' = "send" => socketFd'[cur'] # NoFd
  BY <1>2, ClusterAssumption
<1>10. NoUnknownResult'
  BY <1>2 DEF NoUnknownResult
<1> QED
  BY <1>2, <1>6, <1>7, <1>8, <1>9, <1>10 DEF Assigned

\* A result names a task its connection holds, so the BUG_ON does not fire.
LEMMA ReceiveResultKeepsAssigned ==
  ASSUME PoolIInv, CallsInv, Connections, Assigned,
         NEW e \in batch, NEW c \in Cell, ReceiveResult(e, c)
  PROVE  Assigned'
<1>1. PICK w \in Worker : w = e.fd
  BY EventOfCell DEF ReceiveResult, Receive
<1>2. /\ socketFd[c] = w /\ toServer[w] # <<>>
      /\ Head(toServer[w]).cmd = "CMD_RESULT"
      /\ toServer' = [toServer EXCEPT ![w] = Tail(@)]
      /\ UNCHANGED <<sock, backlog, atWorker>>
  BY <1>1 DEF ReceiveResult, Receive
<1>3. AgreeOn(c, w)
  BY <1>2 DEF Assigned
<1>4. /\ \A v \in Worker \ {w} : toServer'[v] = toServer[v]
      /\ Head(toServer[w]).task \in TasksInFlight(w)
      /\ TasksInFlight(w)' = TasksInFlight(w) \ {Head(toServer[w]).task}
      /\ Once(w)'
  BY <1>2, <1>3, MessageRead DEF AgreeOn
<1>5. Head(toServer[w]).task \in Held(c)
  BY <1>3, <1>4 DEF AgreeOn
<1>6. PICK t \in Held(c) : t = Head(toServer[w]).task
  BY <1>5
<1>7. /\ PushReturnValue(c, t, Head(toServer[w]).value)
      /\ CountRequest(c) /\ AfterReceive(e, c)
  BY <1>1, <1>6 DEF ReceiveResult
<1>8. /\ UNCHANGED <<socketFd, nowSending>>
      /\ pc' \in {"send", "dispatch"} /\ (pc' = "send" => cur' = c)
  BY <1>7 DEF CountRequest, AfterReceive
<1>9. PICK s \in Slot : PlaceOf(c, t, s) /\ taskList' = [taskList EXCEPT ![c][s] = None]
  BY <1>7 DEF PushReturnValue
<1>10. /\ taskList[c][s] = t
       /\ \A d \in Cell \ {c} : taskList'[d] = taskList[d]
       /\ \A r \in Slot : taskList'[c][r] = IF r = s THEN None ELSE taskList[c][r]
  BY <1>9 DEF PlaceOf, IsLeast, PoolIInv, PoolTypeOK
<1>11. Held(c)' = Held(c) \ {t}
  BY <1>7, PushLists DEF PoolIInv, PoolInv
<1>12. BeingSent(c)' = BeingSent(c) /\ (nowSending[c] # None => nowSending[c] \in UsedSlots(c)')
  <2>1. CASE nowSending[c] = None
    BY <1>8, <2>1 DEF BeingSent
  <2>2. CASE nowSending[c] # None
    <3>1. nowSending[c] \in UsedSlots(c) /\ nowSending[c] \in Slot
      BY <1>2, <2>2, ClusterAssumption DEF Assigned, UsedSlots
    <3>2. taskList[c][nowSending[c]] # t
      BY <1>3, <1>4, <1>6, <2>2 DEF AgreeOn, BeingSent
    <3>3. taskList'[c][nowSending[c]] = taskList[c][nowSending[c]]
      BY <1>10, <3>1, <3>2
    <3> QED
      BY <1>8, <2>2, <3>1, <3>3 DEF BeingSent, UsedSlots
  <2> QED
    BY <2>1, <2>2
<1>13. AgreeOn(c, w)'
  <2>1. t \notin BeingSent(c) /\ t \notin atWorker[w] /\ t \in TasksInFlight(w)
    BY <1>3, <1>4, <1>6 DEF AgreeOn
  <2> QED
    BY <1>2, <1>3, <1>4, <1>6, <1>11, <1>12, <2>1 DEF AgreeOn
<1>14. ASSUME NEW d \in Cell, NEW v \in Worker, socketFd'[d] = v PROVE AgreeOn(d, v)'
  <2>1. CASE d = c
    BY <1>2, <1>8, <1>13, <1>14, <2>1
  <2>2. CASE d # c
    <3>1. AgreeOn(d, v) /\ v # w
      <4>1. AgreeOn(d, v)
        BY <1>8, <1>14 DEF Assigned
      <4>2. v # w
        BY <1>2, <1>8, <1>14, <2>2, ClusterAssumption DEF Connections, OpenCells
      <4> QED
        BY <4>1, <4>2
    <3>2. TasksInFlight(v)' = TasksInFlight(v) /\ Once(v)'
      BY <1>4, <3>1, SameQueue DEF AgreeOn
    <3> QED
      BY <1>2, <1>8, <1>10, <2>2, <3>1, <3>2, SameAgreement
  <2> QED
    BY <2>1, <2>2
<1>15. /\ \A d \in Cell \ {c} : UsedSlots(d)' = UsedSlots(d)
       /\ UsedSlots(c)' \subseteq UsedSlots(c)
  BY <1>10 DEF UsedSlots
<1>16. \A d \in Cell :
         socketFd'[d] # NoFd /\ nowSending'[d] # None => nowSending'[d] \in UsedSlots(d)'
  BY <1>8, <1>12, <1>15 DEF Assigned
<1>17. \A d \in Cell : socketFd'[d] = NoFd => UsedSlots(d)' = {}
  BY <1>8, <1>15 DEF Assigned
<1>18. \A v \in Unaccepted' : atWorker'[v] = {} /\ TasksInFlight(v)' = {}
  <2>1. ASSUME NEW v \in Unaccepted' PROVE atWorker'[v] = {} /\ TasksInFlight(v)' = {}
    <3>1. v \in Worker /\ v \in Unaccepted
      BY <1>2 DEF Unaccepted
    <3>2. v # w
      BY <1>2, <3>1, ClusterAssumption DEF Unaccepted, Connections, OpenCells
    <3> QED
      BY <1>2, <1>4, <3>1, <3>2, SameQueue DEF Assigned
  <2> QED
    BY <2>1
<1>19. pc' = "send" => socketFd'[cur'] # NoFd
  BY <1>2, <1>8, ClusterAssumption
<1>20. NoUnknownResult'
  BY <1>8 DEF NoUnknownResult
<1> QED
  BY <1>2, <1>8, <1>14, <1>16, <1>17, <1>18, <1>19, <1>20 DEF Assigned

-----------------------------------------------------------------------------
(* The server sends                                                        *)

LEMMA PickKeepsAssigned ==
  ASSUME PoolIInv, CallsInv, Connections, Assigned,
         NEW t \in Task, NEW s \in Slot, PickTask(t, s)
  PROVE  Assigned'
<1>1. /\ pc = "send" /\ cur \in Cell /\ nowSending[cur] = None
      /\ GetTaskToSend(cur, t, s)
      /\ nowSending' = [nowSending EXCEPT ![cur] = s]
      /\ UNCHANGED <<socketFd, pc, cur, sock, backlog, toServer, atWorker>>
  BY DEF PickTask, Sending, CallsInv, loopVars, workerVars
<1>2. PICK c \in Cell : c = cur
  BY <1>1
<1>3. socketFd[c] # NoFd
  BY <1>1, <1>2 DEF Assigned
<1>4. PICK w \in Worker : w = socketFd[c]
  BY <1>2, <1>3 DEF CallsInv
<1>5. AgreeOn(c, w)
  BY <1>4 DEF Assigned
<1>6. /\ nowSending'[c] = s
      /\ \A d \in Cell \ {c} : nowSending'[d] = nowSending[d]
      /\ nowSending' \in [Cell -> Slot \cup {None}]
  BY <1>1, <1>2 DEF Assigned
<1>7. /\ taskList'[c][s] = t
      /\ \A d \in Cell \ {c} : taskList'[d] = taskList[d]
  BY <1>1, <1>2 DEF GetTaskToSend, PoolIInv, PoolTypeOK
<1>8. \A d \in Cell :
        /\ UsedSlots(d)' = IF d = c THEN UsedSlots(c) \cup {s} ELSE UsedSlots(d)
        /\ Held(d)' = IF d = c THEN Held(c) \cup {t} ELSE Held(d)
  BY <1>1, <1>2, GetLists DEF PoolIInv
<1>9. t \notin Held(c)
  BY <1>1 DEF GetTaskToSend, IsLeast, Candidates, WithStatus, PoolIInv, PoolInv, ResolvingIsListed
<1>10. BeingSent(c) = {} /\ BeingSent(c)' = {t}
  BY <1>1, <1>2, <1>6, <1>7, NoneIsNoTask DEF BeingSent
<1>11. \A v \in Worker : TasksInFlight(v)' = TasksInFlight(v) /\ (Once(v) => Once(v)')
  BY <1>1, SameQueue
<1>12. ASSUME NEW d \in Cell, NEW v \in Worker, socketFd'[d] = v PROVE AgreeOn(d, v)'
  <2>1. CASE d = c
    <3>1. v = w
      BY <1>1, <1>4, <1>12, <2>1
    <3> QED
      BY <1>1, <1>5, <1>8, <1>9, <1>10, <1>11, <2>1, <3>1 DEF AgreeOn
  <2>2. CASE d # c
    <3>1. AgreeOn(d, v)
      BY <1>1, <1>12 DEF Assigned
    <3>2. Once(v)
      BY <3>1 DEF AgreeOn
    <3> QED
      BY <1>1, <1>6, <1>7, <1>11, <2>2, <3>1, <3>2, SameAgreement
  <2> QED
    BY <2>1, <2>2
<1>13. \A d \in Cell :
         socketFd'[d] # NoFd /\ nowSending'[d] # None => nowSending'[d] \in UsedSlots(d)'
  BY <1>1, <1>6, <1>8 DEF Assigned
<1>14. \A d \in Cell : socketFd'[d] = NoFd => UsedSlots(d)' = {}
  BY <1>1, <1>3, <1>8 DEF Assigned
<1>15. \A v \in Unaccepted' : atWorker'[v] = {} /\ TasksInFlight(v)' = {}
  BY <1>1, <1>11 DEF Assigned, Unaccepted
<1> QED
  BY <1>1, <1>2, <1>3, <1>6, <1>12, <1>13, <1>14, <1>15 DEF Assigned, NoUnknownResult

LEMMA PutKeepsAssigned ==
  ASSUME PoolIInv, CallsInv, Connections, Assigned, NEW w \in Worker, PutTask(w)
  PROVE  Assigned'
<1>1. /\ pc = "send" /\ cur \in Cell /\ nowSending[cur] # None /\ socketFd[cur] = w
      /\ atWorker' = [atWorker EXCEPT ![w] = @ \cup {taskList[cur][nowSending[cur]]}]
      /\ nowSending' = [nowSending EXCEPT ![cur] = None]
      /\ UNCHANGED <<taskList, socketFd, pc, cur, sock, backlog, toServer>>
  BY DEF PutTask, Sending, CallsInv, poolVars, loopVars
<1>2. PICK c \in Cell : c = cur
  BY <1>1
<1>3. /\ AgreeOn(c, w) /\ w # NoFd
      /\ nowSending[c] \in UsedSlots(c)
  BY <1>1, <1>2, ClusterAssumption DEF Assigned
<1>4. /\ BeingSent(c) = {taskList[c][nowSending[c]]}
      /\ BeingSent(c) \subseteq Task
  <2>1. BeingSent(c) = {taskList[c][nowSending[c]]}
    BY <1>1, <1>2 DEF BeingSent
  <2>2. taskList[c][nowSending[c]] \in Held(c)
    BY <1>3 DEF Held
  <2> QED
    BY <2>1, <2>2, HeldTasks DEF PoolIInv
<1>5. /\ nowSending'[c] = None
      /\ \A d \in Cell \ {c} : nowSending'[d] = nowSending[d]
      /\ nowSending' \in [Cell -> Slot \cup {None}]
  BY <1>1, <1>2 DEF Assigned
<1>6. /\ atWorker'[w] = atWorker[w] \cup BeingSent(c)
      /\ \A v \in Worker \ {w} : atWorker'[v] = atWorker[v]
      /\ atWorker' \in [Worker -> SUBSET Task]
  BY <1>1, <1>2, <1>4 DEF Assigned
<1>7. \A v \in Worker : TasksInFlight(v)' = TasksInFlight(v) /\ (Once(v) => Once(v)')
  BY <1>1, SameQueue
<1>8. \A d \in Cell : UsedSlots(d)' = UsedSlots(d) /\ Held(d)' = Held(d)
  BY <1>1 DEF UsedSlots, Held
<1>9. BeingSent(c)' = {}
  BY <1>5 DEF BeingSent
<1>10. ASSUME NEW d \in Cell, NEW v \in Worker, socketFd'[d] = v PROVE AgreeOn(d, v)'
  <2>1. CASE d = c
    <3>1. v = w
      BY <1>1, <1>2, <1>10, <2>1
    <3> QED
      BY <1>3, <1>6, <1>7, <1>8, <1>9, <2>1, <3>1 DEF AgreeOn
  <2>2. CASE d # c
    <3>1. AgreeOn(d, v)
      BY <1>1, <1>10 DEF Assigned
    <3>2. v # w
      BY <1>1, <1>2, <1>3, <1>10, <2>2 DEF Connections, OpenCells
    <3>3. Once(v)
      BY <3>1 DEF AgreeOn
    <3> QED
      BY <1>1, <1>5, <1>6, <1>7, <2>2, <3>1, <3>2, <3>3, SameAgreement
  <2> QED
    BY <2>1, <2>2
<1>11. \A d \in Cell :
         socketFd'[d] # NoFd /\ nowSending'[d] # None => nowSending'[d] \in UsedSlots(d)'
  BY <1>1, <1>5, <1>8 DEF Assigned
<1>12. \A d \in Cell : socketFd'[d] = NoFd => UsedSlots(d)' = {}
  BY <1>1, <1>8 DEF Assigned
<1>13. Unaccepted' = Unaccepted /\ w \notin Unaccepted
  BY <1>1, <1>2, <1>3 DEF Unaccepted, Connections, OpenCells
<1>14. \A v \in Unaccepted' : atWorker'[v] = {} /\ TasksInFlight(v)' = {}
  BY <1>6, <1>7, <1>13 DEF Assigned, Unaccepted
<1> QED
  BY <1>1, <1>3, <1>5, <1>6, <1>10, <1>11, <1>12, <1>14 DEF Assigned, NoUnknownResult

-----------------------------------------------------------------------------
(* Theorems                                                                *)

LEMMA AssignedStep ==
  PoolIInv /\ CallsInv /\ Connections /\ Assigned /\ [Next]_vars => Assigned'
<1> SUFFICES ASSUME PoolIInv, CallsInv, Connections, Assigned, [Next]_vars PROVE Assigned'
  OBVIOUS
<1>0. PoolTypeOK /\ NoUnknownResult
  BY DEF PoolIInv, Assigned
<1>1. CASE UNCHANGED vars
  <2>1. UNCHANGED <<taskList, socketFd, nowSending, toServer, atWorker, pc, cur, sock, backlog>>
    BY <1>1 DEF vars, poolVars, connVars, loopVars, workerVars
  <2> QED
    BY <1>0, <2>1, SameAssigned DEF Unaccepted, NoUnknownResult
<1>2. ASSUME NEW w \in Worker, WorkerNext(w) PROVE Assigned'
  <2>1. CASE Connect(w) \/ WorkerDies(w)
    <3>1. UNCHANGED <<taskList, socketFd, nowSending, toServer, atWorker, pc, cur>>
      BY <2>1 DEF Connect, WorkerDies, poolVars, connVars, loopVars
    <3>2. Unaccepted' \subseteq Unaccepted
      BY <2>1 DEF Connect, WorkerDies, Unaccepted, Connections
    <3> QED
      BY <1>0, <3>1, <3>2, SameAssigned DEF NoUnknownResult
  <2> QED
    BY <1>2, <2>1, RequestKeepsAssigned, ResultKeepsAssigned DEF WorkerNext
<1>3. CASE EpollWait \/ EndOfBatch \/ StopServer \/ AcceptWithFullTable \/ EndAccept
           \/ PickTaskFails \/ PutTaskOnDeleted \/ EndSend \/ \E e \in batch : BeginAccept(e)
  <2>1. UNCHANGED <<taskList, socketFd, nowSending, toServer, atWorker, sock, backlog>>
    BY <1>3 DEF EpollWait, EndOfBatch, StopServer, AcceptWithFullTable, EndAccept,
                PickTaskFails, PutTaskOnDeleted, EndSend, BeginAccept,
                poolVars, connVars, workerVars
  <2>2. pc' \notin {"send", "bug_unknown_result"}
    BY <1>3 DEF EpollWait, EndOfBatch, StopServer, AcceptWithFullTable, EndAccept,
                PickTaskFails, PutTaskOnDeleted, EndSend, BeginAccept
  <2> QED
    BY <2>1, <2>2, SameAssigned DEF Unaccepted, NoUnknownResult
<1>4. ASSUME NEW e \in batch, NEW c \in Cell, BeginSend(e, c) PROVE Assigned'
  <2>1. /\ UNCHANGED <<taskList, socketFd, nowSending, toServer, atWorker, sock, backlog>>
        /\ pc' = "send" /\ cur' = c /\ socketFd[c] = e.fd
    BY <1>4 DEF BeginSend, poolVars, connVars, workerVars
  <2>2. socketFd[cur'] # NoFd
    BY <2>1, EventOfCell, ClusterAssumption
  <2> QED
    BY <2>1, <2>2, SameAssigned DEF Unaccepted, NoUnknownResult
<1>5. ASSUME NEW e \in batch, NEW c \in Cell, HangUp(e, c) \/ ReceiveBroken(e, c)
      PROVE  Assigned'
  <2>1. /\ DropConnection(c) /\ UNCHANGED <<sock, backlog, toServer, atWorker>>
        /\ pc' \in {"no_workers", "dispatch"}
    BY <1>5 DEF HangUp, ReceiveBroken, workerVars
  <2> QED
    BY <1>0, <2>1, DropKeepsAssigned DEF NoUnknownResult
<1>6. CASE AcceptLoop
  BY <1>3, <1>6, AcceptKeepsAssigned DEF AcceptLoop
<1>7. CASE SendLoop
  <2>1. ASSUME NEW w \in Worker, PutTaskBroken(w) PROVE Assigned'
    <3>1. /\ pc = "send" /\ cur \in Cell /\ cur' = cur /\ nowSending[cur] # None
          /\ UNCHANGED <<sock, backlog, toServer, atWorker>>
      BY <2>1 DEF PutTaskBroken, Sending, CallsInv, workerVars
    <3>2. CASE DropConnection(cur) /\ UNCHANGED pc
      BY <1>0, <3>1, <3>2, DropKeepsAssigned DEF NoUnknownResult
    <3>3. CASE pc' = "bug_send" /\ UNCHANGED <<poolVars, connVars>>
      <4>1. UNCHANGED <<taskList, socketFd, nowSending>>
        BY <3>3 DEF poolVars, connVars
      <4> QED
        BY <3>1, <3>3, <4>1, SameAssigned DEF Unaccepted, NoUnknownResult
    <3> QED
      BY <2>1, <3>2, <3>3 DEF PutTaskBroken
  <2> QED
    BY <1>3, <1>7, <2>1, PickKeepsAssigned, PutKeepsAssigned DEF SendLoop
<1> QED
  BY <1>1, <1>2, <1>3, <1>4, <1>5, <1>6, <1>7, ReceiveRequestKeepsAssigned,
     ReceiveResultKeepsAssigned DEF Next, ServerNext, HandleEvent

LEMMA AssignedInvariant == Spec => [](CallsInv /\ Assigned)
<1>1. Spec => []PoolIInv
  BY ServerUsesPool, PoolInvariant, PTL
<1> QED
  BY <1>1, ConnectionsInvariant, AssignedInit, AssignedStep, PTL DEF Spec

\* Server and worker agree on who has which task, whatever the order of
\* connections, deaths, messages and events.
THEOREM ServerAndWorkersAgree == Spec => []AssignmentsAgree
<1>1. CallsInv /\ Assigned => AssignmentsAgree
  <2> SUFFICES ASSUME CallsInv, Assigned, NEW c \in OpenCells, NEW w \in Worker, w = socketFd[c]
               PROVE  AgreeOn(c, w)
    BY DEF AssignmentsAgree, AgreeOn, Once, CallsInv, OpenCells
  <2> QED
    BY DEF Assigned, OpenCells
<1> QED
  BY <1>1, AssignedInvariant, PTL

\* The BUG_ON of push_return_value() (cluster-server.c:673) never fires.
THEOREM NoResultIsUnknown == Spec => []NoUnknownResult
<1>1. Assigned => NoUnknownResult
  BY DEF Assigned
<1> QED
  BY <1>1, AssignedInvariant, PTL

-----------------------------------------------------------------------------
(* Quitting                                                                *)

\* Once the last result is in, a connection is left that no event of the
\* batch is about: the one the result came on, which has had its event.
Quitting ==
  /\ \A e, f \in batch : e.fd = f.fd => e = f
  /\ pc \in {"wait", "no_workers"} => numCompleted # NumTasks
  /\ numCompleted = NumTasks /\ pc \in {"dispatch", "accept", "send"}
       => \E c \in OpenCells : \A e \in batch : e.fd # socketFd[c]

LEMMA HeldIsUnfinished ==
  ASSUME PoolIInv, NEW c \in Cell, UsedSlots(c) # {}
  PROVE  numCompleted # NumTasks
<1>1. PICK t \in Task : t \in Held(c)
  BY DEF UsedSlots, Held, PoolIInv, PoolTypeOK
<1>2. status[t] = "RESOLVING"
  BY <1>1 DEF PoolIInv, PoolInv, ResolvingIsListed
<1>3. WithStatus("COMPLETED") \subseteq Task \ {t}
  BY <1>2 DEF WithStatus
<1>4. IsFiniteSet(Task) /\ Cardinality(Task) = NumTasks
  BY FS_Interval, SizesAssumption DEF Task
<1>5. WithStatus("COMPLETED") # Task /\ WithStatus("COMPLETED") \subseteq Task
  BY <1>3
<1>6. Cardinality(WithStatus("COMPLETED")) # Cardinality(Task)
  BY <1>4, <1>5, FS_Subset
<1> QED
  BY <1>4, <1>6 DEF PoolIInv, PoolInv, CountersAgree

\* A step that handles no event, or removes one from the batch.
LEMMA SameQuitting ==
  ASSUME Quitting, batch' \subseteq batch, UNCHANGED numCompleted,
         \A c \in OpenCells : c \in OpenCells' /\ socketFd'[c] = socketFd[c],
         pc' \in {"wait", "no_workers"} => pc' = pc,
         pc' \in {"dispatch", "accept", "send"} => pc \in {"dispatch", "accept", "send"}
  PROVE  Quitting'
  BY DEF Quitting

\* An event about the connection of c drops it.
LEMMA DropKeepsQuitting ==
  ASSUME CallsInv, Connections, Quitting, NEW c \in OpenCells, DropConnection(c),
         UNCHANGED <<sock, backlog>>, batch' \subseteq batch,
         numCompleted # NumTasks \/ \E e \in batch : e.fd = socketFd[c],
         pc \in {"dispatch", "send"},
         pc' \in {"dispatch", "send"} \/ (pc' = "no_workers" /\ numClients' = 0)
  PROVE  Quitting'
<1>1. UNCHANGED numCompleted
  BY DEF DropConnection, DropResolvingTasks
<1>2. CASE numCompleted # NumTasks
  BY <1>1, <1>2 DEF Quitting
<1>3. CASE numCompleted = NumTasks
  <2>1. PICK d \in OpenCells : \A e \in batch : e.fd # socketFd[d]
    BY <1>3 DEF Quitting
  <2>2. d # c
    BY <1>3, <2>1
  <2>3. d \in OpenCells' /\ socketFd'[d] = socketFd[d]
    BY <2>1, <2>2 DEF DropConnection, DeleteConnection, CallsInv, OpenCells
  <2>4. Connections'
    BY DeleteKeepsConnections DEF DropConnection
  <2>5. numClients' # 0
    <3>1. numClients' = Cardinality(OpenCells')
      BY <2>4 DEF Connections
    <3>2. IsFiniteSet(OpenCells')
      <4>1. OpenCells' \subseteq Cell
        BY DEF OpenCells
      <4> QED
        BY <4>1, CellsAreFinite, FS_Subset
    <3> QED
      BY <2>3, <3>1, <3>2, FS_EmptySet
  <2>6. pc' \in {"dispatch", "send"}
    BY <2>5
  <2> QED
    BY <1>1, <2>1, <2>3, <2>6 DEF Quitting
<1> QED
  BY <1>2, <1>3

LEMMA QuittingStep ==
  PoolIInv /\ CallsInv /\ Connections /\ Assigned /\ Quitting /\ [Next]_vars => Quitting'
<1> SUFFICES ASSUME PoolIInv, CallsInv, Connections, Assigned, Quitting, [Next]_vars
             PROVE  Quitting'
  OBVIOUS
<1>1. CASE UNCHANGED vars
  BY <1>1, SameQuitting DEF vars, poolVars, connVars, loopVars, OpenCells
<1>2. ASSUME NEW w \in Worker, WorkerNext(w) PROVE Quitting'
  BY <1>2, SameQuitting DEF WorkerNext, Connect, SendRequest, SendResult, WorkerDies,
                            poolVars, connVars, loopVars, OpenCells
<1>3. CASE EpollWait
  <2>1. \A e, f \in ReadyEvents : e.fd = f.fd => e = f
    <3>1. \A e \in ReadyEvents :
            e = AcceptEvent \/ \E w \in Worker : e = EventOf(w)
      BY DEF ReadyEvents
    <3>2. AcceptEvent.fd = AcceptFd /\ \A w \in Worker : EventOf(w).fd = w
      BY DEF EventOf, AcceptEvent
    <3> QED
      BY <3>1, <3>2, ClusterAssumption
  <2>2. batch' \subseteq ReadyEvents /\ pc = "wait" /\ pc' = "dispatch" /\ UNCHANGED numCompleted
    BY <1>3 DEF EpollWait, poolVars
  <2> QED
    BY <2>1, <2>2 DEF Quitting
<1>4. CASE EndOfBatch
  BY <1>4 DEF EndOfBatch, AllDone, Quitting, poolVars
<1>5. CASE StopServer \/ AcceptWithFullTable \/ EndAccept \/ PickTaskFails \/ PutTaskOnDeleted
           \/ EndSend \/ (\E t \in Task, s \in Slot : PickTask(t, s))
           \/ (\E w \in Worker : PutTask(w))
           \/ \E e \in batch : BeginAccept(e) \/ \E c \in Cell : BeginSend(e, c)
  <2>1. UNCHANGED <<numCompleted, socketFd>> /\ batch' \subseteq batch
    BY <1>5 DEF StopServer, AcceptWithFullTable, EndAccept, PickTaskFails, PutTaskOnDeleted,
                EndSend, PickTask, PutTask, BeginAccept, BeginSend, GetTaskToSend,
                poolVars, connVars, loopVars
  <2>2. /\ pc' \notin {"wait", "no_workers"}
        /\ pc' \in {"dispatch", "accept", "send"} => pc \in {"dispatch", "accept", "send"}
    BY <1>5 DEF StopServer, AcceptWithFullTable, EndAccept, PickTaskFails, PutTaskOnDeleted,
                EndSend, PickTask, PutTask, BeginAccept, BeginSend, Sending, loopVars
  <2> QED
    BY <2>1, <2>2, SameQuitting DEF OpenCells
<1>6. ASSUME NEW w \in Worker, NEW c \in Cell, AcceptConnection(w, c) PROVE Quitting'
  BY <1>6, SameQuitting DEF AcceptConnection, IsLeast, OpenCells, poolVars, loopVars, CallsInv
<1>7. ASSUME NEW e \in batch, NEW c \in Cell, HangUp(e, c) \/ ReceiveBroken(e, c)
      PROVE  Quitting'
  <2>1. c \in OpenCells
    BY <1>7, EventOfCell, OpenCell DEF HangUp, ReceiveBroken, Receive
  <2>2. /\ DropConnection(c) /\ UNCHANGED <<sock, backlog>> /\ batch' \subseteq batch
        /\ e.fd = socketFd[c] /\ pc = "dispatch"
        /\ pc' = "dispatch" \/ (pc' = "no_workers" /\ numClients' = 0)
    BY <1>7 DEF HangUp, ReceiveBroken, Receive, workerVars
  <2> QED
    BY <2>1, <2>2, DropKeepsQuitting
<1>8. ASSUME NEW e \in batch, NEW c \in Cell, ReceiveRequest(e, c) PROVE Quitting'
  BY <1>8, SameQuitting DEF ReceiveRequest, Receive, AfterReceive, CountRequest, OpenCells, poolVars
<1>9. ASSUME NEW e \in batch, NEW c \in Cell, ReceiveResult(e, c) PROVE Quitting'
  <2>1. /\ c \in OpenCells /\ socketFd[c] = e.fd /\ batch' = batch \ {e}
        /\ UNCHANGED socketFd /\ pc' \in {"send", "dispatch", "bug_unknown_result"}
    BY <1>9, EventOfCell, OpenCell DEF ReceiveResult, Receive, CountRequest, AfterReceive, connVars
  <2>2. c \in OpenCells' /\ \A f \in batch' : f.fd # socketFd'[c]
    BY <2>1 DEF Quitting, OpenCells
  <2> QED
    BY <2>1, <2>2 DEF Quitting
<1>10. ASSUME NEW w \in Worker, PutTaskBroken(w) PROVE Quitting'
  <2>1. /\ pc = "send" /\ cur \in OpenCells /\ nowSending[cur] # None
        /\ UNCHANGED <<sock, backlog, batch>>
    BY <1>10, OpenCell DEF PutTaskBroken, Sending, CallsInv, workerVars
  <2>2. numCompleted # NumTasks
    <3>1. UsedSlots(cur) # {} /\ cur \in Cell
      BY <2>1 DEF Assigned, OpenCells
    <3> QED
      BY <3>1, HeldIsUnfinished
  <2>3. CASE DropConnection(cur) /\ UNCHANGED pc
    BY <2>1, <2>2, <2>3, DropKeepsQuitting
  <2>4. CASE pc' = "bug_send" /\ UNCHANGED <<poolVars, connVars>>
    BY <2>1, <2>4 DEF Quitting
  <2> QED
    BY <1>10, <2>3, <2>4 DEF PutTaskBroken
<1> QED
  BY <1>1, <1>2, <1>3, <1>4, <1>5, <1>6, <1>7, <1>8, <1>9, <1>10
     DEF Next, ServerNext, HandleEvent, AcceptLoop, SendLoop

\* The server does not quit for want of workers (cluster-server.c:745) in the
\* batch that brought the last result: that connection is still open.
THEOREM NoResultIsThrownAway == Spec => []QuitsOnlyUnfinished
<1>1. Init => Quitting
  BY SizesAssumption DEF Init, ServerInit, PoolInit, Quitting
<1>2. PoolIInv /\ Quitting => QuitsOnlyUnfinished
  <2> SUFFICES ASSUME PoolIInv, Quitting, pc = "no_workers" PROVE numCompleted < NumTasks
    BY DEF QuitsOnlyUnfinished
  <2>1. IsFiniteSet(Task) /\ Cardinality(Task) = NumTasks
    BY FS_Interval, SizesAssumption DEF Task
  <2>2. WithStatus("COMPLETED") \subseteq Task
    BY DEF WithStatus
  <2>3. Cardinality(WithStatus("COMPLETED")) <= Cardinality(Task)
    BY <2>1, <2>2, FS_Subset
  <2>4. numCompleted <= NumTasks /\ numCompleted # NumTasks
    BY <2>1, <2>3 DEF PoolIInv, PoolInv, CountersAgree, Quitting
  <2> QED
    BY <2>4, SizesAssumption DEF PoolIInv, PoolTypeOK
<1>3. Spec => []PoolIInv
  BY ServerUsesPool, PoolInvariant, PTL
<1> QED
  BY <1>1, <1>2, <1>3, AssignedInvariant, ConnectionsInvariant, QuittingStep, PTL DEF Spec

-----------------------------------------------------------------------------
(* Requests: every thread of a connected worker is accounted for once      *)

\* The requests of w on their way, and the tasks w owes a result for, which
\* are at w or in a result on its way.
Asked(w) == InFlight(w, "CMD_REQUEST_FOR_DATA")
Owed(w)  == atWorker[w] \cup TasksInFlight(w)

\* What w has asked for or will ask for, or owes.
Credit(w) == unrequested[w] + Cardinality(Asked(w)) + Cardinality(Owed(w))

Credits ==
  /\ unrequested \in [Worker -> 0 .. Threads]
  /\ requested \in [Cell -> 0 .. Threads]
  /\ \A w \in Unaccepted : Credit(w) = Threads
  /\ \A c \in Cell, w \in Worker : socketFd[c] = w => Credit(w) + requested[c] = Threads

-----------------------------------------------------------------------------
(* Counting                                                                *)

LEMMA CountsAreFinite ==
  ASSUME CallsInv, Assigned, NEW w \in Worker
  PROVE  /\ IsFiniteSet(Asked(w)) /\ Cardinality(Asked(w)) \in Nat
         /\ IsFiniteSet(Owed(w)) /\ Cardinality(Owed(w)) \in Nat
<1>1. IsFiniteSet(DOMAIN toServer[w])
  <2>1. toServer[w] \in Seq(Message)
    BY DEF CallsInv
  <2>2. DOMAIN toServer[w] = 1 .. Len(toServer[w]) /\ Len(toServer[w]) \in Nat
    BY <2>1
  <2> QED
    BY <2>2, FS_Interval
<1>2. IsFiniteSet(Asked(w))
  <2>1. Asked(w) \subseteq DOMAIN toServer[w]
    BY DEF Asked, InFlight
  <2> QED
    BY <1>1, <2>1, FS_Subset
<1>3. IsFiniteSet(Owed(w))
  <2>1. TasksInFlight(w) \subseteq Task
    <3>1. \A m \in Message : m.cmd = "CMD_RESULT" => m.task \in Task
      BY DEF Message, Request, Result
    <3>2. \A i \in DOMAIN toServer[w] : toServer[w][i] \in Message
      <4>1. toServer[w] \in Seq(Message)
        BY DEF CallsInv
      <4> QED
        BY <4>1
    <3> QED
      BY <3>1, <3>2 DEF TasksInFlight, InFlight
  <2>2. Owed(w) \subseteq Task
    BY <2>1 DEF Owed, Assigned
  <2> QED
    BY <2>2, TablesAreFinite, FS_Subset
<1> QED
  BY <1>2, <1>3, FS_CardinalityType

LEMMA RemoveOne ==
  ASSUME NEW S, IsFiniteSet(S), NEW x \in S
  PROVE  Cardinality(S \ {x}) = Cardinality(S) - 1 /\ Cardinality(S) - 1 \in Nat
<1>1. IsFiniteSet(S \ {x}) /\ Cardinality(S \ {x}) = Cardinality(S) - 1
  BY FS_RemoveElement
<1>2. Cardinality(S \ {x}) \in Nat
  BY <1>1, FS_CardinalityType
<1> QED
  BY <1>1, <1>2

LEMMA RequestCounted ==
  ASSUME CallsInv, Assigned, NEW w \in Worker,
         toServer' = [toServer EXCEPT ![w] = Append(@, Request)]
  PROVE  /\ \A v \in Worker \ {w} : Asked(v)' = Asked(v)
         /\ Cardinality(Asked(w)') = Cardinality(Asked(w)) + 1
<1> DEFINE k == Len(toServer[w]) + 1
<1>1. Request \in Message /\ Request.cmd = "CMD_REQUEST_FOR_DATA"
  BY DEF Message, Request
<1>2. /\ \A i \in DOMAIN toServer'[w] :
           \/ i \in DOMAIN toServer[w] /\ toServer'[w][i] = toServer[w][i]
           \/ i = k
      /\ \A i \in DOMAIN toServer[w] :
           i \in DOMAIN toServer'[w] /\ toServer'[w][i] = toServer[w][i]
      /\ k \in DOMAIN toServer'[w] /\ toServer'[w][k] = Request
      /\ k \notin DOMAIN toServer[w]
  BY <1>1, AppendQueue
<1>3. \A v \in Worker \ {w} : Asked(v)' = Asked(v)
  BY <1>1, AppendQueue DEF Asked, InFlight
<1> HIDE DEF k
<1>4. Asked(w)' = Asked(w) \cup {k} /\ k \notin Asked(w)
  BY <1>1, <1>2 DEF Asked, InFlight
<1> QED
  BY <1>3, <1>4, CountsAreFinite, FS_AddElement

LEMMA ResultNotCounted ==
  ASSUME CallsInv, NEW w \in Worker, NEW t \in Task,
         toServer' = [toServer EXCEPT ![w] = Append(@, Result(t))]
  PROVE  \A v \in Worker : Asked(v)' = Asked(v)
<1>1. Result(t) \in Message /\ Result(t).cmd # "CMD_REQUEST_FOR_DATA"
  BY DEF Message, Result
<1>2. \A v \in Worker \ {w} : Asked(v)' = Asked(v)
  BY <1>1, AppendQueue DEF Asked, InFlight
<1>3. Asked(w)' = Asked(w)
  BY <1>1, AppendQueue DEF Asked, InFlight
<1> QED
  BY <1>2, <1>3

LEMMA ReadCounted ==
  ASSUME CallsInv, Assigned, NEW w \in Worker, toServer[w] # <<>>,
         toServer' = [toServer EXCEPT ![w] = Tail(@)]
  PROVE  /\ \A v \in Worker \ {w} : Asked(v)' = Asked(v)
         /\ Head(toServer[w]).cmd = "CMD_REQUEST_FOR_DATA" =>
              Cardinality(Asked(w)') = Cardinality(Asked(w)) - 1
         /\ Head(toServer[w]).cmd = "CMD_RESULT" =>
              Cardinality(Asked(w)') = Cardinality(Asked(w))
<1>1. \A v \in Worker \ {w} : Asked(v)' = Asked(v)
  BY TailQueue DEF Asked, InFlight
<1>2. Head(toServer[w]).cmd = "CMD_REQUEST_FOR_DATA" <=> 1 \in Asked(w)
  BY TailQueue DEF Asked, InFlight
<1>3. Cardinality(Asked(w)') = Cardinality(Asked(w) \ {1})
  <2> DEFINE f == [i \in Asked(w) \ {1} |-> i - 1]
  <2>1. \A i \in Asked(w)' : i \in Int /\ i + 1 \in Asked(w) \ {1}
    BY TailQueue DEF Asked, InFlight
  <2>2. \A i \in Asked(w) \ {1} : i \in Int /\ i - 1 \in Asked(w)'
    <3>1. toServer[w] \in Seq(Message)
      BY DEF CallsInv
    <3>2. \A i \in DOMAIN toServer[w] : i \in Int
      BY <3>1
    <3> QED
      BY <3>2, TailQueue DEF Asked, InFlight
  <2>3. f \in [Asked(w) \ {1} -> Asked(w)']
    BY <2>2
  <2>4. \A i, j \in Asked(w) \ {1} : f[i] = f[j] => i = j
    BY <2>2
  <2>5. \A j \in Asked(w)' : \E i \in Asked(w) \ {1} : f[i] = j
    BY <2>1
  <2>6. ExistsBijection(Asked(w) \ {1}, Asked(w)')
    BY <2>3, <2>4, <2>5 DEF ExistsBijection, Bijection, Injection, Surjection, IsInjective
  <2>7. IsFiniteSet(Asked(w) \ {1})
    BY CountsAreFinite, FS_Subset
  <2> QED
    BY <2>6, <2>7, FS_Bijection
<1>4. CASE 1 \in Asked(w)
  BY <1>1, <1>2, <1>3, <1>4, CountsAreFinite, FS_RemoveElement
<1>5. CASE 1 \notin Asked(w)
  <2>1. Asked(w) \ {1} = Asked(w)
    BY <1>5
  <2> QED
    BY <1>1, <1>2, <1>3, <1>5, <2>1
<1> QED
  BY <1>4, <1>5

-----------------------------------------------------------------------------
(* Every step keeps the credits                                            *)

LEMMA CreditIsNat ==
  ASSUME CallsInv, Assigned, Credits, NEW w \in Worker
  PROVE  Credit(w) \in Nat
  BY CountsAreFinite, ClusterAssumption DEF Credits, Credit

LEMMA SameCredit ==
  ASSUME NEW w, Asked(w)' = Asked(w), Owed(w)' = Owed(w), unrequested'[w] = unrequested[w]
  PROVE  Credit(w)' = Credit(w)
  BY DEF Credit

\* A step after which w has asked for and owes as much as before, if it is
\* sound for the other workers.
LEMMA SameCredits ==
  ASSUME Credits, UNCHANGED <<requested, unrequested, toServer, atWorker>>,
         \A c \in Cell : socketFd'[c] \in {socketFd[c], NoFd},
         Unaccepted' \subseteq Unaccepted
  PROVE  Credits'
<1>1. \A w \in Worker : Credit(w)' = Credit(w)
  BY DEF Credit, Asked, Owed, InFlight, TasksInFlight
<1>2. \A w \in Unaccepted' : w \in Unaccepted /\ w \in Worker
  BY DEF Unaccepted
<1> QED
  BY <1>1, <1>2, ClusterAssumption DEF Credits

LEMMA SendKeepsCredits ==
  ASSUME CallsInv, Assigned, Credits, NEW w \in Worker,
         SendRequest(w) \/ \E t \in Task : SendResult(w, t)
  PROVE  Credits'
<1>1. UNCHANGED <<socketFd, requested, sock, backlog>>
  BY DEF SendRequest, SendResult, connVars
<1>2. /\ Credit(w)' = Credit(w)
      /\ \A v \in Worker \ {w} : Credit(v)' = Credit(v)
      /\ unrequested' \in [Worker -> 0 .. Threads]
  <2>1. CASE SendRequest(w)
    <3>1. /\ unrequested' = [unrequested EXCEPT ![w] = @ - 1] /\ unrequested[w] > 0
          /\ toServer' = [toServer EXCEPT ![w] = Append(@, Request)]
          /\ atWorker' = atWorker
      BY <2>1 DEF SendRequest
    <3>2. /\ unrequested'[w] = unrequested[w] - 1
          /\ unrequested[w] \in Nat
          /\ \A v \in Worker \ {w} : unrequested'[v] = unrequested[v]
          /\ unrequested' \in [Worker -> 0 .. Threads]
      BY <3>1, ClusterAssumption DEF Credits
    <3>3. \A v \in Worker : Owed(v)' = Owed(v)
      BY <3>1, RequestQueued DEF Owed
    <3>4. /\ Cardinality(Asked(w)') = Cardinality(Asked(w)) + 1
          /\ \A v \in Worker \ {w} : Asked(v)' = Asked(v)
      BY <3>1, RequestCounted
    <3>5. Credit(w)' = Credit(w)
      BY <3>2, <3>3, <3>4, CountsAreFinite DEF Credit
    <3> QED
      BY <3>2, <3>3, <3>4, <3>5, SameCredit
  <2>2. ASSUME NEW t \in Task, SendResult(w, t)
        PROVE  /\ \A v \in Worker : Credit(v)' = Credit(v)
               /\ unrequested' \in [Worker -> 0 .. Threads]
    <3>1. /\ t \in atWorker[w] /\ unrequested' = unrequested
          /\ atWorker' = [atWorker EXCEPT ![w] = @ \ {t}]
          /\ toServer' = [toServer EXCEPT ![w] = Append(@, Result(t))]
      BY <2>2 DEF SendResult
    <3>2. /\ TasksInFlight(w)' = TasksInFlight(w) \cup {t}
          /\ \A v \in Worker \ {w} : TasksInFlight(v)' = TasksInFlight(v)
      BY <3>1, ResultQueued, SameQueue
    <3>3. /\ atWorker'[w] = atWorker[w] \ {t}
          /\ \A v \in Worker \ {w} : atWorker'[v] = atWorker[v]
      BY <3>1 DEF Assigned
    <3>4. Owed(w)' = Owed(w) /\ \A v \in Worker \ {w} : Owed(v)' = Owed(v)
      BY <3>1, <3>2, <3>3 DEF Owed
    <3>5. \A v \in Worker : Asked(v)' = Asked(v)
      BY <3>1, ResultNotCounted
    <3> QED
      BY <3>1, <3>4, <3>5, SameCredit DEF Credits
  <2> QED
    BY <2>1, <2>2
<1>3. \A v \in Unaccepted' : v \in Unaccepted /\ v \in Worker
  BY <1>1 DEF Unaccepted
<1> QED
  BY <1>1, <1>2, <1>3 DEF Credits

LEMMA AcceptKeepsCredits ==
  ASSUME CallsInv, Connections, Assigned, Credits,
         NEW w \in Worker, NEW c \in Cell, AcceptConnection(w, c)
  PROVE  Credits'
<1>1. /\ w \in backlog /\ backlog' = backlog \ {w}
      /\ socketFd' = [socketFd EXCEPT ![c] = w]
      /\ requested' = [requested EXCEPT ![c] = 0]
      /\ UNCHANGED <<sock, toServer, atWorker, unrequested>>
  BY DEF AcceptConnection
<1>2. /\ socketFd'[c] = w /\ requested'[c] = 0
      /\ \A d \in Cell \ {c} : socketFd'[d] = socketFd[d] /\ requested'[d] = requested[d]
      /\ requested' \in [Cell -> 0 .. Threads]
  BY <1>1, ClusterAssumption DEF CallsInv, Credits
<1>3. \A v \in Worker : Credit(v)' = Credit(v)
  BY <1>1 DEF Credit, Asked, Owed, InFlight, TasksInFlight
<1>4. /\ w \in Unaccepted
      /\ \A v \in Unaccepted' : v \in Unaccepted /\ v \in Worker
  BY <1>1 DEF Unaccepted
<1>5. Credit(w) = Threads
  BY <1>4 DEF Credits
<1>6. ASSUME NEW d \in Cell, NEW v \in Worker, socketFd'[d] = v
      PROVE  Credit(v)' + requested'[d] = Threads
  BY <1>2, <1>3, <1>5, <1>6, ClusterAssumption DEF Credits
<1> QED
  BY <1>1, <1>2, <1>3, <1>4, <1>6 DEF Credits

\* One request of cell c is counted or answered, and w's credit moves by as
\* much the other way.
LEMMA MovedCredit ==
  ASSUME CallsInv, Connections, Assigned, Credits,
         NEW c \in Cell, NEW w \in Worker, socketFd[c] = w, NEW d \in {-1, 1},
         requested' = [requested EXCEPT ![c] = requested[c] + d], requested[c] + d \in Nat,
         Credit(w)' = Credit(w) - d, Credit(w) - d \in Nat,
         \A v \in Worker \ {w} : Credit(v)' = Credit(v),
         UNCHANGED <<socketFd, unrequested, sock, backlog>>
  PROVE  Credits'
<1>1. /\ requested'[c] = requested[c] + d
      /\ \A b \in Cell \ {c} : requested'[b] = requested[b]
  BY DEF Credits
<1>2. Credit(w) + requested[c] = Threads
  BY DEF Credits
<1>3. Credit(w)' + requested'[c] = Threads
  BY <1>1, <1>2, CreditIsNat DEF Credits
<1>4. requested' \in [Cell -> 0 .. Threads]
  <2>1. requested[c] + d \in 0 .. Threads
    BY <1>2, CreditIsNat, ClusterAssumption DEF Credits
  <2> QED
    BY <2>1 DEF Credits
<1>5. \A b \in Cell \ {c} : socketFd[b] # w
  BY ClusterAssumption DEF Connections, OpenCells
<1>6. \A v \in Unaccepted' : v \in Unaccepted /\ v \in Worker /\ v # w
  BY ClusterAssumption DEF Unaccepted, Connections, OpenCells
<1>7. ASSUME NEW b \in Cell, NEW v \in Worker, socketFd'[b] = v
      PROVE  Credit(v)' + requested'[b] = Threads
  <2>1. CASE b = c
    BY <1>3, <1>7, <2>1
  <2>2. CASE b # c
    BY <1>1, <1>5, <1>7, <2>2 DEF Credits
  <2> QED
    BY <2>1, <2>2
<1> QED
  BY <1>4, <1>6, <1>7 DEF Credits

LEMMA ReceiveKeepsCredits ==
  ASSUME PoolIInv, CallsInv, Connections, Assigned, Assigned', Credits,
         NEW e \in batch, NEW c \in Cell, ReceiveRequest(e, c) \/ ReceiveResult(e, c)
  PROVE  Credits'
<1>1. PICK w \in Worker : w = e.fd
  BY EventOfCell DEF ReceiveRequest, ReceiveResult, Receive
<1>2. /\ socketFd[c] = w /\ toServer[w] # <<>>
      /\ toServer' = [toServer EXCEPT ![w] = Tail(@)]
      /\ UNCHANGED <<sock, backlog, atWorker, unrequested>>
  BY <1>1 DEF ReceiveRequest, ReceiveResult, Receive
<1>3. AgreeOn(c, w)
  BY <1>2 DEF Assigned
<1>4. CountRequest(c)
  <2>1. ASSUME ReceiveResult(e, c), ~CountRequest(c) PROVE FALSE
    <3>1. pc' = "bug_unknown_result"
      BY <2>1 DEF ReceiveResult
    <3> QED
      BY <3>1 DEF Assigned, NoUnknownResult
  <2> QED
    BY <2>1 DEF ReceiveRequest
<1>5. /\ requested' = [requested EXCEPT ![c] = requested[c] + 1]
      /\ UNCHANGED socketFd
      /\ requested[c] + 1 \in Nat
  BY <1>4, ClusterAssumption DEF CountRequest, OneMore, Credits
<1>6. \A v \in Worker \ {w} : Credit(v)' = Credit(v)
  <2>1. \A v \in Worker \ {w} : toServer'[v] = toServer[v]
    BY <1>2, TailQueue
  <2> QED
    BY <1>2, <2>1 DEF Credit, Asked, Owed, InFlight, TasksInFlight
<1>7. Credit(w)' = Credit(w) - 1 /\ Credit(w) - 1 \in Nat
  <2>1. CASE ReceiveRequest(e, c)
    <3>1. Head(toServer[w]).cmd = "CMD_REQUEST_FOR_DATA"
      BY <1>1, <2>1 DEF ReceiveRequest
    <3>2. 1 \in Asked(w)
      BY <1>2, <3>1, TailQueue DEF Asked, InFlight
    <3>3. /\ Cardinality(Asked(w)') = Cardinality(Asked(w)) - 1
          /\ Cardinality(Asked(w)) - 1 \in Nat
      BY <1>2, <3>1, <3>2, ReadCounted, CountsAreFinite, RemoveOne
    <3>4. Owed(w)' = Owed(w)
      BY <1>2, <1>3, <3>1, MessageRead DEF Owed, AgreeOn
    <3>5. unrequested[w] \in Nat /\ unrequested'[w] = unrequested[w]
      BY <1>2, ClusterAssumption DEF Credits
    <3> QED
      BY <3>3, <3>4, <3>5, CountsAreFinite DEF Credit
  <2>2. CASE ReceiveResult(e, c)
    <3>1. Head(toServer[w]).cmd = "CMD_RESULT"
      BY <1>1, <2>2 DEF ReceiveResult
    <3>2. Cardinality(Asked(w)') = Cardinality(Asked(w))
      BY <1>2, <3>1, ReadCounted
    <3>3. PICK t \in TasksInFlight(w) : TasksInFlight(w)' = TasksInFlight(w) \ {t}
      BY <1>2, <1>3, <3>1, MessageRead DEF AgreeOn
    <3>4. Owed(w)' = Owed(w) \ {t} /\ t \in Owed(w)
      BY <1>2, <1>3, <3>3 DEF Owed, AgreeOn
    <3>5. Cardinality(Owed(w)') = Cardinality(Owed(w)) - 1 /\ Cardinality(Owed(w)) - 1 \in Nat
      BY <3>4, CountsAreFinite, RemoveOne
    <3>6. unrequested[w] \in Nat /\ unrequested'[w] = unrequested[w]
      BY <1>2, ClusterAssumption DEF Credits
    <3> QED
      BY <3>2, <3>5, <3>6, CountsAreFinite DEF Credit
  <2> QED
    BY <2>1, <2>2
<1> QED
  BY <1>2, <1>5, <1>6, <1>7, MovedCredit

LEMMA PutKeepsCredits ==
  ASSUME PoolIInv, CallsInv, Connections, Assigned, Credits, NEW w \in Worker, PutTask(w)
  PROVE  Credits'
<1>1. PICK c \in Cell : c = cur
  BY DEF PutTask, Sending, CallsInv
<1>2. /\ nowSending[c] # None /\ socketFd[c] = w /\ requested[c] # 0
      /\ atWorker' = [atWorker EXCEPT ![w] = @ \cup {taskList[c][nowSending[c]]}]
      /\ requested' = [requested EXCEPT ![c] = requested[c] - 1]
      /\ UNCHANGED <<socketFd, sock, backlog, toServer, unrequested>>
  BY <1>1 DEF PutTask, Sending
<1>3. AgreeOn(c, w)
  BY <1>2 DEF Assigned
<1>4. PICK t : t = taskList[c][nowSending[c]]
  OBVIOUS
<1>5. t \notin Owed(w)
  BY <1>2, <1>3, <1>4 DEF AgreeOn, BeingSent, Owed
<1>6. /\ Owed(w)' = Owed(w) \cup {t}
      /\ \A v \in Worker \ {w} : Owed(v)' = Owed(v)
  BY <1>2, <1>4, SameQueue DEF Owed, Assigned
<1>7. \A v \in Worker : Asked(v)' = Asked(v)
  BY <1>2 DEF Asked, InFlight
<1>8. Cardinality(Owed(w)') = Cardinality(Owed(w)) + 1
  BY <1>5, <1>6, CountsAreFinite, FS_AddElement
<1>9. Credit(w)' = Credit(w) + 1 /\ Credit(w) + 1 \in Nat
  BY <1>2, <1>7, <1>8, CountsAreFinite, ClusterAssumption DEF Credit, Credits
<1>10. \A v \in Worker \ {w} : Credit(v)' = Credit(v)
  BY <1>2, <1>6, <1>7, SameCredit
<1>11. requested[c] + (-1) = requested[c] - 1 /\ requested[c] - 1 \in Nat
  BY <1>2, ClusterAssumption DEF Credits
<1>12. Credit(w) - (-1) = Credit(w) + 1
  BY CreditIsNat
<1>13. requested' = [requested EXCEPT ![c] = requested[c] + (-1)]
  BY <1>2, <1>11
<1> QED
  BY <1>2, <1>9, <1>10, <1>11, <1>12, <1>13, MovedCredit

LEMMA CreditsInit == Init => Credits
<1> SUFFICES ASSUME Init PROVE Credits
  OBVIOUS
<1>1. \A w \in Worker : Asked(w) = {} /\ Owed(w) = {}
  BY DEF Init, WorkerInit, Asked, Owed, InFlight, TasksInFlight
<1>2. \A w \in Worker : Cardinality(Asked(w)) = 0 /\ Cardinality(Owed(w)) = 0
  BY <1>1, FS_EmptySet
<1> QED
  BY <1>2, ClusterAssumption DEF Init, ServerInit, WorkerInit, Credits, Credit, Unaccepted

LEMMA CreditsStep ==
  PoolIInv /\ CallsInv /\ Connections /\ Assigned /\ Assigned' /\ Credits /\ [Next]_vars => Credits'
<1> SUFFICES ASSUME PoolIInv, CallsInv, Connections, Assigned, Assigned', Credits, [Next]_vars
             PROVE  Credits'
  OBVIOUS
<1>0. ASSUME NEW c \in Cell PROVE socketFd[c] \in {socketFd[c], NoFd}
  OBVIOUS
<1>1. CASE UNCHANGED vars
  BY <1>1, SameCredits DEF vars, connVars, workerVars, Unaccepted
<1>2. ASSUME NEW w \in Worker, WorkerNext(w) PROVE Credits'
  <2>1. CASE Connect(w) \/ WorkerDies(w)
    <3>1. UNCHANGED <<socketFd, requested, unrequested, toServer, atWorker>>
      BY <2>1 DEF Connect, WorkerDies, connVars
    <3>2. Unaccepted' \subseteq Unaccepted
      BY <2>1 DEF Connect, WorkerDies, Unaccepted, Connections
    <3> QED
      BY <3>1, <3>2, SameCredits
  <2> QED
    BY <1>2, <2>1, SendKeepsCredits DEF WorkerNext
<1>3. CASE EpollWait \/ EndOfBatch \/ StopServer \/ AcceptWithFullTable \/ EndAccept
           \/ PickTaskFails \/ PutTaskOnDeleted \/ EndSend
           \/ (\E t \in Task, s \in Slot : PickTask(t, s))
           \/ \E e \in batch : BeginAccept(e) \/ \E c \in Cell : BeginSend(e, c)
  <2>1. UNCHANGED <<socketFd, requested, unrequested, toServer, atWorker, sock, backlog>>
    BY <1>3 DEF EpollWait, EndOfBatch, StopServer, AcceptWithFullTable, EndAccept, PickTask,
                PickTaskFails, PutTaskOnDeleted, EndSend, BeginAccept, BeginSend,
                connVars, workerVars
  <2> QED
    BY <2>1, SameCredits DEF Unaccepted
<1>4. ASSUME NEW c \in Cell, DropConnection(c), workerVars' = workerVars PROVE Credits'
  <2>1. /\ UNCHANGED <<requested, unrequested, toServer, atWorker, sock, backlog>>
        /\ \A d \in Cell : socketFd'[d] \in {socketFd[d], NoFd}
    BY <1>4 DEF DropConnection, DeleteConnection, CallsInv, workerVars
  <2> QED
    BY <2>1, SameCredits DEF Unaccepted
<1>5. ASSUME NEW e \in batch, NEW c \in Cell, HangUp(e, c) \/ ReceiveBroken(e, c)
      PROVE  Credits'
  BY <1>4, <1>5 DEF HangUp, ReceiveBroken
<1>6. CASE AcceptLoop
  BY <1>3, <1>6, AcceptKeepsCredits DEF AcceptLoop
<1>7. CASE SendLoop
  <2>1. ASSUME NEW w \in Worker, PutTaskBroken(w) PROVE Credits'
    <3>1. cur \in Cell /\ workerVars' = workerVars
      BY <2>1 DEF PutTaskBroken, Sending, CallsInv
    <3>2. CASE UNCHANGED connVars
      BY <3>1, <3>2, SameCredits DEF connVars, workerVars, Unaccepted
    <3> QED
      BY <1>4, <2>1, <3>1, <3>2 DEF PutTaskBroken
  <2> QED
    BY <1>3, <1>7, <2>1, PutKeepsCredits DEF SendLoop
<1> QED
  BY <1>1, <1>2, <1>3, <1>5, <1>6, <1>7, ReceiveKeepsCredits DEF Next, ServerNext, HandleEvent

\* The types of the event loop's own variables.
LoopTypes ==
  /\ canWrite \subseteq Worker
  /\ pc \in {"wait", "dispatch", "accept", "send", "stop"} \cup Exited
  /\ batch \subseteq [fd: Worker \cup {AcceptFd}, in: BOOLEAN, out: BOOLEAN, hup: BOOLEAN]
  /\ cur \in Cell \cup {None}

LEMMA LoopTypesStep == CallsInv /\ LoopTypes /\ [Next]_vars => LoopTypes'
<1> SUFFICES ASSUME CallsInv, LoopTypes, [Next]_vars PROVE LoopTypes'
  OBVIOUS
<1> USE DEF LoopTypes, Exited, Aborted, Failed
<1>1. CASE UNCHANGED vars
  BY <1>1 DEF vars, connVars, loopVars
<1>2. ASSUME NEW w \in Worker, WorkerNext(w) PROVE LoopTypes'
  BY <1>2 DEF WorkerNext, Connect, SendRequest, SendResult, WorkerDies, connVars, loopVars
<1>3. CASE EpollWait
  <2>1. ReadyEvents \subseteq [fd: Worker \cup {AcceptFd}, in: BOOLEAN, out: BOOLEAN, hup: BOOLEAN]
    <3>1. ASSUME NEW w \in Worker
          PROVE  EventOf(w) \in
                   [fd: Worker \cup {AcceptFd}, in: BOOLEAN, out: BOOLEAN, hup: BOOLEAN]
      <4>1. Readable(w) \in BOOLEAN /\ (w \in canWrite) \in BOOLEAN /\ (sock[w] = "reset") \in BOOLEAN
        BY DEF Readable
      <4> QED
        BY <4>1 DEF EventOf
    <3>2. AcceptEvent \in
            [fd: Worker \cup {AcceptFd}, in: BOOLEAN, out: BOOLEAN, hup: BOOLEAN]
      BY DEF AcceptEvent
    <3> QED
      BY <3>1, <3>2 DEF ReadyEvents
  <2> QED
    BY <1>3, <2>1 DEF EpollWait, connVars
<1>4. CASE EndOfBatch \/ StopServer
  BY <1>4 DEF EndOfBatch, StopServer, connVars
<1>5. CASE AcceptLoop
  BY <1>5 DEF AcceptLoop, AcceptConnection, AcceptWithFullTable, EndAccept, connVars, loopVars
<1>6. CASE SendLoop
  BY <1>6 DEF SendLoop, PickTask, PickTaskFails, PutTask, PutTaskBroken, PutTaskOnDeleted,
              EndSend, Sending, DropConnection, DeleteConnection, connVars, loopVars
<1>7. ASSUME NEW e \in batch, BeginAccept(e) \/ \E c \in Cell : BeginSend(e, c)
      PROVE  LoopTypes'
  BY <1>7 DEF BeginAccept, BeginSend, connVars
<1>8. ASSUME NEW e \in batch, NEW c \in Cell, HangUp(e, c) \/ ReceiveBroken(e, c)
      PROVE  LoopTypes'
  BY <1>8 DEF HangUp, ReceiveBroken, Receive, DropConnection, DeleteConnection
<1>9. ASSUME NEW e \in batch, NEW c \in Cell, ReceiveRequest(e, c) \/ ReceiveResult(e, c)
      PROVE  LoopTypes'
  <2>1. socketFd[c] \in Worker
    BY <1>9, EventOfCell DEF ReceiveRequest, ReceiveResult, Receive
  <2>2. canWrite' \subseteq Worker
    BY <1>9, <2>1 DEF ReceiveRequest, ReceiveResult, CountRequest, connVars
  <2>3. /\ batch' \subseteq batch
        /\ cur' \in {c, cur} /\ pc' \in {"send", "dispatch", "bug_unknown_result"}
    BY <1>9 DEF ReceiveRequest, ReceiveResult, Receive, AfterReceive
  <2> QED
    BY <2>2, <2>3
<1> QED
  BY <1>1, <1>2, <1>3, <1>4, <1>5, <1>6, <1>7, <1>8, <1>9 DEF Next, ServerNext, HandleEvent

-----------------------------------------------------------------------------
(* Theorems                                                                *)

LEMMA CreditsInvariant == Spec => [](PoolIInv /\ Assigned /\ Credits /\ LoopTypes)
<1>1. Spec => []PoolIInv
  BY ServerUsesPool, PoolInvariant, PTL
<1>2. Init => LoopTypes
  BY DEF Init, ServerInit, LoopTypes
<1> QED
  BY <1>1, <1>2, ConnectionsInvariant, AssignedInvariant, CreditsInit, CreditsStep,
     LoopTypesStep, PTL DEF Spec

\* Each thread of a connected worker is accounted for once: no request is
\* lost or counted twice, by the worker, the wire, the server or a task.
THEOREM RequestsAreConserved == Spec => []CreditsConserved
<1>1. CallsInv /\ Assigned /\ Credits => CreditsConserved
  <2> SUFFICES ASSUME CallsInv, Assigned, Credits,
                      NEW c \in OpenCells, NEW w \in Worker, w = socketFd[c]
               PROVE  unrequested[w] + Cardinality(Asked(w)) + requested[c]
                        + Cardinality(Held(c) \ BeingSent(c)) = Threads
    BY DEF CreditsConserved, Asked, CallsInv, OpenCells
  <2>1. AgreeOn(c, w) /\ c \in Cell
    BY DEF Assigned, OpenCells
  <2>2. Held(c) \ BeingSent(c) = Owed(w)
    BY <2>1 DEF AgreeOn, Owed
  <2>3. Credit(w) + requested[c] = Threads
    BY <2>1 DEF Credits
  <2>4. unrequested[w] \in Nat /\ requested[c] \in Nat
    BY <2>1, ClusterAssumption DEF Credits
  <2>5. Cardinality(Held(c) \ BeingSent(c)) = Cardinality(Owed(w))
    BY <2>2
  <2>6. Cardinality(Asked(w)) \in Nat /\ Cardinality(Owed(w)) \in Nat
    BY CountsAreFinite
  <2>7. unrequested[w] + Cardinality(Asked(w)) + Cardinality(Owed(w)) + requested[c] = Threads
    BY <2>3 DEF Credit
  <2> QED
    BY <2>4, <2>5, <2>6, <2>7
<1> QED
  BY <1>1, ConnectionsInvariant, CreditsInvariant, PTL

\* Every variable of the server and its workers keeps its type; that
\* requested_tasks never exceeds the threads of the worker rests on the
\* credits.
THEOREM ServerTypeCorrect == Spec => []TypeOK
<1>1. PoolIInv /\ CallsInv /\ Connections /\ Assigned /\ Credits /\ LoopTypes => TypeOK
  <2> SUFFICES ASSUME PoolIInv, CallsInv, Connections, Assigned, Credits, LoopTypes
               PROVE  TypeOK
    OBVIOUS
  <2>1. numClients \in 0 .. MaxClients
    <3>1. Cardinality(OpenCells) <= MaxClients
      BY CellsAreFinite, FS_Subset DEF OpenCells
    <3> QED
      BY <3>1, CellsAreFinite, SizesAssumption DEF Connections
  <2> QED
    BY <2>1 DEF TypeOK, PoolIInv, CallsInv, Connections, Assigned, Credits, LoopTypes
<1> QED
  BY <1>1, ConnectionsInvariant, CreditsInvariant, PTL

-----------------------------------------------------------------------------
(* The ends of the process                                                 *)

SomeReset == \E w \in Worker : sock[w] = "reset"

\* An event with EPOLLHUP, and a send loop whose connection is gone, are there
\* only if a worker was reset.
Resets ==
  /\ \A e \in batch : e.hup => SomeReset
  /\ pc = "send" /\ socketFd[cur] = NoFd => SomeReset

\* A worker that was reset stays so.
LEMMA ResetForGood == Connections /\ [Next]_vars /\ SomeReset => SomeReset'
<1> SUFFICES ASSUME Connections, [Next]_vars, NEW w \in Worker, sock[w] = "reset"
             PROVE  sock'[w] = "reset"
  BY DEF SomeReset
<1>1. CASE UNCHANGED sock
  BY <1>1
<1>2. ASSUME NEW v \in Worker, sock[v] # "reset",
             \E x \in {"open", "fin", "reset"} : sock' = [sock EXCEPT ![v] = x]
      PROVE  sock'[w] = "reset"
  BY <1>2 DEF Connections
<1>3. ASSUME NEW v \in Worker, WorkerNext(v) PROVE sock'[w] = "reset"
  BY <1>1, <1>2, <1>3 DEF WorkerNext, Connect, SendRequest, SendResult, WorkerDies
<1>4. CASE ServerNext \/ UNCHANGED vars
  <2>1. UNCHANGED sock
    BY <1>4 DEF ServerNext, HandleEvent, AcceptLoop, SendLoop, EpollWait, BeginAccept, HangUp,
                ReceiveRequest, ReceiveResult, ReceiveBroken, BeginSend, AcceptConnection,
                AcceptWithFullTable, EndAccept, PickTask, PickTaskFails, PutTask, PutTaskBroken,
                PutTaskOnDeleted, EndSend, EndOfBatch, StopServer, vars, workerVars
  <2> QED
    BY <1>1, <2>1
<1> QED
  BY <1>3, <1>4 DEF Next

LEMMA ResetsStep == CallsInv /\ Connections /\ Resets /\ [Next]_vars => Resets'
<1> SUFFICES ASSUME CallsInv, Connections, Resets, [Next]_vars PROVE Resets'
  OBVIOUS
<1>1. SomeReset => SomeReset'
  BY ResetForGood
<1>2. CASE ~SomeReset
  <2>1. CASE EpollWait
    <3>1. \A e \in ReadyEvents : ~e.hup
      <4>1. \A w \in Worker : ~EventOf(w).hup
        BY <1>2 DEF EventOf, SomeReset
      <4>2. ~AcceptEvent.hup
        BY DEF AcceptEvent
      <4> QED
        BY <4>1, <4>2 DEF ReadyEvents
    <3>2. batch' \subseteq ReadyEvents /\ pc' = "dispatch"
      BY <2>1 DEF EpollWait
    <3> QED
      BY <3>1, <3>2 DEF Resets
  <2>2. ASSUME batch' \subseteq batch,
               pc' = "send" => (pc = "send" /\ cur' = cur /\ UNCHANGED socketFd)
                                 \/ socketFd'[cur'] # NoFd
        PROVE  Resets'
    BY <1>2, <2>2 DEF Resets
  <2>3. CASE UNCHANGED vars
    BY <2>2, <2>3 DEF vars, connVars, loopVars
  <2>4. ASSUME NEW w \in Worker, WorkerNext(w) PROVE Resets'
    BY <2>2, <2>4 DEF WorkerNext, Connect, SendRequest, SendResult, WorkerDies, connVars, loopVars
  <2>5. CASE EndOfBatch \/ StopServer \/ AcceptWithFullTable \/ EndAccept \/ PickTaskFails
             \/ PutTaskOnDeleted \/ EndSend
             \/ (\E e \in batch : BeginAccept(e) \/ \E c \in Cell : HangUp(e, c) \/ ReceiveBroken(e, c))
    <3>1. batch' \subseteq batch /\ pc' # "send"
      BY <2>5 DEF EndOfBatch, StopServer, AcceptWithFullTable, EndAccept, PickTaskFails,
                  PutTaskOnDeleted, EndSend, BeginAccept, HangUp, ReceiveBroken, Receive
    <3> QED
      BY <2>2, <3>1
  <2>6. ASSUME NEW w \in Worker, NEW c \in Cell, AcceptConnection(w, c) PROVE Resets'
    BY <2>2, <2>6 DEF AcceptConnection, loopVars
  <2>7. ASSUME NEW e \in batch, NEW c \in Cell,
               BeginSend(e, c) \/ ReceiveRequest(e, c) \/ ReceiveResult(e, c)
        PROVE  Resets'
    <3>1. /\ batch' \subseteq batch /\ UNCHANGED socketFd /\ socketFd[c] = e.fd
          /\ pc' = "send" => cur' = c
      BY <2>7 DEF BeginSend, ReceiveRequest, ReceiveResult, Receive, CountRequest, AfterReceive,
                  connVars
    <3>2. socketFd[c] # NoFd
      BY <3>1, EventOfCell, ClusterAssumption
    <3> QED
      BY <2>2, <3>1, <3>2
  <2>8. CASE (\E w \in Worker : PutTask(w)) \/ \E t \in Task, s \in Slot : PickTask(t, s)
    BY <2>2, <2>8 DEF PutTask, PickTask, loopVars
  <2>9. ASSUME NEW w \in Worker PROVE ~PutTaskBroken(w)
    BY <1>2 DEF PutTaskBroken, SomeReset
  <2> QED
    BY <2>1, <2>3, <2>4, <2>5, <2>6, <2>7, <2>8, <2>9
       DEF Next, ServerNext, HandleEvent, AcceptLoop, SendLoop
<1>3. CASE SomeReset
  BY <1>1, <1>3 DEF Resets
<1> QED
  BY <1>2, <1>3

\* A worker with no more threads than its list has places always leaves one
\* for the task it has asked for.
LEMMA FullListExplained ==
  ASSUME PoolIInv, CallsInv, Assigned, Credits, Sending, nowSending[cur] = None,
         FreeSlots(cur) = {}
  PROVE  Threads > MaxTasksPerClient
<1>1. PICK w \in Worker : socketFd[cur] = w /\ cur \in Cell /\ requested[cur] # 0
  BY DEF Sending, CallsInv, Assigned
<1>2. Held(cur) = Owed(w)
  <2>1. AgreeOn(cur, w) /\ BeingSent(cur) = {}
    BY <1>1 DEF Assigned, BeingSent
  <2> QED
    BY <2>1 DEF AgreeOn, Owed
<1>3. Cardinality(Held(cur)) = MaxTasksPerClient
  <2>1. UsedSlots(cur) = Slot
    BY DEF FreeSlots, UsedSlots
  <2>2. Cardinality(Slot) = MaxTasksPerClient
    BY FS_Interval, SizesAssumption DEF Slot
  <2> QED
    BY <1>1, <2>1, <2>2, HeldMatchesUsedSlots DEF NumDropped, PoolIInv, PoolInv
<1>4. Credit(w) + requested[cur] = Threads
  BY <1>1 DEF Credits
<1>5. /\ unrequested[w] \in Nat /\ requested[cur] \in Nat \ {0}
      /\ Cardinality(Asked(w)) \in Nat /\ Cardinality(Owed(w)) \in Nat
  BY <1>1, CountsAreFinite, ClusterAssumption DEF Credits
<1>6. Cardinality(Owed(w)) < Threads
  BY <1>4, <1>5, ClusterAssumption DEF Credit
<1> QED
  BY <1>2, <1>3, <1>6, SizesAssumption

LEMMA EndsInit == Init => EndsAreExplained /\ Resets
  BY DEF Init, ServerInit, EndsAreExplained, NoUnknownResult, Resets

\* A step after which the process has not ended, or has returned.
LEMMA NoEnd ==
  ASSUME pc' \notin Aborted \cup Failed \cup {"no_workers"}
  PROVE  EndsAreExplained'
  BY DEF EndsAreExplained, NoUnknownResult, Aborted, Failed

LEMMA EndsStep ==
  /\ PoolIInv /\ CallsInv /\ Connections /\ Assigned /\ Assigned' /\ Credits /\ LoopTypes /\ Resets
  /\ EndsAreExplained /\ [Next]_vars
  => EndsAreExplained'
<1> SUFFICES ASSUME PoolIInv, CallsInv, Connections, Assigned, Assigned', Credits, LoopTypes,
                    Resets, EndsAreExplained, [Next]_vars
             PROVE  EndsAreExplained'
  OBVIOUS
<1> USE DEF Aborted, Failed
<1>0. Connections'
  BY ConnectionsStep
<1>1. CASE UNCHANGED vars
  BY <1>1 DEF vars, poolVars, connVars, loopVars, workerVars, EndsAreExplained, NoUnknownResult,
              OpenCells
<1>2. ASSUME NEW w \in Worker, WorkerNext(w) PROVE EndsAreExplained'
  <2>1. pc' = pc /\ Running
    BY <1>2 DEF WorkerNext, Connect, SendRequest, SendResult, WorkerDies, loopVars
  <2> QED
    BY <2>1, NoEnd DEF Running, Exited
<1>3. CASE EpollWait \/ EndOfBatch \/ EndAccept \/ EndSend
  BY <1>3, NoEnd DEF EpollWait, EndOfBatch, EndAccept, EndSend
<1>4. CASE StopServer
  <2>1. ASSUME NEW c \in OpenCells, sock[socketFd[c]] = "reset"
        PROVE  \E w \in Worker : sock'[w] = "reset"
    BY <1>4, <2>1 DEF StopServer, workerVars, CallsInv, OpenCells
  <2> QED
    BY <1>4, <2>1 DEF StopServer, EndsAreExplained, NoUnknownResult
<1>5. CASE AcceptWithFullTable
  <2>1. ~acceptArmed
    BY <1>5, CellsAreFinite, SizesAssumption DEF AcceptWithFullTable, Connections
  <2> QED
    BY <1>5, <2>1 DEF AcceptWithFullTable, EndsAreExplained, NoUnknownResult, OpenCells,
                      connVars, workerVars
<1>6. ASSUME NEW w \in Worker, NEW c \in Cell, AcceptConnection(w, c) PROVE EndsAreExplained'
  BY <1>6, NoEnd DEF AcceptConnection, loopVars
<1>7. ASSUME NEW e \in batch, NEW c \in Cell, HangUp(e, c) PROVE EndsAreExplained'
  <2>1. numClients' = 0 => OpenCells' = {}
    <3>1. numClients' = Cardinality(OpenCells') /\ IsFiniteSet(OpenCells')
      <4>1. OpenCells' \subseteq Cell
        BY DEF OpenCells
      <4> QED
        BY <1>0, <4>1, CellsAreFinite, FS_Subset DEF Connections
    <3> QED
      BY <3>1, FS_EmptySet
  <2>2. SomeReset /\ sock' = sock
    BY <1>7 DEF HangUp, Resets, workerVars
  <2> QED
    BY <1>7, <2>1, <2>2 DEF HangUp, EndsAreExplained, NoUnknownResult, SomeReset
<1>8. ASSUME NEW e \in batch,
             \/ BeginAccept(e)
             \/ \E c \in Cell : ReceiveBroken(e, c) \/ BeginSend(e, c) \/ ReceiveRequest(e, c)
      PROVE  EndsAreExplained'
  <2>1. pc' \in {"accept", "dispatch", "send"}
    BY <1>8 DEF BeginAccept, ReceiveBroken, BeginSend, ReceiveRequest, AfterReceive
  <2> QED
    BY <2>1, NoEnd
<1>9. ASSUME NEW e \in batch, NEW c \in Cell, ReceiveResult(e, c) PROVE EndsAreExplained'
  <2>1. pc' \in {"dispatch", "send", "bug_unknown_result"}
    BY <1>9 DEF ReceiveResult, AfterReceive
  <2>2. pc' # "bug_unknown_result"
    BY DEF Assigned, NoUnknownResult
  <2> QED
    BY <2>1, <2>2, NoEnd
<1>10. ASSUME NEW w \in Worker, PutTask(w) \/ \E t \in Task, s \in Slot : PickTask(t, s)
       PROVE  EndsAreExplained'
  BY <1>10, NoEnd DEF PutTask, PickTask, Sending, loopVars
<1>11. CASE \E t \in Task, s \in Slot : PickTask(t, s)
  BY <1>11, NoEnd DEF PickTask, Sending, loopVars
<1>12. CASE PickTaskFails
  <2>1. cur \in OpenCells /\ requested[cur] # 0
    BY <1>12 DEF PickTaskFails, Sending, Assigned, CallsInv, OpenCells
  <2>2. Candidates = {} => numNotResolved = 0
    BY FS_EmptySet DEF PoolIInv, PoolInv, CountersAgree, ScanMissesNothing
  <2>3. FreeSlots(cur) = {} => Threads > MaxTasksPerClient
    BY <1>12, FullListExplained DEF PickTaskFails
  <2> QED
    BY <1>12, <2>1, <2>2, <2>3 DEF PickTaskFails, EndsAreExplained, NoUnknownResult, OpenCells,
                                   poolVars, connVars
<1>13. CASE (\E w \in Worker : PutTaskBroken(w)) \/ PutTaskOnDeleted
  <2>1. SomeReset /\ sock' = sock /\ pc' \in {"send", "fault", "bug_send"}
    BY <1>13 DEF PutTaskBroken, PutTaskOnDeleted, Sending, Resets, SomeReset, workerVars
  <2> QED
    BY <2>1 DEF EndsAreExplained, NoUnknownResult, SomeReset
<1> QED
  BY <1>1, <1>2, <1>3, <1>4, <1>5, <1>6, <1>7, <1>8, <1>9, <1>10, <1>11, <1>12, <1>13
     DEF Next, ServerNext, HandleEvent, AcceptLoop, SendLoop

\* The process of the server ends in the ways known only: the memory faults and
\* failed calls need a worker that was reset (cluster-server.c:570, 745, 258), a
\* full task list (653) one with too many threads, and a failed epoll_ctl()
\* (440) a connection to a full table; two of the BUG_ONs never fire.
THEOREM ServerEndsAreExplained == Spec => []EndsAreExplained
  BY ConnectionsInvariant, CreditsInvariant, EndsInit, ResetsStep, EndsStep, PTL DEF Spec

\* With lists as long as the workers have threads, a cell for every worker and
\* no deaths, compute_task() returns, or a request that finds no task left
\* (cluster-server.c:641) ends it; nothing else does.
THEOREM QuietServerReturns ==
  ASSUME Threads <= MaxTasksPerClient, Cardinality(Worker) <= MaxClients
  PROVE  Spec => [](NoDeaths => Running \/ pc \in {"returned", "bug_greedy"})
<1>1. CallsInv /\ Connections /\ LoopTypes /\ EndsAreExplained
        => (NoDeaths => Running \/ pc \in {"returned", "bug_greedy"})
  <2> SUFFICES ASSUME CallsInv, Connections, LoopTypes, EndsAreExplained, NoDeaths, ~Running
               PROVE  pc \in {"returned", "bug_greedy"}
    OBVIOUS
  <2>1. \A w \in Worker : sock[w] # "reset"
    BY DEF NoDeaths, Gone
  <2>2. pc # "bug_no_room"
    BY SizesAssumption, ClusterAssumption DEF EndsAreExplained
  <2>3. pc # "err_pause"
    <3> SUFFICES ASSUME OpenCells = Cell, NEW w \in backlog PROVE FALSE
      BY DEF EndsAreExplained
    <3> DEFINE Accepted == {socketFd[c] : c \in Cell}
               f == [c \in Cell |-> socketFd[c]]
    <3>1. Accepted \subseteq Worker \ {w} /\ w \in Worker
      BY DEF CallsInv, Connections, OpenCells
    <3>2. f \in Bijection(Cell, Accepted)
      <4>1. f \in [Cell -> Accepted] /\ \A v \in Accepted : \E c \in Cell : f[c] = v
        OBVIOUS
      <4>2. \A c, d \in Cell : f[c] = f[d] => c = d
        BY DEF Connections
      <4> QED
        BY <4>1, <4>2 DEF Bijection, Injection, Surjection, IsInjective
    <3>3. IsFiniteSet(Accepted) /\ Cardinality(Accepted) = MaxClients
      <4>1. ExistsBijection(Cell, Accepted)
        BY <3>2 DEF ExistsBijection
      <4> QED
        BY <4>1, CellsAreFinite, FS_Bijection
    <3>4. /\ IsFiniteSet(Worker \ {w}) /\ Cardinality(Worker) \in Nat
          /\ Cardinality(Worker \ {w}) = Cardinality(Worker) - 1
      BY <3>1, ClusterAssumption, FS_RemoveElement, FS_CardinalityType
    <3>5. Cardinality(Accepted) <= Cardinality(Worker \ {w})
      BY <3>1, <3>4, FS_Subset
    <3> QED
      BY <3>3, <3>4, <3>5, SizesAssumption
  <2> QED
    BY <2>1, <2>2, <2>3 DEF EndsAreExplained, NoUnknownResult, Running, Exited, Aborted, Failed
<1> QED
  BY <1>1, ConnectionsInvariant, CreditsInvariant, ServerEndsAreExplained, PTL

=============================================================================
