------------------------ MODULE ClusterClientProofs ------------------------
(***************************************************************************)
(* Theorems about a worker, for any number of tasks and threads and any    *)
(* size of the event array.                                                *)
(***************************************************************************)
EXTENDS ClusterClient, FiniteSetTheorems, TLAPS

\* The part of TypeOK the proofs use.
Types ==
  /\ empty \subseteq Thread /\ waiting \subseteq Thread /\ running \subseteq Thread
  /\ taskId \in [Thread -> Task \cup {None}]
  /\ input \in [Thread -> Task \cup {None}]
  /\ output \in [Thread -> Task \cup {None}]
  /\ eventFd \in [Thread -> Nat]
  /\ initialRequests \in Nat
  /\ requests \in Nat
  /\ toClient \in Seq(Task)
  /\ unsent \subseteq Task
  /\ results \in Seq([task: Task \cup {None}, value: Task \cup {None}])

\* Where a task is: with the server, on its way, in an entry or answered.
\* It is in one of these places only, and there once.
OnePlace ==
  /\ \A k \in DOMAIN toClient : toClient[k] \notin unsent
  /\ \A k, l \in DOMAIN toClient : toClient[k] = toClient[l] => k = l
  /\ \A i \in Busy : taskId[i] \in Task \ unsent
  /\ \A i, j \in Busy : taskId[i] = taskId[j] => i = j
  /\ \A i \in Busy, k \in DOMAIN toClient : taskId[i] # toClient[k]
  /\ \A r \in DOMAIN results : results[r].task \in Task \ unsent
  /\ \A r, q \in DOMAIN results : results[r].task = results[q].task => r = q
  /\ \A r \in DOMAIN results, k \in DOMAIN toClient : results[r].task # toClient[k]
  /\ \A r \in DOMAIN results, i \in Busy : results[r].task # taskId[i]

\* The buffers of an occupied entry belong to its task.
OwnBuffers ==
  /\ \A i \in Busy : input[i] = taskId[i]
  /\ \A i \in Busy \ running : output[i] = taskId[i]
  /\ \A r \in DOMAIN results : results[r].value = results[r].task

\* Write events are enabled whenever something is to be sent.
WritesEnabled ==
  pc \in {"wait", "dispatch", "read", "mark"} /\ (waiting # {} \/ initialRequests # 0)
    => canWrite

-----------------------------------------------------------------------------
(* Counting threads                                                        *)

LEMMA ThreadsAreFinite == IsFiniteSet(Thread) /\ Cardinality(Thread) = MaxThreads
  BY FS_Interval, ClientAssumption DEF Thread

LEMMA BusyIsFinite ==
  IsFiniteSet(Busy) /\ Cardinality(Busy) \in Nat
<1>1. Busy \subseteq Thread
  BY DEF Busy
<1> QED
  BY <1>1, ThreadsAreFinite, FS_Subset, FS_CardinalityType

LEMMA OccupyOne ==
  ASSUME Types, NEW i \in empty, empty' = empty \ {i}
  PROVE  Cardinality(Busy') = Cardinality(Busy) + 1
<1>1. Busy' = Busy \cup {i} /\ i \notin Busy
  BY DEF Types, Busy
<1> QED
  BY <1>1, BusyIsFinite, FS_AddElement

LEMMA FreeOne ==
  ASSUME Types, NEW i \in Busy, empty' = empty \cup {i}
  PROVE  Cardinality(Busy') = Cardinality(Busy) - 1
<1>1. Busy' = Busy \ {i}
  BY DEF Types, Busy
<1> QED
  BY <1>1, BusyIsFinite, FS_RemoveElement

-----------------------------------------------------------------------------
(* Types                                                                   *)

LEMMA TypesInit == Init => Types
  BY ClientAssumption DEF Init, Types, Thread, Task

LEMMA TypesStep == Types /\ [Next]_vars => Types'
<1> SUFFICES ASSUME Types, [Next]_vars PROVE Types'
  OBVIOUS
<1> USE DEF Types
<1>1. CASE UNCHANGED vars
  BY <1>1 DEF vars, threadVars, serverVars
<1>2. CASE EpollWait \/ EndOfBatch \/ ReceivePart \/ ReceiveBroken \/ SendBroken \/ EndSend
           \/ FreeResources \/ ProcessEnds \/ \E e \in batch : TakeEvent(e)
  BY <1>2 DEF EpollWait, EndOfBatch, ReceivePart, ReceiveBroken, SendBroken, EndSend, FreeResources,
              ProcessEnds, TakeEvent, threadVars, serverVars
<1>3. CASE ReceiveTask
  <2>1. Head(toClient) \in Task /\ Tail(toClient) \in Seq(Task)
    BY <1>3 DEF ReceiveTask
  <2>2. CASE UNCHANGED threadVars
    BY <1>3, <2>1, <2>2 DEF ReceiveTask, threadVars
  <2>3. ASSUME NEW i \in Thread,
               empty' = empty \ {i},
               taskId' = [taskId EXCEPT ![i] = Head(toClient)],
               input' = [input EXCEPT ![i] = Head(toClient)],
               running' = running \cup {i},
               UNCHANGED <<waiting, output, eventFd>>
        PROVE  Types'
    BY <1>3, <2>1, <2>3 DEF ReceiveTask
  <2> QED
    BY <1>3, <2>2, <2>3 DEF ReceiveTask
<1>4. CASE MarkComputations
  <2>1. \A i \in Thread : CounterAfterMark(i) \in Nat
    BY DEF CounterAfterMark
  <2> QED
    BY <1>4, <2>1 DEF MarkComputations, Announced, serverVars
<1>5. ASSUME NEW i \in Thread, SendResult(i) PROVE Types'
  <2>1. [task |-> taskId[i], value |-> output[i]] \in [task: Task \cup {None}, value: Task \cup {None}]
    OBVIOUS
  <2> QED
    BY <1>5, <2>1 DEF SendResult, WaitingAfterSend, EmptyAfterSend
<1>6. CASE SendRequest
  BY <1>6 DEF SendRequest, RequestsLeft, threadVars
<1>7. ASSUME NEW i \in Thread, ThreadFinishes(i) PROVE Types'
  <2>1. output' \in [Thread -> Task \cup {None}] /\ eventFd' \in [Thread -> Nat]
    <3>1. CASE UNCHANGED <<output, eventFd>>
      BY <3>1
    <3>2. CASE /\ output'  = [output EXCEPT ![i] = input[i]]
               /\ eventFd' = [eventFd EXCEPT ![i] = @ + 1]
      BY <3>2
    <3> QED
      BY <1>7, <3>1, <3>2 DEF ThreadFinishes
  <2>2. running' \subseteq Thread
    BY <1>7 DEF ThreadFinishes
  <2> QED
    BY <1>7, <2>1, <2>2 DEF ThreadFinishes, serverVars
<1>8. CASE ServerNext
  <2>1. ASSUME NEW t \in Task, ServerSends(t) PROVE Types'
    <3>1. toClient' \in Seq(Task) /\ requests' \in Nat
      BY <2>1 DEF ServerSends
    <3> QED
      BY <2>1, <3>1 DEF ServerSends, threadVars
  <2> QED
    BY <1>8, <2>1 DEF ServerNext, ServerLeaves, PartArrives, threadVars
<1> QED
  BY <1>1, <1>2, <1>3, <1>4, <1>5, <1>6, <1>7, <1>8 DEF Next, LoopNext

-----------------------------------------------------------------------------
(* The stages of an entry                                                  *)

LEMMA StageInit == Init => OneStage
  BY DEF Init, OneStage, Busy

LEMMA StageStep == Types /\ OneStage /\ [Next]_vars => OneStage'
<1> SUFFICES ASSUME Types, OneStage, [Next]_vars PROVE OneStage'
  OBVIOUS
<1> USE DEF Types, OneStage, Busy
<1>1. CASE UNCHANGED vars
  BY <1>1 DEF vars, threadVars, loopVars
<1>2. CASE EpollWait \/ EndOfBatch \/ ReceivePart \/ ReceiveBroken \/ SendBroken \/ EndSend
           \/ FreeResources \/ ProcessEnds \/ \E e \in batch : TakeEvent(e)
  BY <1>2 DEF EpollWait, EndOfBatch, ReceivePart, ReceiveBroken, SendBroken, EndSend, FreeResources,
              ProcessEnds, TakeEvent, threadVars
<1>3. CASE ReceiveTask
  BY <1>3 DEF ReceiveTask, FreeEntry, IsLeast, threadVars
<1>4. CASE MarkComputations
  BY <1>4 DEF MarkComputations, Announced, CounterAfterMark
<1>5. ASSUME NEW i \in Thread, SendResult(i) PROVE OneStage'
  BY <1>5 DEF SendResult, WaitingAfterSend, EmptyAfterSend, IsLeast, loopVars
<1>6. CASE SendRequest
  BY <1>6 DEF SendRequest, threadVars, loopVars
<1>7. ASSUME NEW i \in Thread, ThreadFinishes(i) PROVE OneStage'
  BY <1>7 DEF ThreadFinishes
<1>8. CASE ServerNext
  BY <1>8 DEF ServerNext, ServerLeaves, PartArrives, ServerSends, threadVars, loopVars
<1> QED
  BY <1>1, <1>2, <1>3, <1>4, <1>5, <1>6, <1>7, <1>8 DEF Next, LoopNext

-----------------------------------------------------------------------------
(* The threads are accounted for                                           *)

LEMMA AccountInit == Init => ThreadsAccounted /\ NoSpareTask
<1> SUFFICES ASSUME Init PROVE ThreadsAccounted /\ NoSpareTask
  OBVIOUS
<1>1. Busy = {} /\ toClient = <<>>
  BY DEF Init, Busy
<1>2. Cardinality(Busy) = 0 /\ Len(toClient) = 0
  BY <1>1, FS_EmptySet
<1> QED
  BY <1>2, ClientAssumption DEF Init, ThreadsAccounted, NoSpareTask

LEMMA AccountStep ==
  Types /\ OneStage /\ ThreadsAccounted /\ NoSpareTask /\ [Next]_vars
    => ThreadsAccounted' /\ NoSpareTask'
<1> SUFFICES ASSUME Types, OneStage, ThreadsAccounted, NoSpareTask, [Next]_vars
             PROVE  ThreadsAccounted' /\ NoSpareTask'
  OBVIOUS
<1> USE DEF ThreadsAccounted, NoSpareTask
<1>0. /\ Cardinality(Busy) \in Nat /\ Len(toClient) \in Nat
      /\ initialRequests \in Nat /\ requests \in Nat
  BY BusyIsFinite DEF Types
<1>1. CASE UNCHANGED vars
  BY <1>1 DEF vars, threadVars, loopVars, serverVars, Busy
<1>2. CASE EpollWait \/ EndOfBatch \/ ReceivePart \/ ReceiveBroken \/ SendBroken \/ EndSend
           \/ FreeResources \/ ProcessEnds \/ \E e \in batch : TakeEvent(e)
  BY <1>2 DEF EpollWait, EndOfBatch, ReceivePart, ReceiveBroken, SendBroken, EndSend, FreeResources,
              ProcessEnds, TakeEvent, AfterEof, threadVars, serverVars, Busy
<1>3. CASE ReceiveTask
  <2>1. Len(toClient) > 0 /\ Len(toClient') = Len(toClient) - 1
    BY <1>3 DEF ReceiveTask, Types
  <2>2. empty # {}
    <3>1. SUFFICES ASSUME empty = {} PROVE FALSE
      OBVIOUS
    <3>2. Busy = Thread
      BY <3>1 DEF Busy
    <3>3. Cardinality(Busy) = MaxThreads
      BY <3>2, ThreadsAreFinite
    <3> QED
      BY <1>0, <2>1, <3>3, ClientAssumption
  <2>3. PICK i \in empty : empty' = empty \ {i} /\ pc' = "mark"
    BY <1>3, <2>2 DEF ReceiveTask, FreeEntry, IsLeast
  <2>4. Cardinality(Busy') = Cardinality(Busy) + 1
    BY <2>3, OccupyOne
  <2>5. UNCHANGED <<initialRequests, requests>>
    BY <1>3 DEF ReceiveTask
  <2> QED
    BY <1>0, <2>1, <2>3, <2>4, <2>5
<1>4. CASE MarkComputations
  BY <1>4 DEF MarkComputations, AfterMark, serverVars, Busy
<1>5. ASSUME NEW i \in Thread, SendResult(i)
      PROVE  ThreadsAccounted' /\ NoSpareTask'
  <2>1. i \in Busy
    BY <1>5 DEF SendResult, IsLeast, OneStage, Busy
  <2>2. Cardinality(Busy') = Cardinality(Busy) - 1
    BY <1>5, <2>1, FreeOne DEF SendResult, EmptyAfterSend
  <2>3. /\ requests' = requests + 1
        /\ UNCHANGED <<pc, initialRequests, toClient>>
    BY <1>5 DEF SendResult, loopVars
  <2> QED
    BY <1>0, <2>2, <2>3
<1>6. CASE SendRequest
  <2>1. /\ UNCHANGED <<pc, toClient, empty>>
        /\ requests' = requests + 1
        /\ initialRequests' = initialRequests - 1
    BY <1>6 DEF SendRequest, RequestsLeft, threadVars, loopVars
  <2>2. Busy' = Busy
    BY <2>1 DEF Busy
  <2> QED
    BY <1>0, <2>1, <2>2
<1>7. ASSUME NEW i \in Thread, ThreadFinishes(i)
      PROVE  ThreadsAccounted' /\ NoSpareTask'
  BY <1>7 DEF ThreadFinishes, serverVars, Busy
<1>8. CASE ServerNext
  <2>1. CASE ServerLeaves \/ PartArrives
    BY <2>1 DEF ServerLeaves, PartArrives, threadVars, loopVars, Busy
  <2>2. ASSUME NEW t \in Task, ServerSends(t)
        PROVE  ThreadsAccounted' /\ NoSpareTask'
    <3>1. Len(toClient') = Len(toClient) + 1
      BY <2>2 DEF ServerSends, Types
    <3>2. /\ UNCHANGED <<pc, initialRequests, empty>>
          /\ requests' = requests - 1
      BY <2>2 DEF ServerSends, threadVars, loopVars
    <3>3. Busy' = Busy
      BY <3>2 DEF Busy
    <3> QED
      BY <1>0, <3>1, <3>2, <3>3
  <2> QED
    BY <1>8, <2>1, <2>2 DEF ServerNext
<1> QED
  BY <1>1, <1>2, <1>3, <1>4, <1>5, <1>6, <1>7, <1>8 DEF Next, LoopNext

-----------------------------------------------------------------------------
(* Every task is in one place                                              *)

LEMMA PlaceInit == Init => OnePlace /\ OwnBuffers
  BY DEF Init, OnePlace, OwnBuffers, Busy

\* A step that leaves tasks, entries and answers where they are.
LEMMA PlaceSame ==
  ASSUME UNCHANGED <<toClient, unsent, empty, taskId, results>>
  PROVE  OnePlace => OnePlace'
  BY DEF OnePlace, Busy

LEMMA BuffersSame ==
  ASSUME UNCHANGED <<empty, running, taskId, input, output, results>>
  PROVE  OwnBuffers => OwnBuffers'
  BY DEF OwnBuffers, Busy

LEMMA HeadFirst ==
  ASSUME NEW s \in Seq(Task), s # <<>>
  PROVE  /\ Head(s) = s[1] /\ 1 \in DOMAIN s
         /\ \A k \in DOMAIN Tail(s) : k + 1 \in DOMAIN s /\ Tail(s)[k] = s[k + 1] /\ k + 1 # 1
  OBVIOUS

LEMMA AppendLast ==
  ASSUME NEW S, NEW s \in Seq(S), NEW x \in S, NEW k \in DOMAIN Append(s, x)
  PROVE  \/ k \in DOMAIN s /\ Append(s, x)[k] = s[k]
         \/ k = Len(s) + 1 /\ k \notin DOMAIN s /\ Append(s, x)[k] = x
  OBVIOUS

LEMMA PlaceStep ==
  Types /\ OneStage /\ OnePlace /\ OwnBuffers /\ [Next]_vars => OnePlace'
<1> SUFFICES ASSUME Types, OneStage, OnePlace, OwnBuffers, [Next]_vars PROVE OnePlace'
  OBVIOUS
<1>1. CASE UNCHANGED vars
  BY <1>1, PlaceSame DEF vars, threadVars, serverVars
<1>2. CASE EpollWait \/ EndOfBatch \/ ReceivePart \/ ReceiveBroken \/ SendBroken \/ EndSend
           \/ FreeResources \/ ProcessEnds \/ \E e \in batch : TakeEvent(e)
  BY <1>2, PlaceSame DEF EpollWait, EndOfBatch, ReceivePart, ReceiveBroken, SendBroken, EndSend,
              FreeResources, ProcessEnds, TakeEvent, threadVars, serverVars
<1>3. CASE ReceiveTask
  <2> DEFINE t == Head(toClient)
  <2>1. /\ toClient \in Seq(Task) /\ toClient # <<>>
        /\ toClient' = Tail(toClient)
        /\ UNCHANGED <<unsent, results>>
    BY <1>3 DEF ReceiveTask, Types
  <2>2. /\ t = toClient[1] /\ 1 \in DOMAIN toClient
        /\ \A k \in DOMAIN toClient' :
             k + 1 \in DOMAIN toClient /\ toClient'[k] = toClient[k + 1] /\ k + 1 # 1
    BY <2>1, HeadFirst
  <2>2a. \A k, l \in DOMAIN toClient' : k + 1 = l + 1 => k = l
    BY <2>1
  <2>3. t \in Task /\ t \notin unsent
    BY <2>1, <2>2 DEF OnePlace
  <2> HIDE DEF t
  <2>4. CASE UNCHANGED threadVars
    BY <2>1, <2>2, <2>2a, <2>4 DEF OnePlace, Busy, threadVars
  <2>5. ASSUME NEW i \in Thread, i \in empty,
               empty' = empty \ {i}, taskId' = [taskId EXCEPT ![i] = t]
        PROVE  OnePlace'
    <3>1. Busy' = Busy \cup {i} /\ i \notin Busy /\ Busy \subseteq Thread
      BY <2>5 DEF Busy
    <3>2. taskId'[i] = t /\ \A j \in Busy : taskId'[j] = taskId[j]
      BY <2>5, <3>1 DEF Types
    <3>3. \A j \in Busy : taskId[j] # t
      BY <2>2 DEF OnePlace
    <3>4. \A r \in DOMAIN results : results[r].task # t
      BY <2>2 DEF OnePlace
    <3>5. \A k \in DOMAIN toClient' : toClient'[k] # t
      BY <2>2 DEF OnePlace
    <3> QED
      BY <2>1, <2>2, <2>2a, <2>3, <3>1, <3>2, <3>3, <3>4, <3>5 DEF OnePlace
  <2> QED
    BY <1>3, <2>4, <2>5 DEF ReceiveTask, FreeEntry, IsLeast, t
<1>4. CASE MarkComputations
  BY <1>4, PlaceSame DEF MarkComputations, serverVars
<1>5. ASSUME NEW i \in Thread, SendResult(i) PROVE OnePlace'
  <2> DEFINE m == [task |-> taskId[i], value |-> output[i]]
             M == [task: Task \cup {None}, value: Task \cup {None}]
  <2>1. results \in Seq(M) /\ m \in M
    BY DEF Types
  <2>2. /\ results' = Append(results, m)
        /\ UNCHANGED <<toClient, unsent, taskId>>
        /\ Busy' = Busy \ {i} /\ i \in Busy
    BY <1>5 DEF SendResult, EmptyAfterSend, IsLeast, OneStage, Busy
  <2>3. \A r \in DOMAIN results' :
          \/ r \in DOMAIN results /\ results'[r] = results[r]
          \/ r = Len(results) + 1 /\ r \notin DOMAIN results /\ results'[r] = m
    BY <2>1, <2>2, AppendLast
  <2>4. m.task = taskId[i]
    OBVIOUS
  <2> HIDE DEF m, M
  <2> QED
    BY <2>2, <2>3, <2>4 DEF OnePlace
<1>6. CASE SendRequest
  BY <1>6, PlaceSame DEF SendRequest, threadVars
<1>7. ASSUME NEW i \in Thread, ThreadFinishes(i) PROVE OnePlace'
  BY <1>7, PlaceSame DEF ThreadFinishes, serverVars
<1>8. CASE ServerNext
  <2>1. CASE ServerLeaves \/ PartArrives
    BY <2>1, PlaceSame DEF ServerLeaves, PartArrives, threadVars
  <2>2. ASSUME NEW t \in Task, ServerSends(t) PROVE OnePlace'
    <3>1. /\ toClient \in Seq(Task)
          /\ toClient' = Append(toClient, t)
          /\ unsent' = unsent \ {t} /\ t \in unsent
          /\ UNCHANGED <<empty, taskId, results>>
      BY <2>2 DEF ServerSends, threadVars, Types
    <3>2. \A k \in DOMAIN toClient' :
            \/ k \in DOMAIN toClient /\ toClient'[k] = toClient[k]
            \/ k = Len(toClient) + 1 /\ k \notin DOMAIN toClient /\ toClient'[k] = t
      BY <3>1, AppendLast
    <3>3. Busy' = Busy
      BY <3>1 DEF Busy
    <3> QED
      BY <3>1, <3>2, <3>3 DEF OnePlace
  <2> QED
    BY <1>8, <2>1, <2>2 DEF ServerNext
<1> QED
  BY <1>1, <1>2, <1>3, <1>4, <1>5, <1>6, <1>7, <1>8 DEF Next, LoopNext

LEMMA BuffersStep ==
  Types /\ OneStage /\ OwnBuffers /\ pc # "use_after_free" /\ [Next]_vars
    => OwnBuffers' \/ (pc' = "use_after_free" /\ UNCHANGED results)
<1> SUFFICES ASSUME Types, OneStage, OwnBuffers, [Next]_vars, pc # "use_after_free"
             PROVE  OwnBuffers' \/ (pc' = "use_after_free" /\ UNCHANGED results)
  OBVIOUS
<1>1. CASE UNCHANGED vars
  BY <1>1, BuffersSame DEF vars, threadVars, serverVars
<1>2. CASE EpollWait \/ EndOfBatch \/ ReceivePart \/ ReceiveBroken \/ SendBroken \/ EndSend
           \/ FreeResources \/ ProcessEnds \/ \E e \in batch : TakeEvent(e)
  BY <1>2, BuffersSame DEF EpollWait, EndOfBatch, ReceivePart, ReceiveBroken, SendBroken, EndSend,
              FreeResources, ProcessEnds, TakeEvent, threadVars, serverVars
<1>3. CASE ReceiveTask
  <2>1. CASE UNCHANGED threadVars
    BY <1>3, <2>1, BuffersSame DEF ReceiveTask, threadVars
  <2>2. ASSUME NEW i \in Thread,
               empty' = empty \ {i},
               taskId' = [taskId EXCEPT ![i] = Head(toClient)],
               input' = [input EXCEPT ![i] = Head(toClient)],
               running' = running \cup {i},
               UNCHANGED <<output, results>>
        PROVE  OwnBuffers'
    BY <2>2 DEF Types, OwnBuffers, Busy
  <2> QED
    BY <1>3, <2>1, <2>2 DEF ReceiveTask
<1>4. CASE MarkComputations
  BY <1>4, BuffersSame DEF MarkComputations, serverVars
<1>5. ASSUME NEW i \in Thread, SendResult(i) PROVE OwnBuffers'
  <2> DEFINE m == [task |-> taskId[i], value |-> output[i]]
             M == [task: Task \cup {None}, value: Task \cup {None}]
  <2>1. results \in Seq(M) /\ m \in M
    BY DEF Types
  <2>2. /\ results' = Append(results, m)
        /\ UNCHANGED <<taskId, input, output, running>>
        /\ Busy' = Busy \ {i} /\ i \in Busy \ running
    BY <1>5 DEF SendResult, EmptyAfterSend, IsLeast, OneStage, Busy
  <2>3. \A r \in DOMAIN results' :
          \/ r \in DOMAIN results /\ results'[r] = results[r]
          \/ r = Len(results) + 1 /\ r \notin DOMAIN results /\ results'[r] = m
    BY <2>1, <2>2, AppendLast
  <2>4. m.value = m.task
    BY <2>2 DEF OwnBuffers
  <2> HIDE DEF m, M
  <2> QED
    BY <2>2, <2>3, <2>4 DEF OwnBuffers
<1>6. CASE SendRequest
  BY <1>6, BuffersSame DEF SendRequest, threadVars
<1>7. ASSUME NEW i \in Thread, ThreadFinishes(i)
      PROVE  OwnBuffers' \/ (pc' = "use_after_free" /\ UNCHANGED results)
  <2>1. CASE pc = "freed"
    BY <1>7, <2>1 DEF ThreadFinishes, serverVars
  <2>2. CASE pc # "freed"
    <3>1. /\ output' = [output EXCEPT ![i] = input[i]]
          /\ running' = running \ {i} /\ i \in running
          /\ UNCHANGED <<empty, taskId, input, results>>
      BY <1>7, <2>2 DEF ThreadFinishes, serverVars
    <3> QED
      BY <3>1 DEF OwnBuffers, Types, Busy
  <2> QED
    BY <2>1, <2>2
<1>8. CASE ServerNext
  BY <1>8, BuffersSame DEF ServerNext, ServerLeaves, PartArrives, ServerSends, threadVars
<1> QED
  BY <1>1, <1>2, <1>3, <1>4, <1>5, <1>6, <1>7, <1>8 DEF Next, LoopNext

\* What is freed under a running thread is lost with the process.
SafeBuffers ==
  /\ pc # "use_after_free" => OwnBuffers
  /\ \A r \in DOMAIN results : results[r].value = results[r].task

LEMMA FaultIsFinal == pc = "use_after_free" /\ [Next]_vars => UNCHANGED vars
  BY DEF Next, LoopNext, ServerNext, Looping, Failed, Stopped, EpollWait, TakeEvent, EndOfBatch,
         ReceiveTask, ReceivePart, ReceiveBroken, MarkComputations, SendResult, SendRequest, SendBroken,
         EndSend, ThreadFinishes, FreeResources, ProcessEnds

LEMMA SafeBuffersStep ==
  Types /\ OneStage /\ OnePlace /\ SafeBuffers /\ [Next]_vars => OnePlace' /\ SafeBuffers'
<1> SUFFICES ASSUME Types, OneStage, OnePlace, SafeBuffers, [Next]_vars
             PROVE  OnePlace' /\ SafeBuffers'
  OBVIOUS
<1>1. CASE pc = "use_after_free"
  <2>1. UNCHANGED vars
    BY <1>1, FaultIsFinal
  <2>2. UNCHANGED <<pc, toClient, unsent, empty, taskId, results>>
    BY <2>1 DEF vars, threadVars, loopVars, serverVars
  <2>3. OnePlace'
    BY <2>2, PlaceSame
  <2> QED
    BY <1>1, <2>2, <2>3 DEF SafeBuffers
<1>2. CASE pc # "use_after_free"
  <2>1. OwnBuffers
    BY <1>2 DEF SafeBuffers
  <2>2. OnePlace'
    BY <2>1, PlaceStep
  <2>3. OwnBuffers' \/ (pc' = "use_after_free" /\ UNCHANGED results)
    BY <1>2, <2>1, BuffersStep
  <2>4. CASE OwnBuffers'
    BY <2>2, <2>4 DEF SafeBuffers, OwnBuffers
  <2> QED
    BY <2>2, <2>3, <2>4 DEF SafeBuffers
<1> QED
  BY <1>1, <1>2

-----------------------------------------------------------------------------
(* The requests come first                                                 *)

\* All initial requests leave before any result can: the loop is at the first
\* of them, sends them, or has stopped on the way.
AskedFirst ==
  initialRequests # 0 =>
    /\ waiting = {}
    /\ initialRequests = MaxThreads \/ pc \in {"send"} \cup Stopped \cup Failed

LEMMA AskedInit == Init => AskedFirst
  BY DEF Init, AskedFirst

LEMMA AskedStep ==
  Types /\ OneStage /\ ThreadsAccounted /\ AskedFirst /\ [Next]_vars => AskedFirst'
<1> SUFFICES ASSUME Types, OneStage, ThreadsAccounted, AskedFirst, [Next]_vars PROVE AskedFirst'
  OBVIOUS
<1> USE DEF AskedFirst
<1>1. CASE UNCHANGED vars
  BY <1>1 DEF vars, threadVars, loopVars
<1>2. CASE EpollWait \/ EndOfBatch \/ ReceivePart \/ ReceiveBroken \/ SendBroken \/ EndSend
           \/ FreeResources \/ ProcessEnds \/ \E e \in batch : TakeEvent(e)
  BY <1>2 DEF EpollWait, EndOfBatch, ReceivePart, ReceiveBroken, SendBroken, EndSend, FreeResources,
              ProcessEnds, TakeEvent, AfterEof, Stopped, Failed, threadVars
<1>3. CASE ReceiveTask
  BY <1>3 DEF ReceiveTask, Stopped, Failed, threadVars
<1>4. CASE MarkComputations
  <2>1. CASE initialRequests = 0
    BY <1>4, <2>1 DEF MarkComputations
  <2>2. CASE initialRequests # 0
    <3>1. initialRequests = MaxThreads /\ pc = "mark"
      BY <1>4, <2>2 DEF MarkComputations, Stopped, Failed
    <3>2. Cardinality(Busy) = 0
      BY <3>1, BusyIsFinite, ClientAssumption DEF ThreadsAccounted, Types
    <3>3. Busy = {}
      BY <3>2, BusyIsFinite, FS_EmptySet
    <3>4. \A i \in Thread : eventFd[i] = 0
      BY <3>1, <3>3 DEF OneStage, Busy
    <3>5. CASE Announced = {}
      BY <1>4, <2>2, <3>1, <3>5 DEF MarkComputations
    <3>6. CASE Announced # {}
      BY <1>4, <2>2, <3>1, <3>4, <3>6 DEF MarkComputations, Announced
    <3> QED
      BY <3>5, <3>6
  <2> QED
    BY <2>1, <2>2
<1>5. ASSUME NEW i \in Thread, SendResult(i) PROVE AskedFirst'
  BY <1>5 DEF SendResult, WaitingAfterSend, IsLeast, loopVars
<1>6. CASE SendRequest
  BY <1>6 DEF SendRequest, threadVars, loopVars
<1>7. ASSUME NEW i \in Thread, ThreadFinishes(i) PROVE AskedFirst'
  BY <1>7 DEF ThreadFinishes, Stopped, Failed
<1>8. CASE ServerNext
  BY <1>8 DEF ServerNext, ServerLeaves, PartArrives, ServerSends, threadVars, loopVars
<1> QED
  BY <1>1, <1>2, <1>3, <1>4, <1>5, <1>6, <1>7, <1>8 DEF Next, LoopNext

-----------------------------------------------------------------------------
(* Theorems                                                                *)

LEMMA StageInvariant == Spec => [](Types /\ OneStage)
  BY TypesInit, TypesStep, StageInit, StageStep, PTL DEF Spec

\* An occupied entry is at exactly one stage: computing, its end announced, or
\* waiting to be sent (cluster-client.c:769-854 with the event loop).
THEOREM EntriesHaveOneStage == Spec => []OneStage
  BY StageInvariant, PTL

LEMMA AccountInvariant == Spec => [](ThreadsAccounted /\ NoSpareTask)
  BY StageInvariant, AccountInit, AccountStep, PTL DEF Spec

\* Each thread is accounted for once, as a request, a task on its way or an
\* occupied entry.
THEOREM ThreadsAreAccountedFor == Spec => []ThreadsAccounted
  BY AccountInvariant, PTL

\* The BUG_ON of start_computation() (cluster-client.c:804) never fires.
THEOREM NoTaskIsSpare == Spec => []NoSpareTask
  BY AccountInvariant, PTL

LEMMA PlaceInvariant == Spec => [](OnePlace /\ SafeBuffers)
<1>1. Init => SafeBuffers
  BY PlaceInit DEF SafeBuffers, OwnBuffers
<1> QED
  BY <1>1, PlaceInit, StageInvariant, SafeBuffersStep, PTL DEF Spec

\* What leaves under the name of a task is its own result, and no task is
\* answered twice, however computations end and tasks arrive.
THEOREM AnswersAreRight == Spec => []OwnResultOnce
<1>1. OnePlace /\ SafeBuffers => OwnResultOnce
  BY DEF OnePlace, SafeBuffers, OwnResultOnce
<1> QED
  BY <1>1, PlaceInvariant, PTL

LEMMA WritesStep == Types /\ WritesEnabled /\ [Next]_vars => WritesEnabled'
<1> SUFFICES ASSUME Types, WritesEnabled, [Next]_vars PROVE WritesEnabled'
  OBVIOUS
<1> USE DEF WritesEnabled
<1>1. CASE UNCHANGED vars
  BY <1>1 DEF vars, threadVars, loopVars
<1>2. CASE EpollWait \/ EndOfBatch \/ ReceivePart \/ ReceiveBroken \/ SendBroken \/ EndSend
           \/ FreeResources \/ ProcessEnds \/ \E e \in batch : TakeEvent(e)
  BY <1>2 DEF EpollWait, EndOfBatch, ReceivePart, ReceiveBroken, SendBroken, EndSend, FreeResources,
              ProcessEnds, TakeEvent, AfterEof, threadVars
<1>3. CASE ReceiveTask
  BY <1>3 DEF ReceiveTask, threadVars
<1>4. CASE MarkComputations
  BY <1>4 DEF MarkComputations, WantsWrite, AfterMark
<1>5. ASSUME NEW i \in Thread, SendResult(i) PROVE WritesEnabled'
  BY <1>5 DEF SendResult, loopVars
<1>6. CASE SendRequest
  BY <1>6 DEF SendRequest, loopVars
<1>7. ASSUME NEW i \in Thread, ThreadFinishes(i) PROVE WritesEnabled'
  BY <1>7 DEF ThreadFinishes
<1>8. CASE ServerNext
  BY <1>8 DEF ServerNext, ServerLeaves, PartArrives, ServerSends, threadVars, loopVars
<1> QED
  BY <1>1, <1>2, <1>3, <1>4, <1>5, <1>6, <1>7, <1>8 DEF Next, LoopNext

\* The loop never sleeps with something to send and write events disabled.
THEOREM NothingIsLeftUnsent == Spec => []SleepsOnlyWhenSent
<1>1. Init => WritesEnabled
  BY DEF Init, WritesEnabled
<1>2. WritesEnabled => SleepsOnlyWhenSent
  BY DEF WritesEnabled, SleepsOnlyWhenSent
<1> QED
  BY <1>1, <1>2, StageInvariant, WritesStep, PTL DEF Spec

-----------------------------------------------------------------------------
(* The worker keeps its promise                                            *)

Answers == {results[k] : k \in DOMAIN results}

LEMMA PromiseSame ==
  ASSUME UNCHANGED <<initialRequests, requests, toClient, empty, taskId, results>>
  PROVE  UNCHANGED Promise!vars
  BY DEF Promise!vars, AtWorker, Busy

LEMMA PromiseInit == Init => Promise!Init
<1> SUFFICES ASSUME Init PROVE Promise!Init
  OBVIOUS
<1>1. AtWorker = {}
  BY DEF Init, AtWorker, Busy
<1>2. {results[k] : k \in DOMAIN results} = {}
  BY DEF Init
<1> QED
  BY <1>1, <1>2 DEF Init, Promise!Init

LEMMA AnswerKept ==
  ASSUME Types, OneStage, OnePlace, SafeBuffers, AskedFirst,
         NEW i \in Thread, SendResult(i)
  PROVE  \E t \in Task : Promise!Answer(t)
<1> DEFINE m == [task |-> taskId[i], value |-> output[i]]
           M == [task: Task \cup {None}, value: Task \cup {None}]
<1>1. /\ i \in Busy \ running /\ pc = "send" /\ waiting # {}
      /\ Busy' = Busy \ {i}
      /\ UNCHANGED <<toClient, taskId, initialRequests>>
      /\ requests' = requests + 1
      /\ results' = Append(results, m)
  BY DEF SendResult, EmptyAfterSend, IsLeast, OneStage, Busy
<1>2. initialRequests = 0
  BY <1>1 DEF AskedFirst
<1>3. output[i] = taskId[i]
  BY <1>1 DEF SafeBuffers, OwnBuffers
<1>4. taskId[i] \in AtWorker /\ taskId[i] \in Task
  BY <1>1 DEF AtWorker, OnePlace
<1>5. AtWorker' = AtWorker \ {taskId[i]}
  <2>1. \A j \in Busy \ {i} : taskId[j] # taskId[i]
    BY <1>1 DEF OnePlace
  <2>2. \A k \in DOMAIN toClient : toClient[k] # taskId[i]
    BY <1>1 DEF OnePlace
  <2> QED
    BY <1>1, <2>1, <2>2 DEF AtWorker
<1>6. Answers' = Answers \cup {[task |-> taskId[i], value |-> taskId[i]]}
  <2>1. results \in Seq(M) /\ m \in M
    BY DEF Types
  <2>2. m = [task |-> taskId[i], value |-> taskId[i]]
    BY <1>3
  <2> HIDE DEF m, M
  <2>3. \A k \in DOMAIN results' :
          \/ k \in DOMAIN results /\ results'[k] = results[k]
          \/ k = Len(results) + 1 /\ k \notin DOMAIN results /\ results'[k] = m
    BY <1>1, <2>1, AppendLast
  <2>4. /\ \A k \in DOMAIN results : k \in DOMAIN results' /\ results'[k] = results[k]
        /\ Len(results) + 1 \in DOMAIN results' /\ results'[Len(results) + 1] = m
    BY <1>1, <2>1
  <2>5. Answers' = Answers \cup {m}
    BY <2>3, <2>4 DEF Answers
  <2> QED
    BY <2>2, <2>5
<1>7. PICK t \in Task : t = taskId[i]
  BY <1>4
<1>8. Promise!Answer(t)
  BY <1>1, <1>2, <1>4, <1>5, <1>6, <1>7 DEF Promise!Answer, Answers
<1> QED
  BY <1>8

LEMMA ReceiveKept ==
  ASSUME Types, ReceiveTask, NoSpareTask'
  PROVE  UNCHANGED Promise!vars
<1> DEFINE t == Head(toClient)
<1>1. /\ toClient \in Seq(Task) /\ toClient # <<>>
      /\ toClient' = Tail(toClient)
      /\ UNCHANGED <<initialRequests, requests, results>>
  BY DEF ReceiveTask, Types
<1>2. PICK i \in Thread : i \in empty /\ empty' = empty \ {i} /\ taskId' = [taskId EXCEPT ![i] = t]
  BY DEF ReceiveTask, FreeEntry, IsLeast, NoSpareTask
<1>3. {toClient[k] : k \in DOMAIN toClient} = {toClient'[k] : k \in DOMAIN toClient'} \cup {t}
  <2>1. /\ t = toClient[1] /\ 1 \in DOMAIN toClient
        /\ \A k \in DOMAIN toClient' : k + 1 \in DOMAIN toClient /\ toClient'[k] = toClient[k + 1]
    BY <1>1, HeadFirst
  <2>2. \A k \in DOMAIN toClient :
          k = 1 \/ (k - 1 \in DOMAIN toClient' /\ toClient'[k - 1] = toClient[k])
    BY <1>1
  <2> HIDE DEF t
  <2> QED
    BY <2>1, <2>2
<1>4. {taskId'[j] : j \in Busy'} = {taskId[j] : j \in Busy} \cup {t}
  <2>1. Busy' = Busy \cup {i} /\ i \notin Busy /\ Busy \subseteq Thread
    BY <1>2 DEF Busy
  <2>2. taskId'[i] = t /\ \A j \in Busy : taskId'[j] = taskId[j]
    BY <1>2, <2>1 DEF Types
  <2> HIDE DEF t
  <2> QED
    BY <2>1, <2>2
<1>5. AtWorker' = AtWorker
  <2> HIDE DEF t
  <2> QED
    BY <1>3, <1>4 DEF AtWorker
<1> QED
  BY <1>1, <1>5 DEF Promise!vars

LEMMA PromiseStep ==
  /\ Types /\ OneStage /\ OnePlace /\ SafeBuffers /\ AskedFirst /\ NoSpareTask'
  /\ [Next]_vars
  => [Promise!Next]_Promise!vars
<1> SUFFICES ASSUME Types, OneStage, OnePlace, SafeBuffers, AskedFirst, NoSpareTask', [Next]_vars
             PROVE  Promise!Next \/ UNCHANGED Promise!vars
  OBVIOUS
<1>1. CASE UNCHANGED vars
  BY <1>1, PromiseSame DEF vars, threadVars, serverVars
<1>2. CASE EpollWait \/ EndOfBatch \/ ReceivePart \/ ReceiveBroken \/ SendBroken \/ EndSend
           \/ FreeResources \/ ProcessEnds \/ \E e \in batch : TakeEvent(e)
  BY <1>2, PromiseSame DEF EpollWait, EndOfBatch, ReceivePart, ReceiveBroken, SendBroken, EndSend,
              FreeResources, ProcessEnds, TakeEvent, threadVars, serverVars
<1>3. CASE ReceiveTask
  BY <1>3, ReceiveKept
<1>4. CASE MarkComputations
  BY <1>4, PromiseSame DEF MarkComputations, serverVars
<1>5. ASSUME NEW i \in Thread, SendResult(i) PROVE Promise!Next
  BY <1>5, AnswerKept DEF Promise!Next
<1>6. CASE SendRequest
  <2>1. /\ initialRequests > 0 /\ initialRequests' = initialRequests - 1
        /\ requests' = requests + 1
        /\ UNCHANGED <<toClient, empty, taskId, results>>
    BY <1>6 DEF SendRequest, RequestsLeft, threadVars, Types
  <2>2. AtWorker' = AtWorker
    BY <2>1 DEF AtWorker, Busy
  <2> QED
    BY <2>1, <2>2 DEF Promise!Ask, Promise!Next
<1>7. ASSUME NEW i \in Thread, ThreadFinishes(i) PROVE UNCHANGED Promise!vars
  BY <1>7, PromiseSame DEF ThreadFinishes, serverVars
<1>8. CASE ServerNext
  <2>1. CASE ServerLeaves \/ PartArrives
    BY <2>1, PromiseSame DEF ServerLeaves, PartArrives, threadVars
  <2>2. ASSUME NEW t \in Task, ServerSends(t) PROVE Promise!Give(t)
    <3>1. /\ requests > 0 /\ requests' = requests - 1
          /\ toClient \in Seq(Task) /\ toClient' = Append(toClient, t)
          /\ UNCHANGED <<initialRequests, empty, taskId, results>>
      BY <2>2 DEF ServerSends, threadVars, Types
    <3>2. /\ \A k \in DOMAIN toClient' :
               \/ k \in DOMAIN toClient /\ toClient'[k] = toClient[k]
               \/ k = Len(toClient) + 1 /\ k \notin DOMAIN toClient /\ toClient'[k] = t
          /\ \A k \in DOMAIN toClient : k \in DOMAIN toClient' /\ toClient'[k] = toClient[k]
          /\ Len(toClient) + 1 \in DOMAIN toClient' /\ toClient'[Len(toClient) + 1] = t
      BY <3>1, AppendLast
    <3>3. AtWorker' = AtWorker \cup {t}
      BY <3>1, <3>2 DEF AtWorker, Busy
    <3> QED
      BY <3>1, <3>3 DEF Promise!Give
  <2> QED
    BY <1>8, <2>1, <2>2 DEF ServerNext, Promise!Next
<1> QED
  BY <1>1, <1>2, <1>3, <1>4, <1>5, <1>6, <1>7, <1>8 DEF Next, LoopNext

\* Threads, entries, eventfds and buffers implement the worker that the server
\* relies on: one request per thread first, then one right answer per task.
THEOREM ClientKeepsPromise == Spec => KeepsPromise
<1>1. Spec => [](Types /\ OneStage /\ ThreadsAccounted /\ NoSpareTask /\ OnePlace /\ SafeBuffers)
  BY StageInvariant, AccountInvariant, PlaceInvariant, PTL
<1>2. Spec => []AskedFirst
  BY <1>1, AskedInit, AskedStep, PTL DEF Spec
<1> QED
  BY <1>1, <1>2, PromiseInit, PromiseStep, PTL DEF Spec, KeepsPromise, Promise!Spec

-----------------------------------------------------------------------------
(* All types                                                               *)

\* The types of the event loop's own variables and of the connection.
LoopTypes ==
  /\ canWrite \in BOOLEAN
  /\ pc \in {"wait", "dispatch", "read", "mark", "send"} \cup Stopped \cup Failed
  /\ batch \subseteq [fd: Thread \cup {SocketFd}, in: BOOLEAN, out: BOOLEAN, hup: BOOLEAN]
  /\ first \in Thread \cup {SocketFd, None}
  /\ cur \in [fd: Thread \cup {SocketFd, None}, in: BOOLEAN, out: BOOLEAN, hup: BOOLEAN]
  /\ conn \in {"up", "fin", "reset"}
  /\ part \in BOOLEAN

LEMMA LoopTypesInit == Init => LoopTypes
<1>1. Init => part \in BOOLEAN /\ canWrite \in BOOLEAN
  BY Zenon DEF Init
<1>2. Init => cur \in [fd: Thread \cup {SocketFd, None}, in: BOOLEAN, out: BOOLEAN, hup: BOOLEAN]
  BY DEF Init, NoEvent
<1>3. Init => /\ pc = "wait" /\ batch = {} /\ first = None /\ conn = "up"
  BY DEF Init
<1> QED
  BY <1>1, <1>2, <1>3 DEF LoopTypes

LEMMA LoopTypesStep == Types /\ LoopTypes /\ [Next]_vars => LoopTypes'
<1> SUFFICES ASSUME Types, LoopTypes, [Next]_vars PROVE LoopTypes'
  OBVIOUS
<1> USE DEF LoopTypes
<1>1. CASE UNCHANGED vars
  BY <1>1 DEF vars, loopVars, serverVars
<1>2. CASE EpollWait
  <2>1. ReadyEvents \subseteq [fd: Thread \cup {SocketFd}, in: BOOLEAN, out: BOOLEAN, hup: BOOLEAN]
    <3>1. SocketEvent \in [fd: {SocketFd}, in: BOOLEAN, out: BOOLEAN, hup: BOOLEAN]
      BY DEF SocketEvent
    <3>2. \A i \in Thread : ThreadEvent(i) \in [fd: Thread, in: BOOLEAN, out: BOOLEAN, hup: BOOLEAN]
      BY DEF ThreadEvent
    <3> QED
      BY <3>1, <3>2 DEF ReadyEvents
  <2>2. batch' \subseteq ReadyEvents /\ \E e \in batch' : first' = e.fd
    BY <1>2 DEF EpollWait
  <2>3. first' \in Thread \cup {SocketFd}
    BY <2>1, <2>2
  <2> QED
    BY <1>2, <2>1, <2>2, <2>3 DEF EpollWait, serverVars
<1>3. ASSUME NEW e \in batch, TakeEvent(e) PROVE LoopTypes'
  BY <1>3 DEF TakeEvent, Stopped, serverVars
<1>4. CASE EndOfBatch
  BY <1>4 DEF EndOfBatch, NoEvent, serverVars
<1>5. CASE ReceiveTask \/ ReceivePart \/ ReceiveBroken
  BY <1>5 DEF ReceiveTask, ReceivePart, ReceiveBroken, AfterEof, Stopped, Failed, serverVars
<1>6. CASE MarkComputations
  BY <1>6 DEF MarkComputations, AfterMark, WantsWrite, Failed, serverVars
<1>7. CASE SendRequest \/ SendBroken \/ EndSend \/ (\E i \in Thread : SendResult(i))
  BY <1>7 DEF SendRequest, SendBroken, EndSend, SendResult, Stopped, Failed, loopVars, serverVars
<1>8. CASE FreeResources \/ ProcessEnds \/ \E i \in Thread : ThreadFinishes(i)
  BY <1>8 DEF FreeResources, ProcessEnds, ThreadFinishes, Stopped, Failed, serverVars
<1>9. CASE ServerNext
  BY <1>9 DEF ServerNext, ServerLeaves, PartArrives, ServerSends, loopVars
<1> QED
  BY <1>1, <1>2, <1>3, <1>4, <1>5, <1>6, <1>7, <1>8, <1>9 DEF Next, LoopNext

\* A part is of a task that was asked for, and leaves a rest to come.
PartsLeaveARest ==
  /\ received \in 0 .. MaxParts
  /\ part => ReceivedOfNext < MaxParts /\ requests > 0

LEMMA PartsInit == Init => PartsLeaveARest
  BY ClientAssumption DEF Init, PartsLeaveARest

LEMMA PartsStep == Types /\ LoopTypes /\ PartsLeaveARest /\ [Next]_vars => PartsLeaveARest'
<1> SUFFICES ASSUME Types, LoopTypes, PartsLeaveARest, [Next]_vars PROVE PartsLeaveARest'
  OBVIOUS
<1> USE ClientAssumption DEF PartsLeaveARest, ReceivedOfNext
<1>1. ASSUME UNCHANGED serverVars PROVE PartsLeaveARest'
  BY <1>1 DEF serverVars
<1>2. CASE UNCHANGED vars
  BY <1>1, <1>2 DEF vars
<1>3. CASE EpollWait \/ EndOfBatch \/ ReceiveBroken \/ MarkComputations \/ SendBroken
           \/ EndSend \/ FreeResources \/ ProcessEnds \/ \E e \in batch : TakeEvent(e)
  BY <1>1, <1>3 DEF EpollWait, EndOfBatch, ReceiveBroken, MarkComputations, SendBroken,
                    EndSend, FreeResources, ProcessEnds, TakeEvent
<1>4. CASE ReceiveTask
  <2>1. received' = 0 /\ toClient # <<>> /\ UNCHANGED <<part, requests>>
    BY <1>4 DEF ReceiveTask
  <2> QED
    BY <2>1
<1>5. CASE ReceivePart
  BY <1>5 DEF ReceivePart
<1>6. CASE SendRequest \/ \E i \in Thread : SendResult(i)
  <2>1. requests' = requests + 1 /\ UNCHANGED <<part, received, toClient>>
    BY <1>6 DEF SendRequest, SendResult
  <2> QED
    BY <2>1 DEF Types
<1>7. ASSUME NEW i \in Thread, ThreadFinishes(i) PROVE PartsLeaveARest'
  BY <1>1, <1>7 DEF ThreadFinishes
<1>8. CASE ServerNext
  BY <1>8 DEF ServerNext, ServerLeaves, PartArrives, ServerSends
<1> QED
  BY <1>2, <1>3, <1>4, <1>5, <1>6, <1>7, <1>8 DEF Next, LoopNext

LEMMA EntriesType ==
  ASSUME NEW S, NEW T, NEW s \in Seq(S), \A k \in DOMAIN s : s[k] \in T
  PROVE  s \in Seq(T)
<1>1. Len(s) \in Nat /\ DOMAIN s = 1 .. Len(s) /\ s = [k \in 1 .. Len(s) |-> s[k]]
  OBVIOUS
<1>2. [k \in 1 .. Len(s) |-> s[k]] \in [1 .. Len(s) -> T]
  BY <1>1
<1>3. s \in [1 .. Len(s) -> T]
  BY <1>1, <1>2
<1> QED
  BY <1>1, <1>3

LEMMA AllTypes ==
  ASSUME Types, LoopTypes, PartsLeaveARest, ThreadsAccounted, OnePlace
  PROVE  TypeOK
<1>1. initialRequests \in 0 .. MaxThreads /\ requests \in 0 .. MaxThreads
  <2>1. Cardinality(Busy) \in Nat /\ Len(toClient) \in Nat
    BY BusyIsFinite DEF Types
  <2> QED
    BY <2>1, ClientAssumption DEF Types, ThreadsAccounted
<1>2. results \in Seq([task: Task, value: Task \cup {None}])
  <2> DEFINE M == [task: Task \cup {None}, value: Task \cup {None}]
             N == [task: Task, value: Task \cup {None}]
  <2>1. results \in Seq(M)
    BY DEF Types
  <2>2. \A m \in M : m.task \in Task => m \in N
    OBVIOUS
  <2>3. \A r \in DOMAIN results : results[r].task \in Task
    BY DEF OnePlace
  <2> HIDE DEF M, N
  <2>4. \A r \in DOMAIN results : results[r] \in N
    <3>1. \A r \in DOMAIN results : results[r] \in M
      BY <2>1
    <3> QED
      BY <2>2, <2>3, <3>1
  <2>5. results \in Seq(N)
    BY <2>1, <2>4, EntriesType
  <2> QED
    BY <2>5 DEF N
<1> QED
  BY <1>1, <1>2 DEF TypeOK, Types, LoopTypes, PartsLeaveARest

\* Every variable of the worker's event loop and threads keeps its type: a
\* worker never has more requests than threads, which rests on each thread
\* being accounted for once, and every result is the result of a task.
THEOREM ClientTypeCorrect == Spec => []TypeOK
<1>1. Init => LoopTypes
  BY LoopTypesInit
<1>2. Spec => [](Types /\ ThreadsAccounted /\ OnePlace)
  BY StageInvariant, AccountInvariant, PlaceInvariant, PTL
<1> QED
  BY <1>1, <1>2, AllTypes, LoopTypesStep, PartsInit, PartsStep, PTL DEF Spec

-----------------------------------------------------------------------------
(* The ends of the process                                                 *)

\* The entries of a batch are of different descriptors, and the first one is
\* taken first; one that is not the first needs a longer array.  An eventfd
\* in the first entry is not read before that entry is handled.
Batches ==
  /\ \A d, e \in batch : d.fd = e.fd => d = e
  /\ \A e \in batch : e.fd # first => MaxEvents > 1
  /\ \A e \in batch, i \in Thread : e.fd = i /\ first = i => eventFd[i] > 0
  /\ \A e \in batch : e.hup => conn = "reset"
  /\ pc \in {"read", "mark", "send"} =>
       /\ cur.fd \in Thread \cup {SocketFd}
       /\ cur.fd # first => MaxEvents > 1
       /\ \A e \in batch : e.fd \notin {cur.fd, first}
  /\ pc \in {"read", "send"} => cur.fd = SocketFd
  /\ pc = "mark" => \A i \in Thread : cur.fd = i /\ first = i => eventFd[i] > 0

\* The only thread of a worker keeps its entry until the batch that tells of
\* its end is handled, so no task arrives in it.
SoleThread ==
  MaxThreads = 1 =>
    /\ first \in Thread /\ (batch # {} \/ pc = "read") => first \in Busy
    /\ pc = "mark" /\ first \in Thread => ~(cur.fd = SocketFd /\ cur.in)

LEMMA EventsOf ==
  ASSUME NEW e \in ReadyEvents
  PROVE  \/ e = SocketEvent /\ e.fd = SocketFd /\ (e.hup => conn = "reset")
         \/ \E i \in Thread : e = ThreadEvent(i) /\ e.fd = i /\ ~e.hup /\ eventFd[i] > 0
<1>1. SocketEvent.fd = SocketFd /\ (SocketEvent.hup => conn = "reset")
  BY DEF SocketEvent
<1>2. \A i \in Thread : /\ ThreadEvent(i).fd = i
                        /\ ~ThreadEvent(i).hup /\ ~ThreadEvent(i).out
                        /\ ThreadEvent(i).in <=> eventFd[i] > 0
  BY DEF ThreadEvent
<1> QED
  BY <1>1, <1>2 DEF ReadyEvents

\* A thread that finishes leaves the loop as it is.
LEMMA FinishesBeside ==
  ASSUME Types, NEW i \in Thread, ThreadFinishes(i)
  PROVE  /\ UNCHANGED <<empty, batch, first, cur, conn>>
         /\ pc' = pc \/ (pc = "freed" /\ pc' = "use_after_free")
         /\ \A k \in Thread : eventFd[k] > 0 => eventFd'[k] > 0
  BY DEF ThreadFinishes, Types, serverVars

LEMMA BatchesStep == Types /\ LoopTypes /\ Batches /\ [Next]_vars => Batches'
<1> SUFFICES ASSUME Types, LoopTypes, Batches, [Next]_vars PROVE Batches'
  OBVIOUS
<1>1. ASSUME UNCHANGED <<batch, first, eventFd>>, conn = "reset" => conn' = "reset",
             pc' \in {"read", "mark", "send"} =>
               UNCHANGED cur /\ (pc' = pc \/ (pc = "read" /\ pc' = "mark"))
      PROVE  Batches'
  BY <1>1, ClientAssumption DEF Batches
<1>2. CASE UNCHANGED vars
  BY <1>1, <1>2 DEF vars, threadVars, loopVars, serverVars
<1>3. CASE EpollWait
  <2>1. /\ batch' \subseteq ReadyEvents /\ IsFiniteSet(batch') /\ Cardinality(batch') <= MaxEvents
        /\ pc' = "dispatch" /\ UNCHANGED <<eventFd, conn>>
        /\ \E e \in batch' : first' = e.fd
    <3>1. /\ batch' \subseteq ReadyEvents /\ Cardinality(batch') <= MaxEvents
          /\ pc' = "dispatch" /\ UNCHANGED <<eventFd, conn>>
          /\ \E e \in batch' : first' = e.fd
      BY <1>3 DEF EpollWait, threadVars, serverVars
    <3>2. IsFiniteSet({SocketEvent} \cup {ThreadEvent(i) : i \in Thread})
      <4> DEFINE E == {ThreadEvent(i) : i \in Thread}
                 f == [i \in Thread |-> ThreadEvent(i)]
      <4>1. f \in Surjection(Thread, E)
        BY DEF Surjection
      <4>2. IsFiniteSet(E)
        <5> HIDE DEF E, f
        <5> QED
          BY <4>1, ThreadsAreFinite, FS_Surjection
      <4> QED
        BY <4>2, FS_AddElement
    <3>3. ReadyEvents \subseteq {SocketEvent} \cup {ThreadEvent(i) : i \in Thread}
      BY DEF ReadyEvents
    <3> QED
      BY <3>1, <3>2, <3>3, FS_Subset
  <2>2. \A d, e \in batch' : d.fd = e.fd => d = e
    BY <2>1, EventsOf, ClientAssumption
  <2>3. ASSUME NEW e \in batch', e.fd # first' PROVE MaxEvents > 1
    <3>1. PICK d \in batch' : d.fd = first'
      BY <2>1
    <3>2. d # e
      BY <2>3, <3>1
    <3>3. Cardinality({d, e}) = 2 /\ {d, e} \subseteq batch'
      <4>1. IsFiniteSet({d}) /\ Cardinality({d}) = 1
        BY FS_Singleton
      <4>2. Cardinality({d} \cup {e}) = 2
        BY <3>2, <4>1, FS_AddElement
      <4> QED
        BY <4>2
    <3>4. 2 <= Cardinality(batch') /\ Cardinality(batch') \in Nat
      BY <2>1, <3>3, FS_Subset, FS_CardinalityType
    <3> QED
      BY <2>1, <3>4, ClientAssumption
  <2>4. \A e \in batch', i \in Thread : e.fd = i => eventFd'[i] > 0
    BY <2>1, EventsOf, ClientAssumption
  <2>5. \A e \in batch' : e.hup => conn' = "reset"
    BY <2>1, EventsOf
  <2> QED
    BY <2>1, <2>2, <2>3, <2>4, <2>5 DEF Batches
<1>4. ASSUME NEW e \in batch, TakeEvent(e) PROVE Batches'
  <2>1. /\ batch' = batch \ {e} /\ cur' = e /\ IsNext(e)
        /\ UNCHANGED <<first, eventFd, conn>>
        /\ pc' \in {"left", "read", "mark"}
        /\ pc' = "read" => e.fd = SocketFd
    BY <1>4 DEF TakeEvent, threadVars, serverVars
  <2>2. e.fd \in Thread \cup {SocketFd}
    BY DEF LoopTypes
  <2>3. \A d \in batch' : d.fd \notin {e.fd, first}
    BY <2>1 DEF IsNext, Batches
  <2> QED
    BY <2>1, <2>2, <2>3 DEF Batches
<1>5. CASE EndOfBatch
  BY <1>5 DEF EndOfBatch, Batches
<1>6. CASE ReceiveTask \/ ReceivePart \/ ReceiveBroken
  <2>1. UNCHANGED <<batch, first, cur, conn, eventFd>>
    BY <1>6 DEF ReceiveTask, ReceivePart, ReceiveBroken, threadVars, serverVars
  <2>2. pc = "read" /\ pc' \in {"mark", "left", "bug_spare_task", "err_recv"}
    BY <1>6 DEF ReceiveTask, ReceivePart, ReceiveBroken, AfterEof
  <2> QED
    BY <1>1, <2>1, <2>2
<1>7. CASE MarkComputations
  <2>1. /\ pc = "mark" /\ UNCHANGED <<batch, first, cur, conn>>
        /\ pc' \in {"err_eventfd", "dispatch", "send"}
        /\ pc' = "send" => cur.fd = SocketFd
        /\ \A i \in Thread : i # first => eventFd'[i] = eventFd[i]
    BY <1>7 DEF MarkComputations, AfterMark, CounterAfterMark, Announced, serverVars
  <2> QED
    BY <2>1 DEF Batches
<1>8. CASE SendRequest \/ SendBroken \/ EndSend \/ (\E i \in Thread : SendResult(i))
           \/ FreeResources \/ ProcessEnds
  BY <1>1, <1>8 DEF SendRequest, SendBroken, EndSend, SendResult, FreeResources, ProcessEnds,
                    threadVars, loopVars, serverVars
<1>9. ASSUME NEW i \in Thread, ThreadFinishes(i) PROVE Batches'
  BY <1>9, FinishesBeside DEF Batches
<1>10. CASE ServerNext
  BY <1>1, <1>10 DEF ServerNext, ServerLeaves, PartArrives, ServerSends, threadVars, loopVars
<1> QED
  BY <1>2, <1>3, <1>4, <1>5, <1>6, <1>7, <1>8, <1>9, <1>10 DEF Next, LoopNext

LEMMA SoleThreadStep ==
  Types /\ LoopTypes /\ OneStage /\ ThreadsAccounted /\ PartsLeaveARest /\ Batches /\ SoleThread
  /\ [Next]_vars
    => SoleThread'
<1> SUFFICES ASSUME Types, LoopTypes, OneStage, ThreadsAccounted, PartsLeaveARest, Batches, SoleThread,
                    [Next]_vars, MaxThreads = 1
             PROVE  SoleThread'
  BY DEF SoleThread
<1>0. Thread = {0}
  BY DEF Thread
<1>1. ASSUME UNCHANGED <<batch, first>>, empty' \subseteq empty,
             pc' \in {"read", "mark"} => pc' = pc /\ UNCHANGED cur
      PROVE  SoleThread'
  BY <1>1 DEF SoleThread, Busy
<1>2. CASE UNCHANGED vars
  BY <1>1, <1>2 DEF vars, threadVars, loopVars
<1>3. CASE EpollWait
  <2>1. /\ batch' \subseteq ReadyEvents /\ pc = "wait" /\ pc' = "dispatch" /\ UNCHANGED empty
        /\ \E e \in batch' : first' = e.fd
    BY <1>3 DEF EpollWait, threadVars
  <2>2. ASSUME first' \in Thread PROVE eventFd[first'] > 0
    BY <2>1, <2>2, EventsOf, ClientAssumption
  <2>3. first' \in Thread => first' \in Busy'
    BY <2>1, <2>2 DEF OneStage, Busy, Types
  <2> QED
    BY <2>1, <2>3 DEF SoleThread
<1>4. ASSUME NEW e \in batch, TakeEvent(e) PROVE SoleThread'
  <2>1. /\ batch' \subseteq batch /\ batch # {} /\ cur' = e /\ UNCHANGED <<first, empty>>
        /\ pc' = "mark" => ~(e.fd = SocketFd /\ e.in)
    BY <1>4 DEF TakeEvent, threadVars
  <2> QED
    BY <2>1 DEF SoleThread, Busy
<1>5. CASE EndOfBatch
  BY <1>5 DEF EndOfBatch, SoleThread, Thread, None
<1>6. CASE ReceiveTask \/ ReceivePart
  <2>1. pc = "read" /\ (toClient # <<>> \/ requests > 0) /\ UNCHANGED first /\ pc' # "read"
    BY <1>6 DEF ReceiveTask, ReceivePart, PartsLeaveARest
  <2>2. ASSUME first \in Thread PROVE FALSE
    <3>1. Busy = {0}
      BY <1>0, <2>1, <2>2 DEF SoleThread, Busy
    <3>2. Cardinality(Busy) = 1
      BY <3>1, FS_Singleton
    <3>3. Len(toClient) \in Nat /\ (Len(toClient) >= 1 \/ requests > 0)
      BY <2>1 DEF Types
    <3> QED
      BY <3>2, <3>3 DEF ThreadsAccounted, Types
  <2> QED
    BY <2>1, <2>2 DEF SoleThread
<1>7. CASE ReceiveBroken \/ SendRequest \/ SendBroken \/ EndSend \/ FreeResources \/ ProcessEnds
  BY <1>1, <1>7 DEF ReceiveBroken, SendRequest, SendBroken, EndSend, FreeResources, ProcessEnds,
                    AfterEof, threadVars, loopVars
<1>8. CASE MarkComputations
  BY <1>1, <1>8 DEF MarkComputations, AfterMark
<1>9. ASSUME NEW i \in Thread, SendResult(i) PROVE SoleThread'
  <2>1. pc = "send" /\ pc' = "send" /\ UNCHANGED <<batch, first>>
    BY <1>9 DEF SendResult, loopVars
  <2>2. first \in Thread => batch = {}
    <3>1. \A e \in batch : e.fd \in Thread \cup {SocketFd}
      BY DEF LoopTypes
    <3> QED
      BY <1>0, <2>1, <3>1 DEF Batches
  <2> QED
    BY <2>1, <2>2 DEF SoleThread
<1>10. ASSUME NEW i \in Thread, ThreadFinishes(i) PROVE SoleThread'
  BY <1>1, <1>10, FinishesBeside
<1>11. CASE ServerNext
  BY <1>1, <1>11 DEF ServerNext, ServerLeaves, PartArrives, ServerSends, threadVars, loopVars
<1> QED
  BY <1>2, <1>3, <1>4, <1>5, <1>6, <1>7, <1>8, <1>9, <1>10, <1>11 DEF Next, LoopNext

LEMMA EndsStep ==
  /\ Types /\ LoopTypes /\ Batches /\ SoleThread /\ NoSpareTask'
  /\ EndsAreExplained /\ [Next]_vars
  => EndsAreExplained'
<1> SUFFICES ASSUME Types, LoopTypes, Batches, SoleThread, NoSpareTask', EndsAreExplained,
                    [Next]_vars
             PROVE  EndsAreExplained'
  OBVIOUS
<1> USE DEF EndsAreExplained, Stopped
<1>1. CASE UNCHANGED vars
  BY <1>1 DEF vars, loopVars, serverVars
<1>2. ASSUME NEW e \in batch, TakeEvent(e) PROVE EndsAreExplained'
  BY <1>2 DEF TakeEvent, Batches, serverVars
<1>3. CASE ReceiveTask \/ ReceivePart
  <2>1. pc' \in {"mark", "bug_spare_task"}
    BY <1>3 DEF ReceiveTask, ReceivePart
  <2> QED
    BY <2>1
<1>4. CASE MarkComputations
  <2>1. pc' \in {"err_eventfd", "dispatch", "send"}
    BY <1>4 DEF MarkComputations, AfterMark
  <2>2. ASSUME pc' = "err_eventfd"
        PROVE  first' \in Thread /\ cur'.fd # first' /\ MaxThreads > 1 /\ MaxEvents > 1
    <3>1. PICK i \in Thread : first = i /\ cur.in /\ eventFd[i] = 0 /\ pc = "mark"
      BY <1>4, <2>2 DEF MarkComputations, AfterMark, Announced
    <3>2. /\ cur.fd # first /\ cur.fd \in Thread \cup {SocketFd} /\ MaxEvents > 1
          /\ UNCHANGED <<first, cur>>
      BY <1>4, <3>1 DEF Batches, MarkComputations
    <3>3. MaxThreads # 1
      <4> SUFFICES ASSUME MaxThreads = 1 PROVE FALSE
        OBVIOUS
      <4>1. Thread = {0}
        BY DEF Thread
      <4> QED
        BY <3>1, <3>2, <4>1 DEF SoleThread
    <3> QED
      BY <3>1, <3>2, <3>3, ClientAssumption
  <2> QED
    BY <2>1, <2>2
<1>5. CASE EpollWait \/ EndOfBatch \/ SendRequest \/ EndSend \/ \E i \in Thread : SendResult(i)
  <2>1. pc' \in {"wait", "dispatch", "send"}
    BY <1>5 DEF EpollWait, EndOfBatch, SendRequest, EndSend, SendResult, loopVars
  <2> QED
    BY <2>1
<1>6. CASE ReceiveBroken \/ SendBroken \/ FreeResources \/ ProcessEnds
  BY <1>6 DEF ReceiveBroken, SendBroken, FreeResources, ProcessEnds, AfterEof, serverVars
<1>7. ASSUME NEW i \in Thread, ThreadFinishes(i) PROVE EndsAreExplained'
  BY <1>7, FinishesBeside
<1>8. CASE ServerNext
  <2>1. pc' = pc /\ Looping
    BY <1>8 DEF ServerNext, ServerLeaves, PartArrives, ServerSends, loopVars
  <2> QED
    BY <2>1 DEF Looping, Failed
<1> QED
  BY <1>1, <1>2, <1>3, <1>4, <1>5, <1>6, <1>7, <1>8 DEF Next, LoopNext

\* A worker ends in the ways known only: its loop is left and its calls on the
\* socket fail when the server is gone, and the wrong lookup of the eventfd
\* (cluster-client.c:928) ends it only while it handles an event after the one
\* of the eventfd that began the batch, and never if it has a single thread or
\* takes a single event at a time.
THEOREM ClientEndsAreExplained == Spec => []EndsAreExplained
<1>1. Init => Batches /\ SoleThread /\ EndsAreExplained
  BY DEF Init, Batches, SoleThread, EndsAreExplained, NoSpareTask, Stopped,
         Thread, None
<1> QED
  BY <1>1, StageInvariant, AccountInvariant, LoopTypesInit, LoopTypesStep, PartsInit, PartsStep,
     BatchesStep, SoleThreadStep, EndsStep, PTL DEF Spec

=============================================================================
