------------------------ MODULE TaskManagementProofs ------------------------
(***************************************************************************)
(* Theorems about the task table, for any number of tasks, connections and *)
(* places in a task list.                                                  *)
(***************************************************************************)
EXTENDS TaskManagement, FiniteSetTheorems, TLAPS

\* The inductive invariant: the types and the four parts of PoolInv need each
\* other.
PoolIInv == PoolTypeOK /\ PoolInv

-----------------------------------------------------------------------------
(* Facts about the tables                                                  *)

LEMMA NoneIsNoTask == None \notin Task /\ None \notin Slot /\ None \notin Cell
  BY SizesAssumption DEF None, Task, Slot, Cell

LEMMA TablesAreFinite ==
  /\ IsFiniteSet(Task)
  /\ IsFiniteSet(Slot)
<1>1. NumTasks - 1 \in Int /\ MaxTasksPerClient - 1 \in Int /\ 0 \in Int
  BY SizesAssumption
<1>2. IsFiniteSet(0 .. NumTasks - 1) /\ IsFiniteSet(0 .. MaxTasksPerClient - 1)
  BY <1>1, FS_Interval
<1> QED
  BY <1>2 DEF Task, Slot

LEMMA WithStatusIsFinite ==
  ASSUME NEW st
  PROVE  IsFiniteSet(WithStatus(st)) /\ Cardinality(WithStatus(st)) \in Nat
<1>1. WithStatus(st) \in SUBSET Task
  BY DEF WithStatus
<1> QED
  BY <1>1, TablesAreFinite, FS_Subset, FS_CardinalityType

\* As many tasks are held as cells are used.
LEMMA HeldMatchesUsedSlots ==
  ASSUME PoolTypeOK, ListedOnce, NEW c \in Cell
  PROVE  /\ IsFiniteSet(Held(c))
         /\ Cardinality(Held(c)) = NumDropped(c)
<1> DEFINE f == [s \in UsedSlots(c) |-> taskList[c][s]]
<1>1. IsFiniteSet(UsedSlots(c))
  <2>1. UsedSlots(c) \in SUBSET Slot
    BY DEF UsedSlots
  <2> QED
    BY <2>1, TablesAreFinite, FS_Subset
<1>2. f \in Bijection(UsedSlots(c), Held(c))
  <2>1. f \in [UsedSlots(c) -> Held(c)]
    BY DEF Held
  <2>2. \A t \in Held(c) : \E s \in UsedSlots(c) : f[s] = t
    BY DEF Held
  <2>3. \A r, s \in UsedSlots(c) : f[r] = f[s] => r = s
    BY DEF ListedOnce
  <2> QED
    BY <2>1, <2>2, <2>3 DEF Bijection, Injection, Surjection, IsInjective
<1>3. ExistsBijection(UsedSlots(c), Held(c))
  BY <1>2 DEF ExistsBijection
<1> QED
  BY <1>1, <1>3, FS_Bijection DEF NumDropped

LEMMA HeldTasks ==
  ASSUME PoolTypeOK, NEW c \in Cell
  PROVE  Held(c) \subseteq Task
  BY NoneIsNoTask DEF PoolTypeOK, Held, UsedSlots

-----------------------------------------------------------------------------
(* What each operation does to the lists                                   *)

LEMMA GetLists ==
  ASSUME PoolTypeOK, NEW c \in Cell, NEW t \in Task, NEW s \in Slot,
         GetTaskToSend(c, t, s)
  PROVE  \A d \in Cell :
           /\ UsedSlots(d)' = IF d = c THEN UsedSlots(c) \cup {s} ELSE UsedSlots(d)
           /\ Held(d)' = IF d = c THEN Held(c) \cup {t} ELSE Held(d)
<1>1. /\ s \in Slot \ UsedSlots(c)
      /\ taskList' = [taskList EXCEPT ![c][s] = t]
  BY DEF GetTaskToSend, IsLeast, FreeSlots
<1>2. \A d \in Cell, r \in Slot :
        taskList'[d][r] = IF d = c /\ r = s THEN t ELSE taskList[d][r]
  BY <1>1 DEF PoolTypeOK
<1>3. \A d \in Cell : UsedSlots(d)' = IF d = c THEN UsedSlots(c) \cup {s} ELSE UsedSlots(d)
  BY <1>2, NoneIsNoTask DEF UsedSlots
<1>4. \A d \in Cell : Held(d)' = {taskList'[d][r] : r \in UsedSlots(d)'}
  BY DEF Held
<1>5. \A d \in Cell : d # c => Held(d)' = Held(d)
  BY <1>2, <1>3, <1>4 DEF Held, UsedSlots
<1>6. Held(c)' = Held(c) \cup {t}
  <2>1. Held(c)' \subseteq Held(c) \cup {t}
    BY <1>1, <1>2, <1>3, <1>4 DEF Held, UsedSlots
  <2>2. Held(c) \subseteq Held(c)'
    BY <1>1, <1>2, <1>3, <1>4 DEF Held, UsedSlots
  <2>3. t \in Held(c)'
    BY <1>1, <1>2, <1>3, <1>4
  <2> QED
    BY <2>1, <2>2, <2>3
<1> QED
  BY <1>3, <1>5, <1>6

LEMMA PushLists ==
  ASSUME PoolTypeOK, ListedOnce, NEW c \in Cell, NEW t \in Held(c), NEW v,
         PushReturnValue(c, t, v)
  PROVE  \E s \in UsedSlots(c) :
           /\ taskList[c][s] = t
           /\ \A d \in Cell :
                /\ UsedSlots(d)' = IF d = c THEN UsedSlots(c) \ {s} ELSE UsedSlots(d)
                /\ Held(d)' = IF d = c THEN Held(c) \ {t} ELSE Held(d)
<1>1. PICK s \in Slot : PlaceOf(c, t, s) /\ taskList' = [taskList EXCEPT ![c][s] = None]
  BY DEF PushReturnValue
<1>2. taskList[c][s] = t /\ s \in UsedSlots(c)
  BY <1>1, HeldTasks, NoneIsNoTask DEF PlaceOf, IsLeast, UsedSlots
<1>3. \A d \in Cell, r \in Slot :
        taskList'[d][r] = IF d = c /\ r = s THEN None ELSE taskList[d][r]
  BY <1>1 DEF PoolTypeOK
<1>4. \A d \in Cell : UsedSlots(d)' = IF d = c THEN UsedSlots(c) \ {s} ELSE UsedSlots(d)
  BY <1>3 DEF UsedSlots
<1>5. \A d \in Cell : Held(d)' = {taskList'[d][r] : r \in UsedSlots(d)'}
  BY DEF Held
<1>6. \A d \in Cell : d # c => Held(d)' = Held(d)
  BY <1>3, <1>4, <1>5 DEF Held, UsedSlots
<1>7. Held(c)' = Held(c) \ {t}
  <2>1. \A r \in UsedSlots(c) : taskList[c][r] = t => r = s
    BY <1>2 DEF ListedOnce
  <2>2. \A x \in Held(c)' : x \in Held(c) /\ x # t
    BY <1>3, <1>4, <1>5, <2>1 DEF Held, UsedSlots
  <2>3. \A x \in Held(c) : x # t => x \in Held(c)'
    BY <1>2, <1>3, <1>4, <1>5 DEF Held, UsedSlots
  <2> QED
    BY <2>2, <2>3
<1> QED
  BY <1>2, <1>4, <1>6, <1>7

LEMMA DropLists ==
  ASSUME PoolTypeOK, NEW c \in Cell, DropResolvingTasks(c)
  PROVE  \A d \in Cell :
           /\ UsedSlots(d)' = IF d = c THEN {} ELSE UsedSlots(d)
           /\ Held(d)' = IF d = c THEN {} ELSE Held(d)
<1>1. \A d \in Cell, r \in Slot :
        taskList'[d][r] = IF d = c THEN None ELSE taskList[d][r]
  BY DEF PoolTypeOK, DropResolvingTasks
<1>2. \A d \in Cell : UsedSlots(d)' = IF d = c THEN {} ELSE UsedSlots(d)
  BY <1>1 DEF UsedSlots
<1>3. \A d \in Cell : Held(d)' = {taskList'[d][r] : r \in UsedSlots(d)'}
  BY DEF Held
<1>4. Held(c)' = {}
  BY <1>2, <1>3
<1>5. \A d \in Cell : d # c => Held(d)' = Held(d)
  BY <1>1, <1>2, <1>3 DEF Held, UsedSlots
<1> QED
  BY <1>2, <1>4, <1>5

-----------------------------------------------------------------------------
(* Every operation preserves the invariant                                 *)

LEMMA GetPreserves ==
  ASSUME PoolIInv, NEW c \in Cell, NEW t \in Task, NEW s \in Slot,
         GetTaskToSend(c, t, s)
  PROVE  PoolIInv'
<1> USE DEF PoolIInv, PoolInv
<1>1. /\ status[t] = "NOT_RESOLVED"
      /\ \A u \in WithStatus("NOT_RESOLVED") : t <= u
  BY DEF GetTaskToSend, IsLeast, Candidates, WithStatus, ScanMissesNothing
<1>2. /\ status' = [status EXCEPT ![t] = "RESOLVING"]
      /\ status' \in [Task -> Status]
  BY DEF GetTaskToSend, PoolTypeOK, Status
<1>3. /\ WithStatus("NOT_RESOLVED")' = WithStatus("NOT_RESOLVED") \ {t}
      /\ WithStatus("COMPLETED")' = WithStatus("COMPLETED")
      /\ t \in WithStatus("NOT_RESOLVED")
  BY <1>1, <1>2 DEF WithStatus, PoolTypeOK, Status
<1>4. \A d \in Cell :
        /\ UsedSlots(d)' = IF d = c THEN UsedSlots(c) \cup {s} ELSE UsedSlots(d)
        /\ Held(d)' = IF d = c THEN Held(c) \cup {t} ELSE Held(d)
  BY GetLists
<1>5. CountersAgree'
  <2>1. Cardinality(WithStatus("NOT_RESOLVED")') = Cardinality(WithStatus("NOT_RESOLVED")) - 1
    BY <1>3, WithStatusIsFinite, FS_RemoveElement
  <2> QED
    BY <1>3, <2>1 DEF CountersAgree, GetTaskToSend
<1>6. PoolTypeOK'
  <2>1. numNotResolved' \in Nat
    <3>1. Cardinality(WithStatus("NOT_RESOLVED")') \in Nat
      <4>1. IsFiniteSet(WithStatus("NOT_RESOLVED")')
        BY <1>3, WithStatusIsFinite, FS_RemoveElement
      <4> QED
        BY <4>1, FS_CardinalityType
    <3> QED
      BY <1>5, <3>1 DEF CountersAgree
  <2>2. minNotResolved' \in Nat /\ numCompleted' \in Nat
    BY SizesAssumption DEF GetTaskToSend, Task, PoolTypeOK
  <2>3. taskList' \in [Cell -> [Slot -> Task \cup {None}]]
    BY DEF GetTaskToSend, PoolTypeOK
  <2>4. ret' \in [Task -> Task \cup {None}]
    BY DEF GetTaskToSend, PoolTypeOK
  <2> QED
    BY <1>2, <2>1, <2>2, <2>3, <2>4 DEF PoolTypeOK
<1>7. ResolvingIsListed'
  <2>1. \A u \in Task : (\E d \in Cell : u \in Held(d)') <=> u = t \/ \E d \in Cell : u \in Held(d)
    BY <1>4
  <2> QED
    BY <1>2, <2>1 DEF ResolvingIsListed, PoolTypeOK
<1>8. ListedOnce'
  <2>1. \A d \in Cell : t \notin Held(d)
    BY <1>1 DEF ResolvingIsListed
  <2>2. /\ s \notin UsedSlots(c)
        /\ \A d \in Cell, r \in Slot :
             taskList'[d][r] = IF d = c /\ r = s THEN t ELSE taskList[d][r]
    BY DEF GetTaskToSend, IsLeast, FreeSlots, PoolTypeOK
  <2>3. \A d \in Cell : \A r \in UsedSlots(d) : taskList[d][r] # t
    BY <2>1 DEF Held
  <2>4. \A d \in Cell : \A r \in UsedSlots(d)' : r \in UsedSlots(d) \/ (d = c /\ r = s)
    BY <1>4
  <2> QED
    BY <2>2, <2>3, <2>4 DEF ListedOnce, UsedSlots
<1>9. ScanMissesNothing'
  <2>1. minNotResolved' = t + 1 /\ t + 1 \in 0 .. NumTasks
    BY SizesAssumption DEF GetTaskToSend, Task
  <2>2. \A u \in WithStatus("NOT_RESOLVED")' : u \in Task /\ u >= t + 1
    BY <1>1, <1>3, SizesAssumption DEF WithStatus, Task
  <2> QED
    BY <2>1, <2>2 DEF ScanMissesNothing, Candidates
<1> QED
  BY <1>5, <1>6, <1>7, <1>8, <1>9

LEMMA PushPreserves ==
  ASSUME PoolIInv, NEW c \in Cell, NEW t \in Held(c), NEW v \in Task,
         PushReturnValue(c, t, v)
  PROVE  PoolIInv'
<1> USE DEF PoolIInv, PoolInv
<1>1. t \in Task /\ status[t] = "RESOLVING"
  BY HeldTasks DEF ResolvingIsListed
<1>2. /\ status' = [status EXCEPT ![t] = "COMPLETED"]
      /\ status' \in [Task -> Status]
  BY <1>1 DEF PushReturnValue, PoolTypeOK, Status
<1>3. /\ WithStatus("NOT_RESOLVED")' = WithStatus("NOT_RESOLVED")
      /\ WithStatus("COMPLETED")' = WithStatus("COMPLETED") \cup {t}
      /\ t \notin WithStatus("COMPLETED")
  BY <1>1, <1>2 DEF WithStatus, PoolTypeOK, Status
<1>4. PICK s \in UsedSlots(c) :
        /\ taskList[c][s] = t
        /\ \A d \in Cell :
             /\ UsedSlots(d)' = IF d = c THEN UsedSlots(c) \ {s} ELSE UsedSlots(d)
             /\ Held(d)' = IF d = c THEN Held(c) \ {t} ELSE Held(d)
  BY PushLists
<1>5. CountersAgree'
  <2>1. Cardinality(WithStatus("COMPLETED")') = Cardinality(WithStatus("COMPLETED")) + 1
    BY <1>3, WithStatusIsFinite, FS_AddElement
  <2> QED
    BY <1>3, <2>1 DEF CountersAgree, PushReturnValue
<1>6. PoolTypeOK'
  <2>1. numCompleted' \in Nat /\ numNotResolved' \in Nat /\ minNotResolved' \in Nat
    BY DEF PushReturnValue, PoolTypeOK
  <2>2. taskList' \in [Cell -> [Slot -> Task \cup {None}]]
    BY DEF PushReturnValue, PoolTypeOK
  <2>3. ret' \in [Task -> Task \cup {None}]
    BY <1>1 DEF PushReturnValue, PoolTypeOK
  <2> QED
    BY <1>2, <2>1, <2>2, <2>3 DEF PoolTypeOK
<1>7. \A d \in Cell : d # c => t \notin Held(d)
  BY <1>4 DEF ListedOnce, Held
<1>8. ResolvingIsListed'
  <2>1. \A u \in Task : (\E d \in Cell : u \in Held(d)') <=> u # t /\ \E d \in Cell : u \in Held(d)
    BY <1>4, <1>7
  <2> QED
    BY <1>2, <2>1 DEF ResolvingIsListed, PoolTypeOK
<1>9. ListedOnce'
  <2>1. \A d \in Cell, r \in Slot :
          r \in UsedSlots(d)' => r \in UsedSlots(d) /\ taskList'[d][r] = taskList[d][r]
    BY <1>4 DEF PushReturnValue, PoolTypeOK, UsedSlots
  <2>2. \A d \in Cell : UsedSlots(d)' \subseteq Slot
    BY DEF UsedSlots
  <2> QED
    BY <2>1, <2>2 DEF ListedOnce
<1>10. ScanMissesNothing'
  BY <1>3 DEF ScanMissesNothing, Candidates, PushReturnValue
<1> QED
  BY <1>5, <1>6, <1>8, <1>9, <1>10

LEMMA DropPreserves ==
  ASSUME PoolIInv, NEW c \in Cell, DropResolvingTasks(c)
  PROVE  PoolIInv'
<1> USE DEF PoolIInv, PoolInv
<1>1. Held(c) \subseteq Task /\ \A t \in Held(c) : status[t] = "RESOLVING"
  BY HeldTasks DEF ResolvingIsListed
<1>2. /\ \A t \in Task : status'[t] = IF t \in Held(c) THEN "NOT_RESOLVED" ELSE status[t]
      /\ status' \in [Task -> Status]
  BY DEF DropResolvingTasks, StatusAfterDrop, PoolTypeOK, Status
<1>3. /\ WithStatus("NOT_RESOLVED")' = WithStatus("NOT_RESOLVED") \cup Held(c)
      /\ WithStatus("COMPLETED")' = WithStatus("COMPLETED")
      /\ WithStatus("NOT_RESOLVED") \cap Held(c) = {}
  BY <1>1, <1>2 DEF WithStatus
<1>4. \A d \in Cell :
        /\ UsedSlots(d)' = IF d = c THEN {} ELSE UsedSlots(d)
        /\ Held(d)' = IF d = c THEN {} ELSE Held(d)
  BY DropLists
<1>5. IsFiniteSet(Held(c)) /\ Cardinality(Held(c)) = NumDropped(c) /\ NumDropped(c) \in Nat
  BY HeldMatchesUsedSlots, FS_CardinalityType
<1>6. CountersAgree'
  <2>1. Cardinality(WithStatus("NOT_RESOLVED")') =
          Cardinality(WithStatus("NOT_RESOLVED")) + NumDropped(c)
    <3>1. Cardinality(WithStatus("NOT_RESOLVED") \cap Held(c)) = 0
      BY <1>3, FS_EmptySet
    <3>2. Cardinality(WithStatus("NOT_RESOLVED") \cup Held(c)) =
            Cardinality(WithStatus("NOT_RESOLVED")) + Cardinality(Held(c))
              - Cardinality(WithStatus("NOT_RESOLVED") \cap Held(c))
      BY <1>5, WithStatusIsFinite, FS_Union
    <3>3. Cardinality(WithStatus("NOT_RESOLVED")) \in Nat
      BY WithStatusIsFinite
    <3>4. WithStatus("NOT_RESOLVED")' = WithStatus("NOT_RESOLVED") \cup Held(c)
      BY <1>3
    <3>5. Cardinality(WithStatus("NOT_RESOLVED") \cup Held(c)) =
            Cardinality(WithStatus("NOT_RESOLVED")) + NumDropped(c)
      BY <1>5, <3>1, <3>2, <3>3
    <3> QED
      BY <3>4, <3>5
  <2> QED
    BY <1>3, <2>1 DEF CountersAgree, DropResolvingTasks
<1>7. PICK m \in Held(c) \cup {minNotResolved} :
        MinAfterDrop(c, m) /\ minNotResolved' = m
  BY DEF DropResolvingTasks
<1>8. m \in 0 .. NumTasks /\ m <= minNotResolved /\ \A t \in Held(c) : m <= t
  BY <1>1, <1>7, SizesAssumption DEF MinAfterDrop, IsLeast, ScanMissesNothing, Task
<1>9. PoolTypeOK'
  <2>1. numCompleted' \in Nat /\ numNotResolved' \in Nat
    BY <1>5 DEF DropResolvingTasks, PoolTypeOK
  <2>2. minNotResolved' \in Nat
    BY <1>7, <1>8
  <2>3. taskList' \in [Cell -> [Slot -> Task \cup {None}]]
    BY DEF DropResolvingTasks, PoolTypeOK
  <2>4. ret' \in [Task -> Task \cup {None}]
    BY DEF DropResolvingTasks, PoolTypeOK
  <2> QED
    BY <1>2, <2>1, <2>2, <2>3, <2>4 DEF PoolTypeOK
<1>10. ResolvingIsListed'
  <2>1. \A d \in Cell : d # c => Held(d) \cap Held(c) = {}
    BY DEF ListedOnce, Held
  <2>2. \A u \in Task :
          (\E d \in Cell : u \in Held(d)') <=> u \notin Held(c) /\ \E d \in Cell : u \in Held(d)
    BY <1>4, <2>1
  <2> QED
    BY <1>2, <2>2 DEF ResolvingIsListed
<1>11. ListedOnce'
  <2>1. \A d \in Cell : \A r \in UsedSlots(d)' :
          r \in UsedSlots(d) /\ taskList'[d][r] = taskList[d][r]
    BY <1>4 DEF DropResolvingTasks, PoolTypeOK
  <2> QED
    BY <2>1 DEF ListedOnce
<1>12. ScanMissesNothing'
  <2>1. \A u \in WithStatus("NOT_RESOLVED")' : u \in Task /\ u >= m
    BY <1>1, <1>3, <1>8, SizesAssumption DEF ScanMissesNothing, Candidates, WithStatus, Task
  <2> QED
    BY <1>7, <1>8, <2>1 DEF ScanMissesNothing, Candidates
<1> QED
  BY <1>6, <1>9, <1>10, <1>11, <1>12

LEMMA InitEstablishes == PoolInit => PoolIInv
<1> SUFFICES ASSUME PoolInit PROVE PoolIInv
  OBVIOUS
<1> USE DEF PoolInit
<1>1. /\ WithStatus("NOT_RESOLVED") = Task
      /\ WithStatus("COMPLETED") = {}
      /\ \A c \in Cell : UsedSlots(c) = {} /\ Held(c) = {}
  BY DEF WithStatus, UsedSlots, Held
<1>2. Cardinality(Task) = NumTasks /\ Cardinality({}) = 0
  <2>1. 0 \in Int /\ NumTasks - 1 \in Int
    BY SizesAssumption
  <2>2. Cardinality(0 .. NumTasks - 1) = NumTasks
    BY <2>1, FS_Interval, SizesAssumption
  <2> QED
    BY <2>2, FS_EmptySet DEF Task
<1>3. PoolTypeOK
  BY SizesAssumption DEF PoolTypeOK, Status
<1>4. ResolvingIsListed /\ ListedOnce
  BY <1>1 DEF ResolvingIsListed, ListedOnce
<1>5. CountersAgree
  BY <1>1, <1>2 DEF CountersAgree
<1>6. ScanMissesNothing
  BY <1>1, SizesAssumption DEF ScanMissesNothing, Candidates, WithStatus, Task
<1> QED
  BY <1>3, <1>4, <1>5, <1>6 DEF PoolIInv, PoolInv

LEMMA StepPreserves == PoolIInv /\ [PoolNext]_poolVars => PoolIInv'
<1> SUFFICES ASSUME PoolIInv, [PoolNext]_poolVars PROVE PoolIInv'
  OBVIOUS
<1>1. ASSUME NEW c \in Cell, NEW t \in Task, NEW s \in Slot, GetTaskToSend(c, t, s)
      PROVE  PoolIInv'
  BY <1>1, GetPreserves
<1>2. ASSUME NEW c \in Cell, NEW t \in Held(c), NEW v \in Task, PushReturnValue(c, t, v)
      PROVE  PoolIInv'
  BY <1>2, PushPreserves
<1>3. ASSUME NEW c \in Cell, DropResolvingTasks(c)
      PROVE  PoolIInv'
  BY <1>3, DropPreserves
<1>4. CASE UNCHANGED poolVars
  BY <1>4 DEF poolVars, PoolIInv, PoolInv, PoolTypeOK, ResolvingIsListed, ListedOnce,
              CountersAgree, ScanMissesNothing, Candidates, WithStatus, Held, UsedSlots
<1> QED
  BY <1>1, <1>2, <1>3, <1>4 DEF PoolNext

LEMMA PoolInvariant == PoolSpec => []PoolIInv
  BY InitEstablishes, StepPreserves, PTL DEF PoolSpec

-----------------------------------------------------------------------------
(* The theorems                                                            *)

\* The task table keeps its types under any sequence of calls; in particular
\* the unsigned counters never wrap around.
THEOREM PoolTypeCorrect == PoolSpec => []PoolTypeOK
<1>1. PoolIInv => PoolTypeOK
  BY DEF PoolIInv
<1> QED
  BY <1>1, PoolInvariant, PTL

\* A task is being resolved exactly when it is in a task list.
THEOREM ResolvingTasksAreListed == PoolSpec => []ResolvingIsListed
<1>1. PoolIInv => ResolvingIsListed
  BY DEF PoolIInv, PoolInv
<1> QED
  BY <1>1, PoolInvariant, PTL

\* No task is in two places of the task lists.
THEOREM TasksAreListedOnce == PoolSpec => []ListedOnce
<1>1. PoolIInv => ListedOnce
  BY DEF PoolIInv, PoolInv
<1> QED
  BY <1>1, PoolInvariant, PTL

\* num_not_resolved and num_completed agree with the table.
THEOREM CountersAreRight == PoolSpec => []CountersAgree
<1>1. PoolIInv => CountersAgree
  BY DEF PoolIInv, PoolInv
<1> QED
  BY <1>1, PoolInvariant, PTL

\* The scan that starts at min_not_resolved_task misses no unresolved task.
THEOREM ScanIsComplete == PoolSpec => []ScanMissesNothing
<1>1. PoolIInv => ScanMissesNothing
  BY DEF PoolIInv, PoolInv
<1> QED
  BY <1>1, PoolInvariant, PTL

\* No call reopens a completed task or overwrites its result.
THEOREM CompletedTasksAreFinal == PoolSpec => CompletedIsFinal
<1> DEFINE Final == \A t \in Task : status[t] = "COMPLETED" =>
                      status'[t] = "COMPLETED" /\ ret'[t] = ret[t]
<1>1. PoolIInv /\ [PoolNext]_poolVars => [Final]_poolVars
  <2> SUFFICES ASSUME PoolIInv, PoolNext, NEW u \in Task, status[u] = "COMPLETED"
               PROVE  status'[u] = "COMPLETED" /\ ret'[u] = ret[u]
    OBVIOUS
  <2> USE DEF PoolIInv, PoolInv
  <2>1. \A c \in Cell : u \notin Held(c)
    BY DEF ResolvingIsListed
  <2>2. ASSUME NEW c \in Cell, NEW t \in Task, NEW s \in Slot, GetTaskToSend(c, t, s)
        PROVE  status'[u] = "COMPLETED" /\ ret'[u] = ret[u]
    <3>1. t # u
      BY <2>2 DEF GetTaskToSend, IsLeast, Candidates, WithStatus
    <3> QED
      BY <2>2, <3>1 DEF GetTaskToSend, PoolTypeOK
  <2>3. ASSUME NEW c \in Cell, NEW t \in Held(c), NEW v \in Task, PushReturnValue(c, t, v)
        PROVE  status'[u] = "COMPLETED" /\ ret'[u] = ret[u]
    BY <2>1, <2>3, HeldTasks DEF PushReturnValue, PoolTypeOK
  <2>4. ASSUME NEW c \in Cell, DropResolvingTasks(c)
        PROVE  status'[u] = "COMPLETED" /\ ret'[u] = ret[u]
    BY <2>1, <2>4 DEF DropResolvingTasks, StatusAfterDrop
  <2> QED
    BY <2>2, <2>3, <2>4 DEF PoolNext
<1> QED
  BY <1>1, PoolInvariant, PTL DEF PoolSpec, CompletedIsFinal

\* The table and the lists implement the abstract pool of work: every call is
\* a step of WorkPool or changes nothing in it.
THEOREM PoolImplementsWorkPool == PoolSpec => ImplementsWorkPool
<1>1. PoolInit => Pool!Init
  <2> SUFFICES ASSUME PoolInit PROVE Pool!Init
    OBVIOUS
  <2>1. /\ WithStatus("NOT_RESOLVED") = Task
        /\ WithStatus("COMPLETED") = {}
        /\ \A c \in Cell : Held(c) = {}
    BY DEF PoolInit, WithStatus, UsedSlots, Held
  <2> QED
    BY <2>1 DEF Pool!Init
<1>2. PoolIInv /\ [PoolNext]_poolVars => [Pool!Next]_(Pool!vars)
  <2> SUFFICES ASSUME PoolIInv, [PoolNext]_poolVars
               PROVE  Pool!Next \/ UNCHANGED Pool!vars
    OBVIOUS
  <2> USE DEF PoolIInv, PoolInv
  <2>1. ASSUME NEW c \in Cell, NEW t \in Task, NEW s \in Slot, GetTaskToSend(c, t, s)
        PROVE  Pool!Take(c)
    <3>1. /\ t \in WithStatus("NOT_RESOLVED")
          /\ WithStatus("NOT_RESOLVED")' = WithStatus("NOT_RESOLVED") \ {t}
          /\ WithStatus("COMPLETED")' = WithStatus("COMPLETED")
      BY <2>1 DEF GetTaskToSend, IsLeast, Candidates, WithStatus, PoolTypeOK, Status
    <3>2. \A d \in Cell : Held(d)' = IF d = c THEN Held(c) \cup {t} ELSE Held(d)
      BY <2>1, GetLists
    <3> QED
      BY <3>1, <3>2 DEF Pool!Take
  <2>2. ASSUME NEW c \in Cell, NEW t \in Held(c), NEW v \in Task, PushReturnValue(c, t, v)
        PROVE  Pool!Finish(c)
    <3>1. t \in Task /\ status[t] = "RESOLVING"
      BY HeldTasks DEF ResolvingIsListed
    <3>2. /\ WithStatus("NOT_RESOLVED")' = WithStatus("NOT_RESOLVED")
          /\ WithStatus("COMPLETED")' = WithStatus("COMPLETED") \cup {t}
      BY <2>2, <3>1 DEF PushReturnValue, WithStatus, PoolTypeOK, Status
    <3>3. \A d \in Cell : Held(d)' = IF d = c THEN Held(c) \ {t} ELSE Held(d)
      BY <2>2, PushLists
    <3> QED
      BY <3>2, <3>3 DEF Pool!Finish
  <2>3. ASSUME NEW c \in Cell, DropResolvingTasks(c)
        PROVE  Pool!GiveBack(c)
    <3>1. Held(c) \subseteq Task /\ \A t \in Held(c) : status[t] = "RESOLVING"
      BY HeldTasks DEF ResolvingIsListed
    <3>2. /\ WithStatus("NOT_RESOLVED")' = WithStatus("NOT_RESOLVED") \cup Held(c)
          /\ WithStatus("COMPLETED")' = WithStatus("COMPLETED")
      BY <2>3, <3>1 DEF DropResolvingTasks, StatusAfterDrop, WithStatus
    <3>3. \A d \in Cell : Held(d)' = IF d = c THEN {} ELSE Held(d)
      BY <2>3, DropLists
    <3> QED
      BY <3>2, <3>3 DEF Pool!GiveBack
  <2>4. CASE UNCHANGED poolVars
    BY <2>4 DEF poolVars, Pool!vars, WithStatus, Held, UsedSlots
  <2> QED
    BY <2>1, <2>2, <2>3, <2>4 DEF PoolNext, Pool!Next
<1> QED
  BY <1>1, <1>2, PoolInvariant, PTL DEF PoolSpec, ImplementsWorkPool, Pool!Spec

=============================================================================
