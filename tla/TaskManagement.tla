--------------------------- MODULE TaskManagement ---------------------------
(***************************************************************************)
(* The task management routine of the cluster server: the task table, its  *)
(* three counters and the per-connection task lists, with the three        *)
(* operations the event loop calls on them.  One call is one step: only    *)
(* the event-loop thread touches this state and none of the operations     *)
(* makes a system call.                                                    *)
(*                                                                         *)
(* PoolSpec lets the calls come in any order their BUG_ON checks allow;    *)
(* ClusterServer makes them from its event handlers.                       *)
(***************************************************************************)
EXTENDS Integers, FiniteSets

CONSTANTS
  NumTasks,           \* handle->num_tasks
  MaxClients,         \* MAX_SIMULTANEOUS_CONNECTIONS
  MaxTasksPerClient   \* MAX_TASKS_PER_CLIENT

ASSUME SizesAssumption ==
  /\ NumTasks \in Nat \ {0}
  /\ MaxClients \in Nat \ {0}
  /\ MaxTasksPerClient \in Nat \ {0}

Task == 0 .. NumTasks - 1
Cell == 0 .. MaxClients - 1
Slot == 0 .. MaxTasksPerClient - 1

\* The -1 that marks an empty cell of a task list, and every other "nothing".
None == -1

Status == {"NOT_RESOLVED", "RESOLVING", "COMPLETED"}

VARIABLES
  status,             \* task_manager[t].status
  ret,                \* the task whose computation task_manager[t].ret holds
  numNotResolved,     \* num_not_resolved
  numCompleted,       \* num_completed
  minNotResolved,     \* min_not_resolved_task
  taskList            \* client_conns[c].task_list

poolVars ==
  <<status, ret, numNotResolved, numCompleted, minNotResolved, taskList>>

-----------------------------------------------------------------------------

IsLeast(x, S) == x \in S /\ \A y \in S : x <= y

WithStatus(st) == {t \in Task : status[t] = st}

\* Seeded fault: the scan does not look at the status.
CandidatesUnchecked == {t \in Task : t >= minNotResolved}

\* What the scan from min_not_resolved_task can find.
Candidates == {t \in WithStatus("NOT_RESOLVED") : t >= minNotResolved}

\* Seeded fault: the empty cells are taken for used ones.
UsedSlotsZero(c) == {s \in Slot : taskList[c][s] # 0}

UsedSlots(c) == {s \in Slot : taskList[c][s] # None}

\* Seeded fault: a new task goes to the first cell, free or not.
FreeSlotsAll(c) == Slot

FreeSlots(c) == Slot \ UsedSlots(c)

\* The tasks connection c is answerable for.
Held(c) == {taskList[c][s] : s \in UsedSlots(c)}

PoolInit ==
  /\ status = [t \in Task |-> "NOT_RESOLVED"]
  /\ ret = [t \in Task |-> None]
  /\ numNotResolved = NumTasks
  /\ numCompleted = 0
  /\ minNotResolved = 0
  /\ taskList = [c \in Cell |-> [s \in Slot |-> None]]

(***************************************************************************)
(* get_task_to_send() when neither of its BUG_ONs fires: t is the first    *)
(* task the scan finds, s the first empty place in the list of c.          *)
(***************************************************************************)
GetTaskToSend(c, t, s) ==
  /\ IsLeast(t, Candidates)
  /\ IsLeast(s, FreeSlots(c))
  /\ status' = [status EXCEPT ![t] = "RESOLVING"]
  /\ numNotResolved' = numNotResolved - 1
  /\ minNotResolved' = t + 1
  /\ taskList' = [taskList EXCEPT ![c][s] = t]
  /\ UNCHANGED <<ret, numCompleted>>

\* Seeded fault: the first cell is freed, whatever task it holds.
PlaceOfFirst(c, t, s) == s = 0

\* Where the search for task t in the list of c ends.
PlaceOf(c, t, s) == IsLeast(s, {x \in Slot : taskList[c][x] = t})

(***************************************************************************)
(* push_return_value() for a result v of task t that c does hold; its      *)
(* BUG_ON fires otherwise.                                                 *)
(***************************************************************************)
PushReturnValue(c, t, v) ==
  /\ ret' = [ret EXCEPT ![t] = v]
  /\ \E s \in Slot :
       /\ PlaceOf(c, t, s)
       /\ taskList' = [taskList EXCEPT ![c][s] = None]
  /\ status' = [status EXCEPT ![t] = "COMPLETED"]
  /\ numCompleted' = numCompleted + 1
  /\ UNCHANGED <<numNotResolved, minNotResolved>>

\* Seeded fault: only the first of the tasks is returned to the pool.
StatusAfterDropFirst(c) ==
  [t \in Task |-> IF IsLeast(t, Held(c)) THEN "NOT_RESOLVED" ELSE status[t]]

StatusAfterDrop(c) ==
  [t \in Task |-> IF t \in Held(c) THEN "NOT_RESOLVED" ELSE status[t]]

\* Seeded fault: one task is counted per connection.
NumDroppedOne(c) == IF UsedSlots(c) = {} THEN 0 ELSE 1

NumDropped(c) == Cardinality(UsedSlots(c))

\* Seeded fault: min_not_resolved_task is not lowered.
MinAfterDropSame(c, m) == m = minNotResolved

MinAfterDrop(c, m) == IsLeast(m, Held(c) \cup {minNotResolved})

(***************************************************************************)
(* drop_resolving_tasks(): the loop over the list of c, as one update.     *)
(***************************************************************************)
DropResolvingTasks(c) ==
  /\ status' = StatusAfterDrop(c)
  /\ numNotResolved' = numNotResolved + NumDropped(c)
  /\ \E m \in Held(c) \cup {minNotResolved} :
       MinAfterDrop(c, m) /\ minNotResolved' = m
  /\ taskList' = [taskList EXCEPT ![c] = [s \in Slot |-> None]]
  /\ UNCHANGED <<ret, numCompleted>>

PoolNext ==
  \E c \in Cell :
    \/ \E t \in Task, s \in Slot : GetTaskToSend(c, t, s)
    \/ \E t \in Held(c), v \in Task : PushReturnValue(c, t, v)
    \/ DropResolvingTasks(c)

PoolSpec == PoolInit /\ [][PoolNext]_poolVars

-----------------------------------------------------------------------------

\* The pool's variables have the types the C declarations give them; the
\* counters are unsigned, so that they stay in Nat means they never wrap.
PoolTypeOK ==
  /\ status \in [Task -> Status]
  /\ ret \in [Task -> Task \cup {None}]
  /\ numNotResolved \in Nat
  /\ numCompleted \in Nat
  /\ minNotResolved \in Nat
  /\ taskList \in [Cell -> [Slot -> Task \cup {None}]]

\* A task is being resolved exactly when some task list names it: none is
\* lost between the table and the lists, so a hangup always returns it.
ResolvingIsListed ==
  \A t \in Task :
    status[t] = "RESOLVING" <=> \E c \in Cell : t \in Held(c)

\* No task is in two places, be it two lists or two cells of one list, so it
\* is never computed for two connections at a time.
ListedOnce ==
  \A c, d \in Cell : \A s \in UsedSlots(c), r \in UsedSlots(d) :
    taskList[c][s] = taskList[d][r] => c = d /\ s = r

\* The running counters agree with the table they summarise, so the event
\* loop neither stops early on num_completed nor sends with num_not_resolved
\* wrapped around below zero.
CountersAgree ==
  /\ numNotResolved = Cardinality(WithStatus("NOT_RESOLVED"))
  /\ numCompleted = Cardinality(WithStatus("COMPLETED"))

\* Every unresolved task lies in the part of the table that get_task_to_send()
\* scans, however hangups and assignments interleave.
ScanMissesNothing ==
  /\ minNotResolved \in 0 .. NumTasks
  /\ Candidates = WithStatus("NOT_RESOLVED")

PoolInv == ResolvingIsListed /\ ListedOnce /\ CountersAgree /\ ScanMissesNothing

\* A completed task is never reopened and its result never overwritten.
CompletedIsFinal ==
  [][\A t \in Task : status[t] = "COMPLETED" =>
        status'[t] = "COMPLETED" /\ ret'[t] = ret[t]]_poolVars

\* The table and the lists implement the abstract pool of work.
Pool == INSTANCE WorkPool WITH
  Holder <- Cell,
  todo   <- WithStatus("NOT_RESOLVED"),
  done   <- WithStatus("COMPLETED"),
  held   <- [c \in Cell |-> Held(c)]

ImplementsWorkPool == Pool!Spec

=============================================================================
