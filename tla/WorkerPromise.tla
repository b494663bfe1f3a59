--------------------------- MODULE WorkerPromise ---------------------------
(***************************************************************************)
(* What a worker promises its server, with no thread, eventfd or socket in *)
(* sight: it asks for one task per thread, then answers every task it was  *)
(* given once, with the result of that very task, and an answer asks for   *)
(* one more.  This is what ClusterServer takes a worker to be, and what    *)
(* ClusterClient implements.                                               *)
(***************************************************************************)
EXTENDS Integers

CONSTANTS
  Task,        \* the tasks the server may send
  MaxThreads   \* the threads of the worker

VARIABLES
  unrequested,   \* threads no task was asked for yet
  asked,         \* requests the server has not answered
  held,          \* tasks given to the worker and not answered
  answers        \* the results that left: [task, value]

vars == <<unrequested, asked, held, answers>>

Init ==
  /\ unrequested = MaxThreads
  /\ asked = 0
  /\ held = {}
  /\ answers = {}

Ask ==
  /\ unrequested > 0
  /\ unrequested' = unrequested - 1
  /\ asked' = asked + 1
  /\ UNCHANGED <<held, answers>>

\* The server's step.
Give(t) ==
  /\ asked > 0
  /\ asked' = asked - 1
  /\ held' = held \cup {t}
  /\ UNCHANGED <<unrequested, answers>>

Answer(t) ==
  /\ unrequested = 0
  /\ t \in held
  /\ held' = held \ {t}
  /\ answers' = answers \cup {[task |-> t, value |-> t]}
  /\ asked' = asked + 1
  /\ UNCHANGED unrequested

Next == Ask \/ \E t \in Task : Give(t) \/ Answer(t)

Spec == Init /\ [][Next]_vars

=============================================================================
