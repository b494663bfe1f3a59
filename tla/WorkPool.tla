------------------------------ MODULE WorkPool ------------------------------
(***************************************************************************)
(* What the cluster promises about its tasks, with no table, counter or    *)
(* socket in sight: every task is at any time either waiting, held by      *)
(* exactly one holder, or done; a holder takes a waiting task, finishes a  *)
(* task it holds, or gives back everything it holds; what is done stays    *)
(* done.  TaskManagement implements this specification, and ClusterServer  *)
(* implements it under every interleaving of its event loop.               *)
(***************************************************************************)

CONSTANTS
  Task,     \* the tasks of one compute_task() call
  Holder    \* who may hold a task: the cells of the connection table

VARIABLES
  todo,     \* tasks nobody works on
  done,     \* tasks whose result has arrived
  held      \* held[h]: the tasks handed to holder h and not answered yet

vars == <<todo, done, held>>

Init ==
  /\ todo = Task
  /\ done = {}
  /\ held = [h \in Holder |-> {}]

Take(h) ==
  \E t \in todo :
    /\ todo' = todo \ {t}
    /\ held' = [held EXCEPT ![h] = @ \cup {t}]
    /\ UNCHANGED done

Finish(h) ==
  \E t \in held[h] :
    /\ done' = done \cup {t}
    /\ held' = [held EXCEPT ![h] = @ \ {t}]
    /\ UNCHANGED todo

GiveBack(h) ==
  /\ todo' = todo \cup held[h]
  /\ held' = [held EXCEPT ![h] = {}]
  /\ UNCHANGED done

Next == \E h \in Holder : Take(h) \/ Finish(h) \/ GiveBack(h)

Spec == Init /\ [][Next]_vars

=============================================================================
