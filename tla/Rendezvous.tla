----------------------------- MODULE Rendezvous -----------------------------
(***************************************************************************)
(* What discovery is for, with no datagram, timer or thread in sight:      *)
(* servers come and go, and a worker joins at most one server in its life, *)
(* which is listening when it does, and never changes it.                  *)
(***************************************************************************)
CONSTANTS
  Server,
  Worker,
  NoServer     \* the home of a worker that has not joined any

VARIABLES
  up,          \* the servers that listen for connections
  home,        \* the server each worker has joined
  ended        \* the workers whose process has ended

vars == <<up, home, ended>>

Init ==
  /\ up = {}
  /\ home = [w \in Worker |-> NoServer]
  /\ ended = {}

ServerComes(s) ==
  /\ s \notin up
  /\ up' = up \cup {s}
  /\ UNCHANGED <<home, ended>>

ServerGoes(s) ==
  /\ s \in up
  /\ up' = up \ {s}
  /\ UNCHANGED <<home, ended>>

Join(w, s) ==
  /\ w \notin ended
  /\ home[w] = NoServer
  /\ s \in up
  /\ home' = [home EXCEPT ![w] = s]
  /\ UNCHANGED <<up, ended>>

End(w) ==
  /\ w \notin ended
  /\ ended' = ended \cup {w}
  /\ UNCHANGED <<up, home>>

Next ==
  \/ \E s \in Server : ServerComes(s) \/ ServerGoes(s)
  \/ \E w \in Worker : End(w) \/ \E s \in Server : Join(w, s)

Spec == Init /\ [][Next]_vars

=============================================================================
