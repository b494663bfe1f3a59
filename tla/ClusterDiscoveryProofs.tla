----------------------- MODULE ClusterDiscoveryProofs ------------------------
(***************************************************************************)
(* Theorems about discovery, for any number of servers and workers and     *)
(* sockets of any size.                                                    *)
(***************************************************************************)
EXTENDS ClusterDiscovery, TLAPS

-----------------------------------------------------------------------------
(* The inductive invariant                                                 *)

\* A worker with a hostname has nothing of discovery.
Named(w) ==
  ~local[w] =>
    /\ watched[w] = {} /\ inbox[w] = <<>> /\ batch[w] = {}
    /\ ~armed[w] /\ ~expired[w]
    /\ addr[w] \in Server
    /\ main[w] \in {"begin", "looping", "running"}
    /\ pc[w] \in {"wait", "err_connect", "bug_mode", "left"}
    /\ main[w] # "running" => conn[w] = "none" /\ pc[w] # "left"

\* What the starting thread has registered when it has got so far.
WatchedAt == [begin |-> {}, looping |-> {}, socket |-> {"socket"},
              timer |-> {"socket", "timer"}, running |-> {"socket", "timer"}]

\* Until the pause just that is registered, and after it nothing.
Registered(w) ==
  local[w] =>
    /\ conn[w] = "none" \/ pc[w] = "pause" => watched[w] = WatchedAt[main[w]]
    /\ conn[w] # "none" /\ pc[w] = "err_pause" => main[w] = "socket"
    /\ conn[w] # "none" /\ pc[w] \notin {"pause", "err_pause"} =>
         watched[w] = {} /\ main[w] \in {"timer", "running"}
    /\ pc[w] # "wait" => main[w] \in {"socket", "timer", "running"}

\* The timer expires only once it is armed.
Timed(w) ==
  /\ armed[w] \/ expired[w] \/ "timer" \in batch[w] => main[w] = "running"
  /\ local[w] /\ main[w] = "running" /\ conn[w] = "none" /\ Alive(w) => armed[w]
  /\ pc[w] \in {"dispatch", "compare"} /\ conn[w] = "none" /\ "timer" \in batch[w] => expired[w]
  /\ pc[w] = "err_timer" => conn[w] # "none" /\ main[w] = "running"

\* A worker connects once.
Joined(w) ==
  /\ pc[w] \in {"pause", "err_pause"} => conn[w] # "none"
  /\ pc[w] \in {"connect", "compare", "err_stray"} => conn[w] = "none"
  /\ conn[w] # "none" \/ pc[w] = "connect" => "socket" \notin batch[w]

\* The servers a worker knows of were running.
Sender(s) == s \in Stable => stage[s] = "running"

Heard(w) ==
  /\ \A i \in DOMAIN inbox[w] : Sender(inbox[w][i])
  /\ pc[w] = "connect" => addr[w] \in Server /\ Sender(addr[w])
  /\ local[w] /\ pc[w] = "err_connect" => addr[w] \notin Stable

WorkerInv(w) == Named(w) /\ Registered(w) /\ Timed(w) /\ Joined(w) /\ Heard(w)

Inv == TypeOK /\ \A w \in Worker : WorkerInv(w)

-----------------------------------------------------------------------------
(* Queues                                                                  *)

LEMMA BroadcastType ==
  ASSUME NEW R, NEW D, NEW queue \in [R -> Seq(D)], NEW d \in D, NEW heard
  PROVE  /\ Broadcast(queue, d, heard) \in [R -> Seq(D)]
         /\ \A r \in R : Broadcast(queue, d, heard)[r] =
                          IF r \in heard THEN Append(queue[r], d) ELSE queue[r]
<1>1. \A r \in R : Append(queue[r], d) \in Seq(D)
  OBVIOUS
<1> QED
  BY <1>1 DEF Broadcast

LEMMA AfterType ==
  ASSUME NEW D, NEW queue \in Seq(D), NEW i \in DOMAIN queue
  PROVE  /\ After(queue, i) \in Seq(D)
         /\ \A j \in DOMAIN After(queue, i) : \E l \in DOMAIN queue : After(queue, i)[j] = queue[l]
<1>1. i \in 1 .. Len(queue) /\ Len(queue) \in Nat
  OBVIOUS
<1>2. /\ After(queue, i) \in Seq(D) /\ Len(After(queue, i)) = Len(queue) - i
      /\ \A j \in 1 .. Len(queue) - i : After(queue, i)[j] = queue[i + j]
  BY <1>1 DEF After
<1>3. \A j \in 1 .. Len(queue) - i : i + j \in DOMAIN queue
  BY <1>1
<1>4. DOMAIN After(queue, i) = 1 .. Len(queue) - i
  BY <1>1, <1>2
<1> QED
  BY <1>2, <1>3, <1>4

LEMMA Stages ==
  /\ WatchedAt["begin"] = {} /\ WatchedAt["looping"] = {} /\ WatchedAt["socket"] = {"socket"}
  /\ WatchedAt["timer"] = {"socket", "timer"} /\ WatchedAt["running"] = {"socket", "timer"}
  BY DEF WatchedAt

-----------------------------------------------------------------------------
(* What a step of others leaves alone                                      *)

\* Only the servers that may stop do.
KeptUp == \A s \in Stable : stage[s] = "running" => stage'[s] = "running"

Untouched(v) ==
  /\ main'[v] = main[v] /\ watched'[v] = watched[v]
  /\ armed'[v] = armed[v] /\ expired'[v] = expired[v]
  /\ pc'[v] = pc[v] /\ batch'[v] = batch[v] /\ addr'[v] = addr[v]

LEMMA SameWorker ==
  ASSUME NEW v \in Worker, WorkerInv(v), UNCHANGED startVars, KeptUp, Untouched(v),
         inbox'[v] = inbox[v], conn'[v] = conn[v]
  PROVE  WorkerInv(v)'
<1> USE DEF KeptUp, Untouched, WorkerInv, startVars
<1>1. Named(v)'
  BY DEF Named
<1>2. Registered(v)'
  BY DEF Registered
<1>3. Timed(v)'
  BY DEF Timed, Alive
<1>4. Joined(v)'
  BY DEF Joined
<1>5. Heard(v)'
  BY DEF Heard, Sender
<1> QED
  BY <1>1, <1>2, <1>3, <1>4, <1>5

-----------------------------------------------------------------------------
(* One lemma for each step of a worker                                     *)

LEMMA StartClientKeeps ==
  ASSUME Inv, NEW w \in Worker, StartClient(w)
  PROVE  Inv'
<1>1. TypeOK'
  BY DEF StartClient, Inv, TypeOK, serverVars, epollVars, loopVars, startVars
<1>2. KeptUp /\ UNCHANGED startVars
  BY DEF StartClient, KeptUp, serverVars
<1>3. WorkerInv(w)'
  <2>1. WorkerInv(w) /\ TypeOK
    BY DEF Inv
  <2>2. Named(w)'
    BY <2>1 DEF StartClient, WorkerInv, Named, epollVars, loopVars, startVars
  <2>3. Registered(w)'
    BY <2>1, Stages DEF StartClient, WorkerInv, Registered, epollVars, loopVars,
       startVars
  <2>4. Timed(w)'
    BY <2>1 DEF StartClient, WorkerInv, Timed, epollVars, loopVars
  <2>5. Joined(w)'
    BY <2>1 DEF StartClient, WorkerInv, Joined, loopVars
  <2>6. Heard(w)'
    BY <2>1 DEF StartClient, WorkerInv, Heard, Sender, serverVars, loopVars,
       startVars
  <2> QED
    BY <2>2, <2>3, <2>4, <2>5, <2>6 DEF WorkerInv
<1>4. ASSUME NEW v \in Worker \ {w} PROVE WorkerInv(v)'
  <2>1. Untouched(v) /\ inbox'[v] = inbox[v] /\ conn'[v] = conn[v]
    BY DEF StartClient, Untouched, epollVars, loopVars
  <2> QED
    BY <1>2, <2>1, SameWorker DEF Inv
<1> QED
  BY <1>1, <1>3, <1>4 DEF Inv

LEMMA RegisterSocketKeeps ==
  ASSUME Inv, NEW w \in Worker, RegisterSocket(w)
  PROVE  Inv'
<1>1. TypeOK'
  BY DEF RegisterSocket, Inv, TypeOK, serverVars, loopVars, startVars
<1>2. KeptUp /\ UNCHANGED startVars
  BY DEF RegisterSocket, KeptUp, serverVars
<1>3. WorkerInv(w)'
  <2>1. WorkerInv(w) /\ TypeOK
    BY DEF Inv
  <2>2. Named(w)'
    BY <2>1 DEF RegisterSocket, Named, startVars
  <2>3. Registered(w)'
    BY <2>1, Stages DEF RegisterSocket, TypeOK, WorkerInv, Registered, loopVars
  <2>4. Timed(w)'
    BY <2>1 DEF RegisterSocket, WorkerInv, Timed, loopVars
  <2>5. Joined(w)'
    BY <2>1 DEF RegisterSocket, WorkerInv, Joined, loopVars
  <2>6. Heard(w)'
    BY <2>1 DEF RegisterSocket, WorkerInv, Heard, Sender, serverVars, loopVars
  <2> QED
    BY <2>2, <2>3, <2>4, <2>5, <2>6 DEF WorkerInv
<1>4. ASSUME NEW v \in Worker \ {w} PROVE WorkerInv(v)'
  <2>1. Untouched(v) /\ inbox'[v] = inbox[v] /\ conn'[v] = conn[v]
    BY DEF RegisterSocket, Untouched, loopVars
  <2> QED
    BY <1>2, <2>1, SameWorker DEF Inv
<1> QED
  BY <1>1, <1>3, <1>4 DEF Inv

LEMMA RegisterTimerKeeps ==
  ASSUME Inv, NEW w \in Worker, RegisterTimer(w)
  PROVE  Inv'
<1>1. TypeOK'
  BY DEF RegisterTimer, Inv, TypeOK, serverVars, loopVars, startVars
<1>2. KeptUp /\ UNCHANGED startVars
  BY DEF RegisterTimer, KeptUp, serverVars
<1>3. WorkerInv(w)'
  <2>1. WorkerInv(w) /\ TypeOK
    BY DEF Inv
  <2>2. Named(w)'
    BY <2>1 DEF RegisterTimer, WorkerInv, Named, startVars
  <2>3. Registered(w)'
    BY <2>1, Stages DEF RegisterTimer, TypeOK, WorkerInv, Named, Registered,
       Alive, Died, loopVars
  <2>4. Timed(w)'
    BY <2>1 DEF RegisterTimer, WorkerInv, Timed, loopVars
  <2>5. Joined(w)'
    BY <2>1 DEF RegisterTimer, WorkerInv, Joined, loopVars
  <2>6. Heard(w)'
    BY <2>1 DEF RegisterTimer, WorkerInv, Named, Heard, Sender, serverVars,
       loopVars
  <2> QED
    BY <2>2, <2>3, <2>4, <2>5, <2>6 DEF WorkerInv
<1>4. ASSUME NEW v \in Worker \ {w} PROVE WorkerInv(v)'
  <2>1. Untouched(v) /\ inbox'[v] = inbox[v] /\ conn'[v] = conn[v]
    BY DEF RegisterTimer, Untouched, loopVars
  <2> QED
    BY <1>2, <2>1, SameWorker DEF Inv
<1> QED
  BY <1>1, <1>3, <1>4 DEF Inv

LEMMA ArmTimerKeeps ==
  ASSUME Inv, NEW w \in Worker, ArmTimer(w)
  PROVE  Inv'
<1>1. TypeOK'
  BY DEF ArmTimer, Inv, TypeOK, serverVars, loopVars, startVars
<1>2. KeptUp /\ UNCHANGED startVars
  BY DEF ArmTimer, KeptUp, serverVars
<1>3. WorkerInv(w)'
  <2>1. WorkerInv(w) /\ TypeOK
    BY DEF Inv
  <2>2. Named(w)'
    BY <2>1 DEF ArmTimer, WorkerInv, Named, startVars
  <2>3. Registered(w)'
    BY <2>1, Stages DEF ArmTimer, TypeOK, WorkerInv, Named, Registered, loopVars
  <2>4. Timed(w)'
    BY <2>1 DEF ArmTimer, TypeOK, WorkerInv, Timed, loopVars
  <2>5. Joined(w)'
    BY <2>1 DEF ArmTimer, WorkerInv, Joined, loopVars
  <2>6. Heard(w)'
    BY <2>1 DEF ArmTimer, WorkerInv, Named, Heard, Sender, serverVars, loopVars
  <2> QED
    BY <2>2, <2>3, <2>4, <2>5, <2>6 DEF WorkerInv
<1>4. ASSUME NEW v \in Worker \ {w} PROVE WorkerInv(v)'
  <2>1. Untouched(v) /\ inbox'[v] = inbox[v] /\ conn'[v] = conn[v]
    BY DEF ArmTimer, Untouched, loopVars
  <2> QED
    BY <1>2, <2>1, SameWorker DEF Inv
<1> QED
  BY <1>1, <1>3, <1>4 DEF Inv

LEMMA ConnectToHostKeeps ==
  ASSUME Inv, NEW w \in Worker, ConnectToHost(w)
  PROVE  Inv'
<1>1. TypeOK'
  BY DEF ConnectToHost, Inv, TypeOK, serverVars, epollVars, startVars
<1>2. KeptUp /\ UNCHANGED startVars
  BY DEF ConnectToHost, KeptUp, serverVars
<1>3. WorkerInv(w)'
  <2>1. WorkerInv(w) /\ TypeOK
    BY DEF Inv
  <2>2. Named(w)'
    BY <2>1 DEF ConnectToHost, TypeOK, WorkerInv, Named, epollVars
  <2>3. Registered(w)'
    BY <2>1, Stages DEF ConnectToHost, TypeOK, WorkerInv, Named, Registered,
       epollVars
  <2>4. Timed(w)'
    BY <2>1 DEF ConnectToHost, TypeOK, Timed
  <2>5. Joined(w)'
    BY <2>1 DEF ConnectToHost, WorkerInv, Named, Joined
  <2>6. Heard(w)'
    BY <2>1 DEF ConnectToHost, WorkerInv, Named, Heard, Alive, Died
  <2> QED
    BY <2>2, <2>3, <2>4, <2>5, <2>6 DEF WorkerInv
<1>4. ASSUME NEW v \in Worker \ {w} PROVE WorkerInv(v)'
  <2>1. Untouched(v) /\ inbox'[v] = inbox[v] /\ conn'[v] = conn[v]
    BY DEF ConnectToHost, Untouched, epollVars
  <2> QED
    BY <1>2, <2>1, SameWorker DEF Inv
<1> QED
  BY <1>1, <1>3, <1>4 DEF Inv

LEMMA HostIsDownKeeps ==
  ASSUME Inv, NEW w \in Worker, HostIsDown(w)
  PROVE  Inv'
<1>1. TypeOK'
  BY DEF HostIsDown, Inv, TypeOK, Died, Ended, serverVars, epollVars, startVars
<1>2. KeptUp /\ UNCHANGED startVars
  BY DEF HostIsDown, KeptUp, serverVars
<1>3. WorkerInv(w)'
  <2>1. WorkerInv(w) /\ TypeOK
    BY DEF Inv
  <2>2. Named(w)'
    BY <2>1 DEF HostIsDown, WorkerInv, Named, epollVars
  <2>3. Registered(w)'
    BY <2>1, Stages DEF HostIsDown, Registered, startVars
  <2>4. Timed(w)'
    BY <2>1 DEF HostIsDown, WorkerInv, Timed, epollVars
  <2>5. Joined(w)'
    BY <2>1 DEF HostIsDown, WorkerInv, Joined
  <2>6. Heard(w)'
    BY <2>1 DEF HostIsDown, WorkerInv, Named, Heard, startVars
  <2> QED
    BY <2>2, <2>3, <2>4, <2>5, <2>6 DEF WorkerInv
<1>4. ASSUME NEW v \in Worker \ {w} PROVE WorkerInv(v)'
  <2>1. Untouched(v) /\ inbox'[v] = inbox[v] /\ conn'[v] = conn[v]
    BY DEF HostIsDown, Untouched, epollVars
  <2> QED
    BY <1>2, <2>1, SameWorker DEF Inv
<1> QED
  BY <1>1, <1>3, <1>4 DEF Inv

LEMMA FirstEventKeeps ==
  ASSUME Inv, NEW w \in Worker, FirstEvent(w)
  PROVE  Inv'
<1>1. TypeOK'
  BY DEF FirstEvent, Inv, TypeOK, Died, Ended, serverVars, epollVars, startVars
<1>2. KeptUp /\ UNCHANGED startVars
  BY DEF FirstEvent, KeptUp, serverVars
<1>3. WorkerInv(w)'
  <2>1. WorkerInv(w) /\ TypeOK
    BY DEF Inv
  <2>2. Named(w)'
    BY <2>1 DEF FirstEvent, WorkerInv, Named, epollVars
  <2>3. Registered(w)'
    BY <2>1, Stages DEF FirstEvent, WorkerInv, Named, Registered, epollVars
  <2>4. Timed(w)'
    BY <2>1 DEF FirstEvent, WorkerInv, Named, Timed
  <2>5. Joined(w)'
    BY <2>1 DEF FirstEvent, WorkerInv, Joined
  <2>6. Heard(w)'
    BY <2>1 DEF FirstEvent, WorkerInv, Named, Heard
  <2> QED
    BY <2>2, <2>3, <2>4, <2>5, <2>6 DEF WorkerInv
<1>4. ASSUME NEW v \in Worker \ {w} PROVE WorkerInv(v)'
  <2>1. Untouched(v) /\ inbox'[v] = inbox[v] /\ conn'[v] = conn[v]
    BY DEF FirstEvent, Untouched, epollVars
  <2> QED
    BY <1>2, <2>1, SameWorker DEF Inv
<1> QED
  BY <1>1, <1>3, <1>4 DEF Inv

LEMMA TickKeeps ==
  ASSUME Inv, NEW w \in Worker, Tick(w)
  PROVE  Inv'
<1>1. TypeOK'
  BY DEF Tick, Inv, TypeOK, serverVars, loopVars, startVars
<1>2. KeptUp /\ UNCHANGED startVars
  BY DEF Tick, KeptUp, serverVars
<1>3. WorkerInv(w)'
  <2>1. WorkerInv(w) /\ TypeOK
    BY DEF Inv
  <2>2. Named(w)'
    BY <2>1 DEF Tick, WorkerInv, Named, startVars
  <2>3. Registered(w)'
    BY <2>1, Stages DEF Tick, WorkerInv, Named, Registered, loopVars
  <2>4. Timed(w)'
    BY <2>1 DEF Tick, DISCOVERY_REPEAT_INTERVAL, TypeOK, WorkerInv,
       Timed, loopVars
  <2>5. Joined(w)'
    BY <2>1 DEF Tick, WorkerInv, Joined, loopVars
  <2>6. Heard(w)'
    BY <2>1 DEF Tick, WorkerInv, Named, Heard, Sender, serverVars, loopVars
  <2> QED
    BY <2>2, <2>3, <2>4, <2>5, <2>6 DEF WorkerInv
<1>4. ASSUME NEW v \in Worker \ {w} PROVE WorkerInv(v)'
  <2>1. Untouched(v) /\ inbox'[v] = inbox[v] /\ conn'[v] = conn[v]
    BY DEF Tick, Untouched, loopVars
  <2> QED
    BY <1>2, <2>1, SameWorker DEF Inv
<1> QED
  BY <1>1, <1>3, <1>4 DEF Inv

LEMMA EpollWaitKeeps ==
  ASSUME Inv, NEW w \in Worker, EpollWait(w)
  PROVE  Inv'
<1>1. TypeOK'
  BY DEF EpollWait, Ready, Inv, TypeOK, serverVars, epollVars, startVars
<1>2. KeptUp /\ UNCHANGED startVars
  BY DEF EpollWait, KeptUp, serverVars
<1>3. WorkerInv(w)'
  <2>1. WorkerInv(w) /\ TypeOK
    BY DEF Inv
  <2>2. Named(w)'
    BY <2>1 DEF EpollWait, Ready, WorkerInv, Named, startVars
  <2>3. Registered(w)'
    BY <2>1, Stages DEF EpollWait, Ready, TypeOK, WorkerInv, Named, Registered,
       epollVars
  <2>4. Timed(w)'
    BY <2>1 DEF EpollWait, Ready, TypeOK, WorkerInv, Named, Timed,
       Alive, Died, epollVars
  <2>5. Joined(w)'
    BY <2>1 DEF EpollWait, Ready, WorkerInv, Named, Registered, Joined
  <2>6. Heard(w)'
    BY <2>1 DEF EpollWait, WorkerInv, Heard, Sender, serverVars
  <2> QED
    BY <2>2, <2>3, <2>4, <2>5, <2>6 DEF WorkerInv
<1>4. ASSUME NEW v \in Worker \ {w} PROVE WorkerInv(v)'
  <2>1. Untouched(v) /\ inbox'[v] = inbox[v] /\ conn'[v] = conn[v]
    BY DEF EpollWait, Untouched, epollVars
  <2> QED
    BY <1>2, <2>1, SameWorker DEF Inv
<1> QED
  BY <1>1, <1>3, <1>4 DEF Inv

LEMMA CatchReplyKeeps ==
  ASSUME Inv, NEW w \in Worker, CatchReply(w)
  PROVE  Inv'
<1>1. TypeOK'
  <2>1. PICK i \in DOMAIN inbox[w] :
          /\ IsFirstGenuine(i, inbox[w])
          /\ addr'  = [addr EXCEPT ![w] = inbox[w][i]]
          /\ inbox' = [inbox EXCEPT ![w] = After(@, i)]
    BY DEF CatchReply
  <2>2. inbox[w] \in Seq(Server \cup {Junk})
    BY DEF Inv, TypeOK
  <2>3. inbox[w][i] \in Server
    BY <2>1, <2>2 DEF IsFirstGenuine
  <2>4. After(inbox[w], i) \in Seq(Server \cup {Junk})
    BY <2>2, AfterType
  <2>5. inbox' \in [Worker -> Seq(Server \cup {Junk})] /\ addr' \in [Worker -> Server \cup {NoServer}]
    BY <2>1, <2>3, <2>4 DEF Inv, TypeOK
  <2>6. /\ UNCHANGED <<serverVars, startVars, main, epollVars, conn>>
        /\ pc' = [pc EXCEPT ![w] = "connect"]
        /\ batch' = [batch EXCEPT ![w] = @ \ {"socket"}]
    BY DEF CatchReply
  <2> QED
    BY <2>5, <2>6 DEF Inv, TypeOK, serverVars, startVars, epollVars
<1>2. KeptUp /\ UNCHANGED startVars
  BY DEF CatchReply, KeptUp, serverVars
<1>3. WorkerInv(w)'
  <2>1. WorkerInv(w) /\ TypeOK
    BY DEF Inv
  <2>2. Named(w)'
    BY <2>1 DEF CatchReply, WorkerInv, Named, startVars
  <2>3. Registered(w)'
    BY <2>1, Stages DEF CatchReply, WorkerInv, Named, Registered, epollVars
  <2>4. Timed(w)'
    BY <2>1 DEF CatchReply, WorkerInv, Named, Timed, Alive, Died,
       epollVars
  <2>5. Joined(w)'
    BY <2>1 DEF CatchReply, TypeOK, WorkerInv, Joined
  <2>6. Heard(w)'
    <3>1. PICK i \in DOMAIN inbox[w] :
            /\ IsFirstGenuine(i, inbox[w])
            /\ addr'  = [addr EXCEPT ![w] = inbox[w][i]]
            /\ inbox' = [inbox EXCEPT ![w] = After(@, i)]
      BY DEF CatchReply
    <3>2. inbox[w] \in Seq(Server \cup {Junk})
      BY <2>1 DEF TypeOK
    <3>3. inbox[w][i] \in Server /\ Sender(inbox[w][i])
      BY <2>1, <3>1, <3>2 DEF IsFirstGenuine, WorkerInv, Heard
    <3>4. \A j \in DOMAIN After(inbox[w], i) : Sender(After(inbox[w], i)[j])
      BY <2>1, <3>2, AfterType DEF WorkerInv, Heard
    <3>5. addr'[w] = inbox[w][i] /\ inbox'[w] = After(inbox[w], i) /\ pc'[w] = "connect" /\ stage' = stage
      BY <2>1, <3>1 DEF CatchReply, TypeOK, serverVars
    <3>6. \A s : Sender(s)' <=> Sender(s)
      BY <3>5 DEF Sender
    <3> QED
      BY <3>3, <3>4, <3>5, <3>6, Zenon DEF Heard
  <2> QED
    BY <2>2, <2>3, <2>4, <2>5, <2>6 DEF WorkerInv
<1>4. ASSUME NEW v \in Worker \ {w} PROVE WorkerInv(v)'
  <2>1. Untouched(v) /\ inbox'[v] = inbox[v] /\ conn'[v] = conn[v]
    BY DEF CatchReply, Untouched, epollVars
  <2> QED
    BY <1>2, <2>1, SameWorker DEF Inv
<1> QED
  BY <1>1, <1>3, <1>4 DEF Inv

LEMMA CatchJunkKeeps ==
  ASSUME Inv, NEW w \in Worker, CatchJunk(w)
  PROVE  Inv'
<1>1. TypeOK'
  BY DEF CatchJunk, AfterEvent, Inv, TypeOK, serverVars, epollVars, startVars
<1>2. KeptUp /\ UNCHANGED startVars
  BY DEF CatchJunk, KeptUp, serverVars
<1>3. WorkerInv(w)'
  <2>1. WorkerInv(w) /\ TypeOK
    BY DEF Inv
  <2>2. Named(w)'
    BY <2>1 DEF CatchJunk, WorkerInv, Named, startVars
  <2>3. Registered(w)'
    BY <2>1, Stages DEF CatchJunk, AfterEvent, WorkerInv, Named, Registered,
       epollVars
  <2>4. Timed(w)'
    BY <2>1 DEF CatchJunk, AfterEvent, WorkerInv, Named, Timed, Alive,
       Died, epollVars
  <2>5. Joined(w)'
    BY <2>1 DEF CatchJunk, AfterEvent, TypeOK, Joined
  <2>6. Heard(w)'
    BY <2>1 DEF CatchJunk, AfterEvent, TypeOK, Heard
  <2> QED
    BY <2>2, <2>3, <2>4, <2>5, <2>6 DEF WorkerInv
<1>4. ASSUME NEW v \in Worker \ {w} PROVE WorkerInv(v)'
  <2>1. Untouched(v) /\ inbox'[v] = inbox[v] /\ conn'[v] = conn[v]
    BY DEF CatchJunk, Untouched, epollVars
  <2> QED
    BY <1>2, <2>1, SameWorker DEF Inv
<1> QED
  BY <1>1, <1>3, <1>4 DEF Inv

LEMMA ConnectToSenderKeeps ==
  ASSUME Inv, NEW w \in Worker, ConnectToSender(w)
  PROVE  Inv'
<1>1. TypeOK'
  <2>1. TypeOK
    BY DEF Inv
  <2>2. /\ pc' = [pc EXCEPT ![w] = "pause"] \/ pc' = [pc EXCEPT ![w] = "err_connect"]
        /\ conn' = conn \/ conn' = [conn EXCEPT ![w] = "open"]
    BY DEF ConnectToSender
  <2>3. UNCHANGED <<serverVars, main, epollVars, inbox, batch, addr, startVars>>
    BY DEF ConnectToSender
  <2>4. /\ pc' \in [Worker -> {"wait", "dispatch", "connect", "pause", "compare"} \cup Ended]
        /\ conn' \in [Worker -> {"none", "open", "broken"}]
    BY <2>1, <2>2 DEF TypeOK, Ended, Died
  <2> QED
    BY <2>1, <2>3, <2>4 DEF TypeOK, serverVars, epollVars, startVars
<1>2. KeptUp /\ UNCHANGED startVars
  BY DEF ConnectToSender, KeptUp, serverVars
<1>3. WorkerInv(w)'
  <2>1. WorkerInv(w) /\ TypeOK
    BY DEF Inv
  <2>2. Named(w)'
    BY <2>1 DEF ConnectToSender, WorkerInv, Named, startVars
  <2>3. Registered(w)'
    BY <2>1, Stages DEF ConnectToSender, TypeOK, WorkerInv, Named, Registered,
       Joined, epollVars
  <2>4. Timed(w)'
    BY <2>1 DEF ConnectToSender, TypeOK, WorkerInv, Timed, Alive, Died,
       epollVars
  <2>5. Joined(w)'
    BY <2>1 DEF ConnectToSender, TypeOK, WorkerInv, Joined
  <2>6. Heard(w)'
    BY <2>1 DEF ConnectToSender, Listens, DISCOVERY_SERVER_PORT,
       CONNECTION_PORT, TypeOK, WorkerInv, Heard, Sender, serverVars
  <2> QED
    BY <2>2, <2>3, <2>4, <2>5, <2>6 DEF WorkerInv
<1>4. ASSUME NEW v \in Worker \ {w} PROVE WorkerInv(v)'
  <2>1. Untouched(v) /\ inbox'[v] = inbox[v] /\ conn'[v] = conn[v]
    BY DEF ConnectToSender, Inv, TypeOK, Untouched, epollVars
  <2> QED
    BY <1>2, <2>1, SameWorker DEF Inv
<1> QED
  BY <1>1, <1>3, <1>4 DEF Inv

LEMMA PauseDiscoveryKeeps ==
  ASSUME Inv, NEW w \in Worker, PauseDiscovery(w)
  PROVE  Inv'
<1>1. TypeOK'
  <2>1. TypeOK
    BY DEF Inv
  <2>2. pc' = [pc EXCEPT ![w] = "dispatch"] \/ pc' = [pc EXCEPT ![w] = "err_pause"]
    BY DEF PauseDiscovery
  <2>3. \/ /\ watched' = [watched EXCEPT ![w] = {}]
           /\ armed' = [armed EXCEPT ![w] = FALSE]
           /\ expired' = [expired EXCEPT ![w] = FALSE]
        \/ UNCHANGED epollVars
    BY DEF PauseDiscovery
  <2>4. UNCHANGED <<serverVars, main, inbox, batch, addr, conn, startVars>>
    BY DEF PauseDiscovery
  <2>5. pc' \in [Worker -> {"wait", "dispatch", "connect", "pause", "compare"} \cup Ended]
    BY <2>1, <2>2 DEF TypeOK, Ended, Died
  <2>6. /\ watched' \in [Worker -> SUBSET {"socket", "timer"}]
        /\ armed' \in [Worker -> BOOLEAN] /\ expired' \in [Worker -> BOOLEAN]
    BY <2>1, <2>3 DEF TypeOK, epollVars
  <2> QED
    BY <2>1, <2>4, <2>5, <2>6 DEF TypeOK, serverVars, startVars
<1>2. KeptUp /\ UNCHANGED startVars
  BY DEF PauseDiscovery, KeptUp, serverVars
<1>3. WorkerInv(w)'
  <2>1. WorkerInv(w) /\ TypeOK
    BY DEF Inv
  <2>2. Named(w)'
    BY <2>1 DEF PauseDiscovery, WorkerInv, Named, startVars
  <2>3. Registered(w)'
    <3>1. /\ main' = main /\ conn' = conn /\ local' = local
          /\ main[w] \in {"begin", "looping", "socket", "timer", "running"}
          /\ pc[w] = "pause"
      BY <2>1 DEF PauseDiscovery, TypeOK, startVars
    <3>2. /\ local[w] /\ conn[w] # "none"
          /\ watched[w] = WatchedAt[main[w]] /\ main[w] \in {"socket", "timer", "running"}
      BY <2>1, <3>1 DEF WorkerInv, Named, Joined, Registered
    <3>3. CASE watched[w] = {"socket", "timer"}
      <4>1. /\ watched' = [watched EXCEPT ![w] = {}]
            /\ pc' = [pc EXCEPT ![w] = "dispatch"]
        BY <3>3 DEF PauseDiscovery
      <4>2. watched'[w] = {} /\ pc'[w] = "dispatch"
        BY <2>1, <4>1 DEF TypeOK
      <4>3. main[w] # "socket"
        <5>1. "timer" \in WatchedAt[main[w]] /\ "timer" \notin WatchedAt["socket"]
          BY <3>2, <3>3, Stages
        <5> QED
          BY <5>1
      <4> QED
        BY <3>1, <3>2, <4>2, <4>3 DEF Registered
    <3>4. CASE watched[w] # {"socket", "timer"}
      <4>1. pc' = [pc EXCEPT ![w] = "err_pause"]
        BY <3>4 DEF PauseDiscovery
      <4>2. pc'[w] = "err_pause"
        BY <2>1, <4>1 DEF TypeOK
      <4>3. main[w] = "socket"
        BY <3>2, <3>4, Stages
      <4> QED
        BY <3>1, <3>2, <4>2, <4>3 DEF Registered
    <3> QED
      BY <3>3, <3>4
  <2>4. Timed(w)'
    BY <2>1 DEF PauseDiscovery, TypeOK, WorkerInv, Joined, Timed,
       epollVars
  <2>5. Joined(w)'
    BY <2>1 DEF PauseDiscovery, TypeOK, WorkerInv, Joined
  <2>6. Heard(w)'
    BY <2>1 DEF PauseDiscovery, TypeOK, WorkerInv, Heard, Sender, serverVars
  <2> QED
    BY <2>2, <2>3, <2>4, <2>5, <2>6 DEF WorkerInv
<1>4. ASSUME NEW v \in Worker \ {w} PROVE WorkerInv(v)'
  <2>1. Untouched(v) /\ inbox'[v] = inbox[v] /\ conn'[v] = conn[v]
    BY DEF PauseDiscovery, Inv, TypeOK, Untouched, epollVars
  <2> QED
    BY <1>2, <2>1, SameWorker DEF Inv
<1> QED
  BY <1>1, <1>3, <1>4 DEF Inv

LEMMA CompareDescriptorKeeps ==
  ASSUME Inv, NEW w \in Worker, CompareDescriptor(w)
  PROVE  Inv'
<1>1. TypeOK'
  <2>1. inbox[w] \in Seq(Server \cup {Junk})
    BY DEF Inv, TypeOK
  <2>2. inbox[w] # <<>> => Tail(inbox[w]) \in Seq(Server \cup {Junk})
    BY <2>1
  <2>3. \/ inbox' = inbox
        \/ inbox[w] # <<>> /\ inbox' = [inbox EXCEPT ![w] = Tail(inbox[w])]
        \/ inbox[w] = <<>> /\ inbox' = [inbox EXCEPT ![w] = inbox[w]]
    BY DEF CompareDescriptor
  <2>4. inbox' \in [Worker -> Seq(Server \cup {Junk})]
    BY <2>1, <2>2, <2>3 DEF Inv, TypeOK
  <2> QED
    BY <2>4 DEF CompareDescriptor, Inv, TypeOK, Died, Ended, serverVars,
       startVars, epollVars
<1>2. KeptUp /\ UNCHANGED startVars
  BY DEF CompareDescriptor, KeptUp, serverVars
<1>3. WorkerInv(w)'
  <2>1. WorkerInv(w) /\ TypeOK
    BY DEF Inv
  <2>2. Named(w)'
    BY <2>1 DEF CompareDescriptor, WorkerInv, Named, startVars
  <2>3. Registered(w)'
    BY <2>1, Stages DEF CompareDescriptor, TypeOK, WorkerInv, Named, Registered,
       epollVars
  <2>4. Timed(w)'
    BY <2>1 DEF CompareDescriptor, TypeOK, WorkerInv, Named, Timed,
       Alive, Died, epollVars
  <2>5. Joined(w)'
    BY <2>1 DEF CompareDescriptor, TypeOK, WorkerInv, Joined
  <2>6. Heard(w)'
    <3>1. inbox[w] \in Seq(Server \cup {Junk}) /\ pc'[w] \in {"dispatch", "err_stray"}
      BY <2>1 DEF CompareDescriptor, TypeOK
    <3>2. inbox'[w] = inbox[w] \/ (inbox[w] # <<>> /\ inbox'[w] = Tail(inbox[w]))
      <4>1. \/ inbox' = inbox
            \/ inbox[w] # <<>> /\ inbox' = [inbox EXCEPT ![w] = Tail(inbox[w])]
            \/ inbox[w] = <<>> /\ inbox' = [inbox EXCEPT ![w] = inbox[w]]
        BY DEF CompareDescriptor
      <4>2. inbox \in [Worker -> Seq(Server \cup {Junk})]
        BY <2>1 DEF TypeOK
      <4>3. CASE inbox' = inbox
        BY <4>3, Zenon
      <4>4. CASE inbox[w] # <<>> /\ inbox' = [inbox EXCEPT ![w] = Tail(inbox[w])]
        BY <4>2, <4>4
      <4>5. CASE inbox' = [inbox EXCEPT ![w] = inbox[w]]
        <5>1. inbox'[w] = inbox[w]
          BY <4>2, <4>5
        <5> QED
          BY <5>1, Zenon
      <4> QED
        BY <4>1, <4>3, <4>4, <4>5
    <3>3. \A j \in DOMAIN inbox'[w] : \E l \in DOMAIN inbox[w] : inbox'[w][j] = inbox[w][l]
      <4>1. CASE inbox'[w] = inbox[w]
        BY <4>1
      <4>2. CASE inbox[w] # <<>> /\ inbox'[w] = Tail(inbox[w])
        <5>1. \A j \in DOMAIN inbox'[w] : j + 1 \in DOMAIN inbox[w] /\ inbox'[w][j] = inbox[w][j + 1]
          BY <3>1, <4>2
        <5> QED
          BY <5>1
      <4> QED
        BY <3>2, <4>1, <4>2
    <3>4. \A s : Sender(s)' <=> Sender(s)
      BY DEF CompareDescriptor, Sender, serverVars
    <3> QED
      BY <2>1, <3>1, <3>3, <3>4 DEF WorkerInv, Heard
  <2> QED
    BY <2>2, <2>3, <2>4, <2>5, <2>6 DEF WorkerInv
<1>4. ASSUME NEW v \in Worker \ {w} PROVE WorkerInv(v)'
  <2>1. Untouched(v) /\ inbox'[v] = inbox[v] /\ conn'[v] = conn[v]
    BY DEF CompareDescriptor, Inv, TypeOK, Untouched, epollVars
  <2> QED
    BY <1>2, <2>1, SameWorker DEF Inv
<1> QED
  BY <1>1, <1>3, <1>4 DEF Inv

LEMMA EndOfBatchKeeps ==
  ASSUME Inv, NEW w \in Worker, EndOfBatch(w)
  PROVE  Inv'
<1>1. TypeOK'
  BY DEF EndOfBatch, Inv, TypeOK, serverVars, epollVars, startVars
<1>2. KeptUp /\ UNCHANGED startVars
  BY DEF EndOfBatch, KeptUp, serverVars
<1>3. WorkerInv(w)'
  <2>1. WorkerInv(w) /\ TypeOK
    BY DEF Inv
  <2>2. Named(w)'
    BY <2>1 DEF EndOfBatch, WorkerInv, Named, startVars
  <2>3. Registered(w)'
    BY <2>1, Stages DEF EndOfBatch, WorkerInv, Named, Registered, epollVars
  <2>4. Timed(w)'
    BY <2>1 DEF EndOfBatch, WorkerInv, Named, Timed, Alive, Died,
       epollVars
  <2>5. Joined(w)'
    BY <2>1 DEF EndOfBatch, Joined
  <2>6. Heard(w)'
    BY <2>1 DEF EndOfBatch, WorkerInv, Heard, Sender, serverVars
  <2> QED
    BY <2>2, <2>3, <2>4, <2>5, <2>6 DEF WorkerInv
<1>4. ASSUME NEW v \in Worker \ {w} PROVE WorkerInv(v)'
  <2>1. Untouched(v) /\ inbox'[v] = inbox[v] /\ conn'[v] = conn[v]
    BY DEF EndOfBatch, Untouched, epollVars
  <2> QED
    BY <1>2, <2>1, SameWorker DEF Inv
<1> QED
  BY <1>1, <1>3, <1>4 DEF Inv

LEMMA LoseServerKeeps ==
  ASSUME Inv, NEW w \in Worker, LoseServer(w)
  PROVE  Inv'
<1>1. TypeOK'
  BY DEF LoseServer, Inv, TypeOK, Ended, serverVars, epollVars, startVars
<1>2. KeptUp /\ UNCHANGED startVars
  BY DEF LoseServer, KeptUp, serverVars
<1>3. WorkerInv(w)'
  <2>1. WorkerInv(w) /\ TypeOK
    BY DEF Inv
  <2>2. Named(w)'
    BY <2>1 DEF LoseServer, WorkerInv, Named, epollVars, startVars
  <2>3. Registered(w)'
    BY <2>1, Stages DEF LoseServer, WorkerInv, Named, Registered, epollVars
  <2>4. Timed(w)'
    BY <2>1 DEF LoseServer, WorkerInv, Timed, epollVars
  <2>5. Joined(w)'
    BY <2>1 DEF LoseServer, WorkerInv, Joined
  <2>6. Heard(w)'
    BY <2>1 DEF LoseServer, WorkerInv, Heard, Sender, serverVars
  <2> QED
    BY <2>2, <2>3, <2>4, <2>5, <2>6 DEF WorkerInv
<1>4. ASSUME NEW v \in Worker \ {w} PROVE WorkerInv(v)'
  <2>1. Untouched(v) /\ inbox'[v] = inbox[v] /\ conn'[v] = conn[v]
    BY DEF LoseServer, Untouched, epollVars
  <2> QED
    BY <1>2, <2>1, SameWorker DEF Inv
<1> QED
  BY <1>1, <1>3, <1>4 DEF Inv

LEMMA PerformDiscoverySendKeeps ==
  ASSUME Inv, NEW w \in Worker, NEW heard, PerformDiscoverySend(w, heard)
  PROVE  Inv'
<1>1. TypeOK'
  <2>1. questions' \in [Server -> Seq({Question, Junk})]
    <3>1. questions \in [Server -> Seq({Question, Junk})] /\ questions' = Broadcast(questions, Question, heard)
      BY DEF PerformDiscoverySend, Inv, TypeOK
    <3> DEFINE D == {Question, Junk}
    <3>2. Question \in D
      OBVIOUS
    <3> HIDE DEF D
    <3> QED
      BY <3>1, <3>2, BroadcastType
  <2> QED
    BY <2>1 DEF PerformDiscoverySend, AfterEvent, Inv, TypeOK, Died, Ended,
       startVars
<1>2. KeptUp /\ UNCHANGED startVars
  BY DEF PerformDiscoverySend, KeptUp
<1>3. WorkerInv(w)'
  <2>1. WorkerInv(w) /\ TypeOK
    BY DEF Inv
  <2>2. Named(w)'
    BY <2>1 DEF PerformDiscoverySend, WorkerInv, Named, startVars
  <2>3. Registered(w)'
    BY <2>1, Stages DEF PerformDiscoverySend, AfterEvent, WorkerInv, Named,
       Registered
  <2>4. Timed(w)'
    BY <2>1 DEF PerformDiscoverySend, AfterEvent, TypeOK, WorkerInv,
       Named, Timed, Alive, Died
  <2>5. Joined(w)'
    BY <2>1 DEF PerformDiscoverySend, AfterEvent, WorkerInv, Joined
  <2>6. Heard(w)'
    BY <2>1 DEF PerformDiscoverySend, AfterEvent, WorkerInv, Heard, Sender
  <2> QED
    BY <2>2, <2>3, <2>4, <2>5, <2>6 DEF WorkerInv
<1>4. ASSUME NEW v \in Worker \ {w} PROVE WorkerInv(v)'
  <2>1. Untouched(v) /\ inbox'[v] = inbox[v] /\ conn'[v] = conn[v]
    BY DEF PerformDiscoverySend, Untouched
  <2> QED
    BY <1>2, <2>1, SameWorker DEF Inv
<1> QED
  BY <1>1, <1>3, <1>4 DEF Inv

-----------------------------------------------------------------------------
(* The network and the servers                                             *)

\* Datagrams from servers that were running, or no reply at all.
LEMMA DeliveryKeeps ==
  ASSUME Inv, NEW d \in Server \cup {Junk}, Sender(d), NEW heard,
         \A w \in Worker : w \in heard => Receiving(w),
         inbox' = Broadcast(inbox, d, heard),
         UNCHANGED <<stage, main, epollVars, loopVars, startVars>>
  PROVE  /\ inbox' \in [Worker -> Seq(Server \cup {Junk})]
         /\ \A w \in Worker : WorkerInv(w)'
<1>1. inbox \in [Worker -> Seq(Server \cup {Junk})]
  BY DEF Inv, TypeOK
<1>2. /\ inbox' \in [Worker -> Seq(Server \cup {Junk})]
      /\ \A w \in Worker : inbox'[w] = IF w \in heard THEN Append(inbox[w], d) ELSE inbox[w]
  <2> DEFINE D == Server \cup {Junk}
  <2> HIDE DEF D
  <2>1. d \in D /\ inbox \in [Worker -> Seq(D)]
    BY <1>1 DEF D
  <2> QED
    BY <2>1, BroadcastType DEF D
<1>3. ASSUME NEW w \in Worker PROVE WorkerInv(w)'
  <2>1. WorkerInv(w) /\ Untouched(w) /\ conn'[w] = conn[w] /\ KeptUp
    BY DEF Inv, Untouched, KeptUp, epollVars, loopVars
  <2>2. CASE w \notin heard
    BY <2>1, <2>2, <1>2, SameWorker
  <2>3. CASE w \in heard
    <3>1. local[w]
      BY <2>3 DEF Receiving, Bound
    <3>2. Named(w)' /\ Registered(w)' /\ Timed(w)' /\ Joined(w)'
      BY <2>1, <3>1 DEF WorkerInv, Untouched, Named, Registered, Timed, Joined,
         Alive, startVars
    <3>3. \A j \in DOMAIN inbox'[w] : Sender(inbox'[w][j])
      <4>1. inbox[w] \in Seq(Server \cup {Junk}) /\ inbox'[w] = Append(inbox[w], d)
        BY <1>1, <1>2, <2>3
      <4>2. ASSUME NEW j \in DOMAIN inbox'[w] PROVE inbox'[w][j] = d \/ \E l \in DOMAIN inbox[w] : inbox'[w][j] = inbox[w][l]
        <5>1. j \in 1 .. Len(inbox[w]) + 1
          BY <4>1
        <5>2. CASE j = Len(inbox[w]) + 1
          BY <4>1, <5>2
        <5>3. CASE j # Len(inbox[w]) + 1
          <6>1. j \in DOMAIN inbox[w] /\ inbox'[w][j] = inbox[w][j]
            BY <4>1, <5>1, <5>3
          <6> QED
            BY <6>1
        <5> QED
          BY <5>2, <5>3
      <4> QED
        BY <2>1, <4>2 DEF WorkerInv, Heard
    <3>4. Heard(w)'
      BY <2>1, <3>3 DEF WorkerInv, Heard, Untouched, Sender, startVars
    <3> QED
      BY <3>2, <3>4 DEF WorkerInv
  <2> QED
    BY <2>2, <2>3
<1> QED
  BY <1>2, <1>3

LEMMA AnswerKeeps ==
  ASSUME Inv, NEW s \in Server, NEW heard \in SUBSET Worker, Answer(s, heard)
  PROVE  Inv'
<1>1. PICK i \in DOMAIN questions[s] : questions' = [questions EXCEPT ![s] = After(@, i)]
  BY DEF Answer
<1>2. questions' \in [Server -> Seq({Question, Junk})]
  <2>1. questions \in [Server -> Seq({Question, Junk})]
    BY DEF Inv, TypeOK
  <2>2. After(questions[s], i) \in Seq({Question, Junk})
    BY <2>1, AfterType
  <2> QED
    BY <1>1, <2>1, <2>2
<1>3. Sender(s) /\ s \in Server \cup {Junk} /\ \A w \in Worker : w \in heard => Receiving(w)
  BY DEF Answer, Answering, Sender
<1>4. inbox' = Broadcast(inbox, s, heard) /\ UNCHANGED <<stage, main, epollVars, loopVars, startVars>>
  BY DEF Answer
<1>5. inbox' \in [Worker -> Seq(Server \cup {Junk})] /\ \A w \in Worker : WorkerInv(w)'
  BY <1>3, <1>4, DeliveryKeeps
<1> QED
  BY <1>2, <1>4, <1>5 DEF Inv, TypeOK, epollVars, loopVars, startVars

LEMMA StrayKeeps ==
  ASSUME Inv, Stray
  PROVE  Inv'
<1>1. ASSUME NEW s \in Server, StrayAtServer(s) PROVE Inv'
  <2>1. PICK d \in {Question, Junk} : questions' = Broadcast(questions, d, {s})
    BY <1>1 DEF StrayAtServer
  <2>2. questions \in [Server -> Seq({Question, Junk})]
    BY DEF Inv, TypeOK
  <2> DEFINE D == {Question, Junk}
  <2> HIDE DEF D
  <2>3. questions' \in [Server -> Seq(D)]
    <3>1. d \in D /\ questions \in [Server -> Seq(D)]
      BY <2>2 DEF D
    <3> QED
      BY <2>1, <3>1, BroadcastType
  <2>4. TypeOK'
    BY <1>1, <2>3 DEF StrayAtServer, D, Inv, TypeOK, epollVars, loopVars,
       startVars
  <2>5. ASSUME NEW w \in Worker PROVE WorkerInv(w)'
    BY <1>1, SameWorker DEF StrayAtServer, Inv, Untouched, KeptUp, epollVars,
       loopVars
  <2> QED
    BY <2>4, <2>5 DEF Inv
<1>2. ASSUME NEW w \in Worker, StrayAtWorker(w) PROVE Inv'
  <2>1. Sender(Junk)
    BY DiscoveryAssumption DEF Sender
  <2>2. \A v \in Worker : v \in {w} => Receiving(v)
    BY <1>2 DEF StrayAtWorker
  <2>3. inbox' = Broadcast(inbox, Junk, {w}) /\ UNCHANGED <<serverVars, main, epollVars, loopVars, startVars>>
    BY <1>2 DEF StrayAtWorker
  <2>4. inbox' \in [Worker -> Seq(Server \cup {Junk})] /\ \A v \in Worker : WorkerInv(v)'
    BY <2>1, <2>2, <2>3, DeliveryKeeps DEF serverVars
  <2> QED
    BY <2>3, <2>4 DEF Inv, TypeOK, serverVars, epollVars, loopVars, startVars
<1> QED
  BY <1>1, <1>2 DEF Stray

LEMMA ServerKeeps ==
  ASSUME Inv, NEW s \in Server, ServerStarts(s) \/ ServerStops(s) \/ IgnoreJunk(s)
  PROVE  Inv'
<1>1. <<>> \in Seq({Question, Junk})
  OBVIOUS
<1>2. stage' \in [Server -> {"off", "bound", "listening", "running"}]
  <2>1. stage \in [Server -> {"off", "bound", "listening", "running"}]
    BY DEF Inv, TypeOK
  <2>2. stage[s] # "running" => StageAfter[stage[s]] \in {"bound", "listening", "running"}
    BY <2>1 DEF StageAfter
  <2>3. \/ stage' = stage
        \/ stage[s] # "running" /\ stage' = [stage EXCEPT ![s] = StageAfter[stage[s]]]
        \/ stage' = [stage EXCEPT ![s] = "off"]
    BY DEF ServerStarts, ServerStops, IgnoreJunk
  <2> QED
    BY <2>1, <2>2, <2>3
<1>3. questions' \in [Server -> Seq({Question, Junk})]
  BY <1>1 DEF ServerStarts, ServerStops, IgnoreJunk, Inv, TypeOK
<1>4. /\ conn' \in [Worker -> {"none", "open", "broken"}]
      /\ \A w \in Worker : conn'[w] = "none" <=> conn[w] = "none"
  BY DEF ServerStarts, ServerStops, IgnoreJunk, Inv, TypeOK, loopVars
<1>5. UNCHANGED <<main, epollVars, inbox, pc, batch, addr, startVars>>
  BY DEF ServerStarts, ServerStops, IgnoreJunk, loopVars
<1>6. KeptUp
  BY DiscoveryAssumption DEF ServerStarts, ServerStops, IgnoreJunk, KeptUp, Inv,
     TypeOK
<1>7. TypeOK'
  BY <1>2, <1>3, <1>4, <1>5 DEF Inv, TypeOK, epollVars, startVars
<1>8. ASSUME NEW w \in Worker PROVE WorkerInv(w)'
  <2>1. WorkerInv(w) /\ Untouched(w) /\ inbox'[w] = inbox[w] /\ UNCHANGED startVars
    BY <1>5 DEF Inv, Untouched, epollVars
  <2>2. Named(w)' /\ Heard(w)'
    BY <2>1, <1>4, <1>6 DEF WorkerInv, Untouched, Named, Heard, Sender, KeptUp,
       startVars
  <2>3. Registered(w)' /\ Timed(w)' /\ Joined(w)'
    BY <2>1, <1>4 DEF WorkerInv, Untouched, Registered, Timed, Joined, Alive,
       startVars
  <2> QED
    BY <2>2, <2>3 DEF WorkerInv
<1> QED
  BY <1>7, <1>8 DEF Inv

-----------------------------------------------------------------------------
(* The theorems                                                            *)

LEMMA InvInit == Init => Inv
<1> SUFFICES ASSUME Init PROVE Inv
  OBVIOUS
<1>1. TypeOK
  BY DEF Init, TypeOK
<1>2. ASSUME NEW w \in Worker PROVE WorkerInv(w)
  <2>1. Named(w) /\ Timed(w) /\ Joined(w) /\ Heard(w)
    BY DiscoveryAssumption DEF Init, Named, Timed, Joined, Heard
  <2>2. Registered(w)
    BY Stages DEF Init, Registered
  <2> QED
    BY <2>1, <2>2 DEF WorkerInv
<1> QED
  BY <1>1, <1>2 DEF Inv

LEMMA InvStep == Inv /\ [Next]_vars => Inv'
<1> SUFFICES ASSUME Inv, [Next]_vars PROVE Inv'
  OBVIOUS
<1>1. CASE UNCHANGED vars
  <2>1. TypeOK'
    BY <1>1 DEF Inv, TypeOK, vars, serverVars, startVars, epollVars, loopVars
  <2>2. ASSUME NEW w \in Worker PROVE WorkerInv(w)'
    BY <1>1, SameWorker DEF Inv, Untouched, KeptUp, vars, serverVars, epollVars,
       loopVars
  <2> QED
    BY <2>1, <2>2 DEF Inv
<1>2. CASE Stray
  BY <1>2, StrayKeeps
<1>3. ASSUME NEW s \in Server, ServerNext(s) PROVE Inv'
  BY <1>3, AnswerKeeps, ServerKeeps DEF ServerNext
<1>4. ASSUME NEW w \in Worker, MainNext(w) \/ HostIsDown(w) \/ Tick(w) PROVE Inv'
  BY <1>4, StartClientKeeps, RegisterSocketKeeps, RegisterTimerKeeps,
     ArmTimerKeeps, ConnectToHostKeeps, HostIsDownKeeps, TickKeeps DEF MainNext
<1>5. ASSUME NEW w \in Worker, LoopNext(w) PROVE Inv'
  BY <1>5, EpollWaitKeeps, PerformDiscoverySendKeeps, CatchReplyKeeps,
     CatchJunkKeeps, ConnectToSenderKeeps, PauseDiscoveryKeeps,
     CompareDescriptorKeeps, EndOfBatchKeeps, FirstEventKeeps, LoseServerKeeps
     DEF LoopNext
<1> QED
  BY <1>1, <1>2, <1>3, <1>4, <1>5 DEF Next, WorkerNext

LEMMA InvAlways == Spec => []Inv
  BY InvInit, InvStep, PTL DEF Spec

\* A worker that takes an event of discovery for one of the connection has a
\* descriptor that happens to name the other; one that takes its connection's
\* event for one of discovery, too.
Unset(w) ==
  /\ pc[w] \in {"compare", "err_stray"} => garbage[w] \in {"socket", "timer"}
  /\ pc[w] = "bug_mode" => ~local[w] /\ garbage[w] = "conn" /\ conn[w] # "none"

LEMMA UnsetInit == Init => \A w \in Worker : Unset(w)
  BY DEF Init, Unset

LEMMA UnsetStep ==
  Inv /\ (\A w \in Worker : Unset(w)) /\ [Next]_vars => (\A w \in Worker : Unset(w))'
<1> SUFFICES ASSUME Inv, \A w \in Worker : Unset(w), [Next]_vars, NEW v \in Worker
             PROVE  Unset(v)'
  OBVIOUS
<1>0. Unset(v) /\ TypeOK
  BY DEF Inv
<1>1. ASSUME UNCHANGED startVars, pc'[v] = pc[v], conn[v] # "none" => conn'[v] # "none"
      PROVE  Unset(v)'
  BY <1>0, <1>1 DEF Unset, startVars
<1>2. ASSUME pc'[v] \notin {"compare", "err_stray", "bug_mode"} PROVE Unset(v)'
  BY <1>2 DEF Unset
<1>3. CASE UNCHANGED vars \/ Stray
  BY <1>1, <1>3 DEF vars, loopVars, Stray, StrayAtServer, StrayAtWorker
<1>4. ASSUME NEW s \in Server, ServerNext(s) PROVE Unset(v)'
  <2>1. UNCHANGED <<pc, startVars>>
    BY <1>4 DEF ServerNext, ServerStarts, ServerStops, IgnoreJunk, Answer, loopVars
  <2>2. conn'[v] \in {conn[v], "broken"}
    BY <1>0, <1>4 DEF TypeOK, ServerNext, ServerStarts, ServerStops, IgnoreJunk, Answer,
       loopVars
  <2> QED
    BY <1>1, <2>1, <2>2
<1>5. ASSUME NEW w \in Worker \ {v}, WorkerNext(w) PROVE Unset(v)'
  <2>1. UNCHANGED startVars /\ pc'[v] = pc[v] /\ conn'[v] = conn[v]
    BY <1>0, <1>5 DEF TypeOK, WorkerNext, MainNext, HostIsDown, Tick, LoopNext,
       StartClient, RegisterSocket, RegisterTimer, ArmTimer, ConnectToHost,
       EpollWait, PerformDiscoverySend, CatchReply, CatchJunk, ConnectToSender,
       PauseDiscovery, CompareDescriptor, EndOfBatch, FirstEvent, LoseServer,
       loopVars
  <2> QED
    BY <1>1, <2>1
<1>6. ASSUME MainNext(v) \/ Tick(v) PROVE Unset(v)'
  <2>1. UNCHANGED <<startVars, pc>> /\ (conn[v] # "none" => conn'[v] # "none")
    BY <1>0, <1>6 DEF TypeOK, MainNext, Tick, StartClient, RegisterSocket,
       RegisterTimer, ArmTimer, ConnectToHost, loopVars
  <2> QED
    BY <1>1, <2>1
\* An event is compared with the descriptor that it is an event of.
<1>7. ASSUME (\E heard \in SUBSET Server : PerformDiscoverySend(v, heard)) \/ CatchJunk(v)
      PROVE  Unset(v)'
  <2>1. PICK e \in {"socket", "timer"} : pc'[v] \in {AfterEvent(v, e), "err_timer"}
    BY <1>0, <1>7 DEF TypeOK, PerformDiscoverySend, CatchJunk
  <2>2. UNCHANGED startVars
    BY <1>7 DEF PerformDiscoverySend, CatchJunk
  <2> QED
    BY <2>1, <2>2 DEF AfterEvent, Unset, startVars
<1>8. CASE CompareDescriptor(v)
  BY <1>0, <1>8 DEF TypeOK, CompareDescriptor, Unset, startVars
<1>9. CASE FirstEvent(v)
  BY <1>0, <1>9 DEF TypeOK, FirstEvent, Unset, startVars
<1>10. ASSUME HostIsDown(v) \/ EpollWait(v) \/ CatchReply(v) \/ ConnectToSender(v)
              \/ PauseDiscovery(v) \/ EndOfBatch(v) \/ LoseServer(v)
       PROVE  Unset(v)'
  BY <1>0, <1>2, <1>10 DEF TypeOK, HostIsDown, EpollWait, CatchReply,
     ConnectToSender, PauseDiscovery, EndOfBatch, LoseServer
<1>11. ASSUME WorkerNext(v) PROVE Unset(v)'
  BY <1>6, <1>7, <1>8, <1>9, <1>10, <1>11 DEF WorkerNext, LoopNext
<1> QED
  BY <1>3, <1>4, <1>5, <1>11 DEF Next

LEMMA UnsetAlways == Spec => [](Inv /\ \A w \in Worker : Unset(w))
  BY InvAlways, UnsetInit, UnsetStep, PTL DEF Spec

\* Every variable of servers, workers and the network keeps its type.
THEOREM DiscoveryTypeCorrect == Spec => []TypeOK
<1>1. Inv => TypeOK
  BY DEF Inv
<1> QED
  BY <1>1, InvAlways, PTL

\* Once a worker has connected and paused, no thread registers a descriptor of
\* discovery again.
THEOREM PausesAreFinal == Spec => []PausedForGood
<1>1. Inv => PausedForGood
  BY DEF Inv, WorkerInv, Registered, PausedForGood
<1> QED
  BY <1>1, InvAlways, PTL

\* A started worker without a connection keeps its timer and both descriptors.
THEOREM SearchesGoOn == Spec => []SearchGoesOn
<1>1. Inv => SearchGoesOn
  BY Stages DEF Inv, WorkerInv, Registered, Timed, SearchGoesOn
<1> QED
  BY <1>1, InvAlways, PTL

\* A worker dies of discovery only in the ways PostMortem names; in
\* particular no reply of a server that stays is ever too early to connect.
THEOREM DeathsAreExplained == Spec => []PostMortem
<1>1. Inv /\ (\A w \in Worker : Unset(w)) => PostMortem
  <2> SUFFICES ASSUME Inv, NEW w \in Worker, Unset(w)
               PROVE  /\ local[w] /\ pc[w] = "err_connect" => addr[w] \notin Stable
                      /\ pc[w] = "err_pause" => main[w] = "socket" /\ conn[w] # "none"
                      /\ pc[w] = "err_timer" => conn[w] # "none" /\ main[w] = "running"
                      /\ pc[w] = "err_stray" =>
                           local[w] /\ conn[w] = "none" /\ garbage[w] \in {"socket", "timer"}
                      /\ pc[w] = "bug_mode" =>
                           ~local[w] /\ conn[w] # "none" /\ garbage[w] = "conn"
    BY DEF PostMortem
  <2>1. pc[w] \in {"err_pause", "err_stray"} => local[w]
    BY DEF Inv, WorkerInv, Named
  <2>2. pc[w] = "err_stray" => conn[w] = "none"
    BY DEF Inv, WorkerInv, Joined
  <2>3. /\ local[w] /\ pc[w] = "err_connect" => addr[w] \notin Stable
        /\ pc[w] = "err_pause" => main[w] = "socket" /\ conn[w] # "none"
        /\ pc[w] = "err_timer" => conn[w] # "none" /\ main[w] = "running"
    BY <2>1 DEF Inv, WorkerInv, Registered, Timed, Joined, Heard
  <2> QED
    BY <2>1, <2>2, <2>3 DEF Unset
<1> QED
  BY <1>1, UnsetAlways, PTL

-----------------------------------------------------------------------------
(* Refinement                                                              *)

LEMMA MeetsInit == Init => Meeting!Init
  BY DEF Init, Meeting!Init, Listens, Ended, Died

\* What the abstract specification sees of a worker.
Home(w) == IF conn[w] = "none" THEN NoServer ELSE addr[w]

LEMMA HomesStay ==
  ASSUME Inv, NEW w \in Worker,
         conn'[w] = "none" <=> conn[w] = "none",
         conn[w] # "none" => addr'[w] = addr[w]
  PROVE  Home(w)' = Home(w)
  BY DEF Home

\* A step of a worker that neither connects nor ends, and one of the network,
\* is none for the abstract specification.
LEMMA QuietStep ==
  ASSUME UNCHANGED stage, \A w \in Worker : Home(w)' = Home(w),
         \A w \in Worker : pc'[w] \in Ended <=> pc[w] \in Ended
  PROVE  UNCHANGED Meeting!vars
<1>1. {s \in Server : Listens(s)}' = {s \in Server : Listens(s)}
  BY DEF Listens
<1>2. {w \in Worker : pc[w] \in Ended}' = {w \in Worker : pc[w] \in Ended}
  BY DEF Ended
<1>3. [w \in Worker |-> Home(w)]' = [w \in Worker |-> Home(w)]
  OBVIOUS
<1> QED
  BY <1>1, <1>2, <1>3 DEF Meeting!vars, Home

\* The process of w ends, and nothing else happens.
LEMMA EndStep ==
  ASSUME NEW w \in Worker, pc[w] \notin Ended, pc'[w] \in Ended, UNCHANGED stage,
         \A v \in Worker : Home(v)' = Home(v),
         \A v \in Worker \ {w} : pc'[v] = pc[v]
  PROVE  Meeting!End(w)
<1>1. {s \in Server : Listens(s)}' = {s \in Server : Listens(s)}
  BY DEF Listens
<1>2. {v \in Worker : pc[v] \in Ended}' = {v \in Worker : pc[v] \in Ended} \cup {w}
  BY DEF Ended
<1>3. [v \in Worker |-> Home(v)]' = [v \in Worker |-> Home(v)]
  OBVIOUS
<1> QED
  BY <1>1, <1>2, <1>3 DEF Meeting!End, Home

\* It connects, and nothing else happens.
LEMMA JoinStep ==
  ASSUME NEW w \in Worker, NEW s \in Server, Listens(s), UNCHANGED stage,
         pc[w] \notin Ended, pc'[w] \notin Ended,
         Home(w) = NoServer, Home(w)' = s,
         \A v \in Worker \ {w} : Home(v)' = Home(v) /\ pc'[v] = pc[v]
  PROVE  Meeting!Join(w, s)
<1>1. {r \in Server : Listens(r)}' = {r \in Server : Listens(r)}
  BY DEF Listens
<1>2. {v \in Worker : pc[v] \in Ended}' = {v \in Worker : pc[v] \in Ended}
  BY DEF Ended
<1>3. [v \in Worker |-> Home(v)]' = [[v \in Worker |-> Home(v)] EXCEPT ![w] = s]
  OBVIOUS
<1> QED
  BY <1>1, <1>2, <1>3 DEF Meeting!Join, Home

LEMMA MeetsNext ==
  Inv /\ [Next]_vars => [Meeting!Next]_(Meeting!vars)
<1> SUFFICES ASSUME Inv, [Next]_vars PROVE [Meeting!Next]_(Meeting!vars)
  OBVIOUS
<1>1. TypeOK /\ \A w \in Worker : WorkerInv(w)
  BY DEF Inv
\* The servers.
<1>2. ASSUME NEW s \in Server, ServerStarts(s) \/ ServerStops(s)
      PROVE  Meeting!ServerComes(s) \/ Meeting!ServerGoes(s) \/ UNCHANGED Meeting!vars
  <2>1. \A w \in Worker : Home(w)' = Home(w)
    <3>1. /\ addr' = addr
          /\ \A w \in Worker : conn'[w] = "none" <=> conn[w] = "none"
      BY <1>2 DEF ServerStarts, ServerStops, loopVars
    <3> QED
      BY <3>1, HomesStay
  <2>2. [w \in Worker |-> Home(w)]' = [w \in Worker |-> Home(w)]
    BY <2>1
  <2>3. {w \in Worker : pc[w] \in Ended}' = {w \in Worker : pc[w] \in Ended}
    BY <1>2 DEF ServerStarts, ServerStops, loopVars
  <2>4. \A r \in Server \ {s} : stage'[r] = stage[r]
    BY <1>1, <1>2 DEF ServerStarts, ServerStops, TypeOK
  <2> DEFINE up == {r \in Server : Listens(r)}
  <2>5. \A r \in Server \ {s} : r \in up' <=> r \in up
    BY <2>4 DEF Listens
  <2>6. up' = up \/ (s \notin up /\ up' = up \cup {s}) \/ (s \in up /\ up' = up \ {s})
    <3>1. up \subseteq Server /\ up' \subseteq Server
      OBVIOUS
    <3> HIDE DEF up
    <3>2. CASE s \in up <=> s \in up'
      <4>1. \A r : r \in up' <=> r \in up
        BY <3>1, <3>2, <2>5
      <4> QED
        BY <4>1
    <3>3. CASE s \notin up /\ s \in up'
      <4>1. \A r : r \in up' <=> r \in up \cup {s}
        BY <3>1, <3>3, <2>5
      <4> QED
        BY <4>1, <3>3
    <3>4. CASE s \in up /\ s \notin up'
      <4>1. \A r : r \in up' <=> r \in up \ {s}
        BY <3>1, <3>4, <2>5
      <4> QED
        BY <4>1, <3>4
    <3> QED
      BY <3>2, <3>3, <3>4
  <2>7. CASE up' = up
    BY <2>2, <2>3, <2>7 DEF Meeting!vars, Home
  <2>8. CASE s \notin up /\ up' = up \cup {s}
    BY <2>2, <2>3, <2>8 DEF Meeting!ServerComes, Home
  <2>9. CASE s \in up /\ up' = up \ {s}
    BY <2>2, <2>3, <2>9 DEF Meeting!ServerGoes, Home
  <2> QED
    BY <2>6, <2>7, <2>8, <2>9
\* The network, and what servers do with it.
<1>3. ASSUME Stray \/ \E s \in Server : IgnoreJunk(s) \/ \E heard \in SUBSET Worker : Answer(s, heard)
      PROVE  UNCHANGED Meeting!vars
  <2>1. UNCHANGED <<stage, pc, addr, conn>>
    BY <1>3 DEF Stray, StrayAtServer, StrayAtWorker, IgnoreJunk, Answer,
       serverVars, loopVars
  <2> QED
    BY <2>1, QuietStep, HomesStay
\* A worker connects.
<1>4. ASSUME NEW w \in Worker, ConnectToHost(w) \/ (ConnectToSender(w) /\ pc'[w] = "pause")
      PROVE  Meeting!Next
  <2>1. addr[w] \in Server /\ Listens(addr[w]) /\ UNCHANGED <<stage, addr>>
    BY <1>1, <1>4 DEF ConnectToHost, ConnectToSender, TypeOK, WorkerInv, Named,
       Heard, serverVars
  <2>2. conn[w] = "none" /\ pc[w] \notin Ended
    BY <1>1, <1>4 DEF ConnectToHost, ConnectToSender, WorkerInv, Named, Joined,
       Alive, Ended, Died
  <2>3. /\ conn' = [conn EXCEPT ![w] = "open"] /\ pc'[w] \notin Ended
        /\ \A v \in Worker \ {w} : pc'[v] = pc[v]
    BY <1>1, <1>4, <2>2 DEF ConnectToHost, ConnectToSender, TypeOK, Ended, Died
  <2>4. Home(w) = NoServer /\ Home(w)' = addr[w]
    BY <1>1, <2>1, <2>2, <2>3 DEF Home, TypeOK
  <2>5. \A v \in Worker \ {w} : Home(v)' = Home(v) /\ pc'[v] = pc[v]
    BY <1>1, <2>1, <2>3 DEF Home
  <2>6. pc'[w] \notin Ended
    BY <2>3
  <2>7. PICK s \in Server : s = addr[w]
    BY <2>1
  <2>8. Meeting!Join(w, s)
    BY <2>1, <2>2, <2>4, <2>5, <2>6, <2>7, JoinStep
  <2> QED
    BY <2>8 DEF Meeting!Next
\* What is left of a worker: it ends, or nothing the abstraction sees happens.
<1>5. ASSUME NEW w \in Worker, WorkerNext(w), ~ConnectToHost(w),
             ~(ConnectToSender(w) /\ pc'[w] = "pause")
      PROVE  Meeting!End(w) \/ UNCHANGED Meeting!vars
  <2>1. UNCHANGED <<stage, conn>>
    <3>1. CASE ConnectToSender(w)
      <4>1. pc' # [pc EXCEPT ![w] = "pause"]
        BY <1>1, <1>5, <3>1 DEF TypeOK
      <4> QED
        BY <3>1, <4>1 DEF ConnectToSender, serverVars
    <3>2. CASE ~ConnectToSender(w)
      BY <1>5, <3>2 DEF WorkerNext, MainNext, HostIsDown, Tick, LoopNext,
         StartClient, RegisterSocket, RegisterTimer, ArmTimer, EpollWait,
         PerformDiscoverySend, CatchReply, CatchJunk, PauseDiscovery,
         CompareDescriptor, EndOfBatch, FirstEvent, LoseServer, serverVars,
         loopVars
    <3> QED
      BY <3>1, <3>2
  <2>2. addr' = addr \/ (conn[w] = "none" /\ \A v \in Worker \ {w} : addr'[v] = addr[v])
    <3>1. CASE CatchReply(w)
      <4>1. conn[w] = "none"
        BY <1>1, <3>1 DEF CatchReply, WorkerInv, Joined
      <4> QED
        BY <1>1, <3>1, <4>1 DEF CatchReply
    <3>2. CASE ~CatchReply(w)
      BY <1>5, <3>2 DEF WorkerNext, MainNext, HostIsDown, Tick, LoopNext,
         StartClient, RegisterSocket, RegisterTimer, ArmTimer, EpollWait,
         PerformDiscoverySend, CatchJunk, ConnectToSender, PauseDiscovery,
         CompareDescriptor, EndOfBatch, FirstEvent, LoseServer, loopVars
    <3> QED
      BY <3>1, <3>2
  <2>3. \A v \in Worker : Home(v)' = Home(v)
    BY <2>1, <2>2, HomesStay
  <2>4. \A v \in Worker \ {w} : pc'[v] = pc[v]
    BY <1>1, <1>5 DEF TypeOK, WorkerNext, MainNext, HostIsDown, Tick, LoopNext,
       StartClient, RegisterSocket, RegisterTimer, ArmTimer, EpollWait,
       PerformDiscoverySend, CatchReply, CatchJunk, ConnectToSender,
       PauseDiscovery, CompareDescriptor, EndOfBatch, FirstEvent, LoseServer,
       loopVars
  <2>5. pc[w] \notin Ended \/ pc' = pc
    <3>1. CASE MainNext(w) \/ Tick(w)
      BY <1>5, <3>1 DEF MainNext, Tick, StartClient, RegisterSocket,
         RegisterTimer, ArmTimer, loopVars
    <3>2. CASE HostIsDown(w)
      BY <1>1, <3>2 DEF HostIsDown, WorkerInv, Named, Alive, Ended
    <3>3. CASE LoopNext(w)
      BY <3>3 DEF LoopNext, EpollWait, PerformDiscoverySend, CatchReply,
         CatchJunk, ConnectToSender, PauseDiscovery, CompareDescriptor,
         EndOfBatch, FirstEvent, LoseServer, Ended, Died
    <3> QED
      BY <1>5, <3>1, <3>2, <3>3 DEF WorkerNext
  <2>6. CASE pc' = pc
    BY <2>1, <2>3, <2>6, QuietStep
  <2>7. CASE pc[w] \notin Ended /\ pc'[w] \in Ended
    BY <2>1, <2>3, <2>4, <2>7, EndStep
  <2>8. CASE pc[w] \notin Ended /\ pc'[w] \notin Ended
    BY <2>1, <2>3, <2>4, <2>8, QuietStep
  <2> QED
    BY <2>5, <2>6, <2>7, <2>8
<1>6. CASE UNCHANGED vars
  BY <1>6, QuietStep, HomesStay DEF vars, serverVars, loopVars
<1> QED
  BY <1>2, <1>3, <1>4, <1>5, <1>6 DEF Next, ServerNext, Meeting!Next

\* Discovery implements what it is for: a worker joins at most one server in
\* its life, which is listening when it does.
THEOREM DiscoveryImplementsRendezvous == Spec => MeetsServers
<1>1. Spec => Meeting!Init /\ [][Meeting!Next]_(Meeting!vars)
  BY MeetsInit, MeetsNext, InvAlways, PTL DEF Spec
<1> QED
  BY <1>1 DEF MeetsServers, Meeting!Spec

=============================================================================
