-------------------------- MODULE ClusterDiscovery --------------------------
(***************************************************************************)
(* How workers find servers.  A worker without a hostname broadcasts a     *)
(* question every second; a server broadcasts a reply, which therefore     *)
(* reaches every worker on the network and not only the one that asked;    *)
(* the worker connects to the sender of the first reply it reads and       *)
(* pauses its discovery.  A worker with a hostname connects to it, trying  *)
(* again while it is refused.                                              *)
(*                                                                         *)
(* Two threads of a worker take part: the one that starts it registers the *)
(* discovery socket and the timer with epoll and arms the timer, and the   *)
(* event loop, created BEFORE that, handles their events.  A step is what  *)
(* a thread does from one system call whose outcome depends on the others  *)
(* to the next.  A datagram is lost or is in the queue of its receiver as  *)
(* soon as it is sent.  Workers are on hosts of their own (the port of the *)
(* discovery socket is fixed and not shared).                              *)
(***************************************************************************)
EXTENDS Integers, Sequences, FiniteSets

CONSTANTS
  Server,
  Worker,
  Stable,       \* the servers that do not stop
  ServerQueue,  \* datagrams the discovery socket of a server holds, and
  WorkerQueue,  \* that of a worker; the kernel drops what does not fit
  NoServer,
  Question,     \* CLIENTS_DISCOVERY_DATAGRAM
  Junk          \* a datagram with any other content

ASSUME DiscoveryAssumption ==
  /\ Stable \subseteq Server
  /\ ServerQueue \in Nat \ {0}
  /\ WorkerQueue \in Nat \ {0}
  /\ NoServer \notin Server
  /\ Junk \notin Server \cup {NoServer, Question}

VARIABLES
  \* Servers.
  stage,        \* how far the start-up of a server is
  questions,    \* the datagrams in its discovery socket
  \* Workers: how they were started, and the thread that starts them.
  local,        \* local_discovery: no hostname was given
  garbage,      \* what the descriptors nobody has set happen to name
  main,         \* the last thing init_cluster_client() has done
  \* What it shares with the event loop.
  watched,      \* what is registered with epoll: "socket", "timer"
  armed,        \* whether the timer is
  expired,      \* whether it has expirations nobody has read
  inbox,        \* datagrams in the discovery socket, replies by their sender
  \* The event loop.
  pc,           \* where it is, or how the process ended
  batch,        \* the entries of pending_events not handled yet
  addr,         \* server_addr, or the host the hostname stands for
  conn          \* the state of the connection

serverVars == <<stage, questions>>
epollVars  == <<watched, armed, expired>>
loopVars   == <<pc, batch, addr, conn>>
startVars  == <<local, garbage>>
vars       == <<serverVars, startVars, main, epollVars, inbox, loopVars>>

\* Config.h.  A reply comes from the discovery port of its sender, and the
\* worker connects to the port the reply came from.
DISCOVERY_SERVER_PORT == 9798
CONNECTION_PORT == 9798

\* Seeded fault: the timer fires once.
DISCOVERY_REPEAT_INTERVAL_Once == 0

DISCOVERY_REPEAT_INTERVAL == 1

\* How a process dies: of a failed system call or a BUG_ON.  "left" is the
\* event loop returning.
Died == {"err_connect", "err_pause", "err_timer", "err_stray", "bug_mode"}
Ended == Died \cup {"left"}

Alive(w) == pc[w] \notin Died

\* An uninitialised descriptor can name nothing of interest, or one of the
\* descriptors it is compared with.
Descriptor == {"other", "socket", "timer", "conn"}
Garbage(w) == IF local[w] THEN Descriptor \ {"conn"} ELSE {"other", "conn"}

Init ==
  /\ stage     = [s \in Server |-> "off"]
  /\ questions = [s \in Server |-> <<>>]
  /\ local \in [Worker -> BOOLEAN]
  /\ garbage \in {g \in [Worker -> Descriptor] : \A w \in Worker : g[w] \in Garbage(w)}
  /\ main    = [w \in Worker |-> "begin"]
  /\ watched = [w \in Worker |-> {}]
  /\ armed   = [w \in Worker |-> FALSE]
  /\ expired = [w \in Worker |-> FALSE]
  /\ inbox   = [w \in Worker |-> <<>>]
  /\ pc      = [w \in Worker |-> "wait"]
  /\ batch   = [w \in Worker |-> {}]
  /\ addr \in {a \in [Worker -> Server \cup {NoServer}] :
                 \A w \in Worker : a[w] = NoServer <=> local[w]}
  /\ conn    = [w \in Worker |-> "none"]

-----------------------------------------------------------------------------
(* Datagrams                                                               *)

\* The sockets that can take one more datagram.
Hearing(s) == stage[s] # "off" /\ Len(questions[s]) < ServerQueue

Bound(w) == local[w] /\ main[w] # "begin" /\ pc[w] \notin Ended

Receiving(w) == Bound(w) /\ Len(inbox[w]) < WorkerQueue

\* A broadcast arrives at some of the sockets bound to its port.
Broadcast(queue, d, heard) ==
  [r \in DOMAIN queue |-> IF r \in heard THEN Append(queue[r], d) ELSE queue[r]]

\* The rest of the network: questions of other workers, and anything else.
StrayAtServer(s) ==
  /\ Hearing(s)
  /\ \E d \in {Question, Junk} : questions' = Broadcast(questions, d, {s})
  /\ UNCHANGED <<stage, main, epollVars, inbox, loopVars, startVars>>

StrayAtWorker(w) ==
  /\ Receiving(w)
  /\ inbox' = Broadcast(inbox, Junk, {w})
  /\ UNCHANGED <<serverVars, main, epollVars, loopVars, startVars>>

Stray ==
  \/ \E s \in Server : StrayAtServer(s)
  \/ \E w \in Worker : StrayAtWorker(w)

-----------------------------------------------------------------------------
(* Servers                                                                 *)

\* init_cluster_server(): the discovery socket is bound, the accept socket
\* listens, the event loop runs and watches both.
StageAfter == [off |-> "bound", bound |-> "listening", listening |-> "running"]

ServerStarts(s) ==
  /\ stage[s] # "running"
  /\ stage' = [stage EXCEPT ![s] = StageAfter[@]]
  /\ UNCHANGED <<questions, main, epollVars, inbox, loopVars, startVars>>

\* The computation is done or the process ends; it may be started again.
ServerStops(s) ==
  /\ s \notin Stable
  /\ stage[s] # "off"
  /\ stage'     = [stage EXCEPT ![s] = "off"]
  /\ questions' = [questions EXCEPT ![s] = <<>>]
  /\ conn' = [w \in Worker |-> IF conn[w] = "open" /\ addr[w] = s THEN "broken" ELSE conn[w]]
  /\ UNCHANGED <<main, epollVars, inbox, pc, batch, addr, startVars>>

\* A connection is accepted by the kernel as soon as the socket listens.
Listens(s) == stage[s] \in {"listening", "running"}

\* Seeded fault: the event loop runs before the accept socket listens.
AnsweringEarly(s) == stage[s] # "off"

Answering(s) == stage[s] = "running"

AllJunk(queue) == \A i \in DOMAIN queue : queue[i] = Junk

\* The first datagram of a queue that passes the check of size and content.
IsFirstGenuine(i, queue) ==
  /\ i \in DOMAIN queue
  /\ queue[i] # Junk
  /\ \A j \in 1 .. i - 1 : queue[j] = Junk

After(queue, i) == SubSeq(queue, i + 1, Len(queue))

\* answer_clients_discovery_datagram() reads up to the first question and
\* answers it; the others keep the socket readable.
Answer(s, heard) ==
  /\ Answering(s)
  /\ heard \subseteq {w \in Worker : Receiving(w)}
  /\ \E i \in DOMAIN questions[s] :
       /\ IsFirstGenuine(i, questions[s])
       /\ questions' = [questions EXCEPT ![s] = After(@, i)]
  /\ inbox' = Broadcast(inbox, s, heard)
  /\ UNCHANGED <<stage, main, epollVars, loopVars, startVars>>

\* With no question among them it reads all there is.
IgnoreJunk(s) ==
  /\ Answering(s)
  /\ questions[s] # <<>>
  /\ AllJunk(questions[s])
  /\ questions' = [questions EXCEPT ![s] = <<>>]
  /\ UNCHANGED <<stage, main, epollVars, inbox, loopVars, startVars>>

-----------------------------------------------------------------------------
(* A worker starts                                                         *)

\* The discovery socket is bound, the timer made and the event loop created,
\* which has nothing to wait for yet.
StartClient(w) ==
  /\ main[w] = "begin"
  /\ main' = [main EXCEPT ![w] = "looping"]
  /\ UNCHANGED <<serverVars, epollVars, inbox, loopVars, startVars>>

\* start_discovery_routine(), in three steps.
RegisterSocket(w) ==
  /\ local[w]
  /\ main[w] = "looping" /\ Alive(w)
  /\ main'    = [main EXCEPT ![w] = "socket"]
  /\ watched' = [watched EXCEPT ![w] = @ \cup {"socket"}]
  /\ UNCHANGED <<serverVars, armed, expired, inbox, loopVars, startVars>>

RegisterTimer(w) ==
  /\ main[w] = "socket" /\ Alive(w)
  /\ main'    = [main EXCEPT ![w] = "timer"]
  /\ watched' = [watched EXCEPT ![w] = @ \cup {"timer"}]
  /\ UNCHANGED <<serverVars, armed, expired, inbox, loopVars, startVars>>

ArmTimer(w) ==
  /\ main[w] = "timer" /\ Alive(w)
  /\ main'    = [main EXCEPT ![w] = "running"]
  /\ armed'   = [armed EXCEPT ![w] = TRUE]
  /\ expired' = [expired EXCEPT ![w] = FALSE]
  /\ UNCHANGED <<serverVars, watched, inbox, loopVars, startVars>>

\* With a hostname the starting thread connects.  While it is refused it
\* sleeps a second and tries again, which changes nothing.
ConnectToHost(w) ==
  /\ ~local[w]
  /\ main[w] = "looping" /\ Alive(w)
  /\ Listens(addr[w])
  /\ conn' = [conn EXCEPT ![w] = "open"]
  /\ main' = [main EXCEPT ![w] = "running"]
  /\ UNCHANGED <<serverVars, epollVars, inbox, pc, batch, addr, startVars>>

\* Any other error, as of a host that is down, ends the process.
HostIsDown(w) ==
  /\ ~local[w]
  /\ main[w] = "looping" /\ Alive(w)
  /\ stage[addr[w]] = "off"
  /\ pc' = [pc EXCEPT ![w] = "err_connect"]
  /\ UNCHANGED <<serverVars, main, epollVars, inbox, batch, addr, conn, startVars>>

\* The discovery descriptors of such a worker are never set; if one happens
\* to name the connection, its first event is taken for discovery's.
FirstEvent(w) ==
  /\ ~local[w]
  /\ pc[w] = "wait" /\ conn[w] # "none"
  /\ garbage[w] = "conn"
  /\ pc' = [pc EXCEPT ![w] = "bug_mode"]
  /\ UNCHANGED <<serverVars, main, epollVars, inbox, batch, addr, conn, startVars>>

MainNext(w) ==
  \/ StartClient(w)
  \/ RegisterSocket(w)
  \/ RegisterTimer(w)
  \/ ArmTimer(w)
  \/ ConnectToHost(w)

-----------------------------------------------------------------------------
(* The event loop of a worker                                              *)

\* The timer expires, and again after every interval.
Tick(w) ==
  /\ Alive(w) /\ armed[w] /\ ~expired[w]
  /\ expired' = [expired EXCEPT ![w] = TRUE]
  /\ armed'   = [armed EXCEPT ![w] = DISCOVERY_REPEAT_INTERVAL # 0]
  /\ UNCHANGED <<serverVars, main, watched, inbox, loopVars, startVars>>

Ready(w) ==
  {e \in watched[w] : \/ e = "socket" /\ inbox[w] # <<>>
                      \/ e = "timer" /\ expired[w]}

EpollWait(w) ==
  /\ pc[w] = "wait"
  /\ Ready(w) # {}
  /\ batch' = [batch EXCEPT ![w] = Ready(w)]
  /\ pc'    = [pc EXCEPT ![w] = "dispatch"]
  /\ UNCHANGED <<serverVars, main, epollVars, inbox, addr, conn, startVars>>

\* Every event is compared with server_conn.socket_fd, which is not set until
\* the worker has connected.
AfterEvent(w, e) == IF conn[w] = "none" /\ garbage[w] = e THEN "compare" ELSE "dispatch"

\* perform_discovery_send(): the question is sent before the timer is read.
PerformDiscoverySend(w, heard) ==
  /\ pc[w] = "dispatch"
  /\ "timer" \in batch[w]
  /\ batch' = [batch EXCEPT ![w] = @ \ {"timer"}]
  /\ heard \subseteq {s \in Server : Hearing(s)}
  /\ questions' = Broadcast(questions, Question, heard)
  /\ pc' = [pc EXCEPT ![w] = IF expired[w] THEN AfterEvent(w, "timer") ELSE "err_timer"]
  /\ expired' = [expired EXCEPT ![w] = FALSE]
  /\ UNCHANGED <<stage, main, watched, armed, inbox, addr, conn, startVars>>

\* Seeded fault: a datagram of any content is taken for a reply.
CatchReplyUnchecked(w) ==
  /\ pc[w] = "dispatch"
  /\ "socket" \in batch[w]
  /\ batch' = [batch EXCEPT ![w] = @ \ {"socket"}]
  /\ addr'  = [addr EXCEPT ![w] = Head(inbox[w])]
  /\ inbox' = [inbox EXCEPT ![w] = Tail(@)]
  /\ pc'    = [pc EXCEPT ![w] = "connect"]
  /\ UNCHANGED <<serverVars, main, epollVars, conn, startVars>>

\* catch_servers_discovery_datagram() reads up to the first reply.
CatchReply(w) ==
  /\ pc[w] = "dispatch"
  /\ "socket" \in batch[w]
  /\ batch' = [batch EXCEPT ![w] = @ \ {"socket"}]
  /\ \E i \in DOMAIN inbox[w] :
       /\ IsFirstGenuine(i, inbox[w])
       /\ addr'  = [addr EXCEPT ![w] = inbox[w][i]]
       /\ inbox' = [inbox EXCEPT ![w] = After(@, i)]
  /\ pc' = [pc EXCEPT ![w] = "connect"]
  /\ UNCHANGED <<serverVars, main, epollVars, conn, startVars>>

\* With no reply among them it reads all there is.
CatchJunk(w) ==
  /\ pc[w] = "dispatch"
  /\ "socket" \in batch[w]
  /\ AllJunk(inbox[w])
  /\ batch' = [batch EXCEPT ![w] = @ \ {"socket"}]
  /\ inbox' = [inbox EXCEPT ![w] = <<>>]
  /\ pc' = [pc EXCEPT ![w] = AfterEvent(w, "socket")]
  /\ UNCHANGED <<serverVars, main, epollVars, addr, conn, startVars>>

\* start_connection_management_routine() without a hostname: one attempt, at
\* the address and the port the reply came from.
ConnectToSender(w) ==
  /\ pc[w] = "connect"
  /\ IF Listens(addr[w]) /\ DISCOVERY_SERVER_PORT = CONNECTION_PORT
     THEN /\ conn' = [conn EXCEPT ![w] = "open"]
          /\ pc'   = [pc EXCEPT ![w] = "pause"]
     ELSE /\ pc' = [pc EXCEPT ![w] = "err_connect"]
          /\ UNCHANGED conn
  /\ UNCHANGED <<serverVars, main, epollVars, inbox, batch, addr, startVars>>

\* Seeded fault: that the timer is not registered yet is not noticed.
PauseDiscoveryUnchecked(w) ==
  /\ pc[w] = "pause"
  /\ watched' = [watched EXCEPT ![w] = {}]
  /\ armed'   = [armed EXCEPT ![w] = FALSE]
  /\ expired' = [expired EXCEPT ![w] = FALSE]
  /\ pc' = [pc EXCEPT ![w] = "dispatch"]
  /\ UNCHANGED <<serverVars, main, inbox, batch, addr, conn, startVars>>

\* Seeded fault: the loop over the datagrams goes on after it.
PauseDiscoveryNoReturn(w) ==
  /\ pc[w] = "pause"
  /\ watched' = [watched EXCEPT ![w] = {}]
  /\ armed'   = [armed EXCEPT ![w] = FALSE]
  /\ expired' = [expired EXCEPT ![w] = FALSE]
  /\ \/ \E i \in DOMAIN inbox[w] :
          /\ IsFirstGenuine(i, inbox[w])
          /\ addr'  = [addr EXCEPT ![w] = inbox[w][i]]
          /\ inbox' = [inbox EXCEPT ![w] = After(@, i)]
          /\ pc'    = [pc EXCEPT ![w] = "connect"]
     \/ /\ AllJunk(inbox[w])
        /\ inbox' = [inbox EXCEPT ![w] = <<>>]
        /\ pc'    = [pc EXCEPT ![w] = "dispatch"]
        /\ UNCHANGED addr
  /\ UNCHANGED <<serverVars, main, batch, conn, startVars>>

\* pause_discovery_routine(): both are deleted from epoll, which fails for
\* what is not there, and the timer is disarmed.
PauseDiscovery(w) ==
  /\ pc[w] = "pause"
  /\ IF watched[w] = {"socket", "timer"}
     THEN /\ watched' = [watched EXCEPT ![w] = {}]
          /\ armed'   = [armed EXCEPT ![w] = FALSE]
          /\ expired' = [expired EXCEPT ![w] = FALSE]
          /\ pc' = [pc EXCEPT ![w] = "dispatch"]
     ELSE /\ pc' = [pc EXCEPT ![w] = "err_pause"]
          /\ UNCHANGED epollVars
  /\ UNCHANGED <<serverVars, main, inbox, batch, addr, conn, startVars>>

\* The event is taken for one of the connection: recv() on a timer fails; on
\* the discovery socket it takes a datagram that has come since for a part of
\* a frame, or for a whole one with an unknown command.
CompareDescriptor(w) ==
  /\ pc[w] = "compare"
  /\ \/ garbage[w] = "timer" /\ pc' = [pc EXCEPT ![w] = "err_stray"] /\ UNCHANGED inbox
     \/ /\ garbage[w] = "socket"
        /\ pc' = [pc EXCEPT ![w] = "dispatch"]
        /\ inbox' = [inbox EXCEPT ![w] = IF @ = <<>> THEN @ ELSE Tail(@)]
     \/ /\ garbage[w] = "socket"
        /\ inbox[w] # <<>>
        /\ pc' = [pc EXCEPT ![w] = "err_stray"]
        /\ UNCHANGED inbox
  /\ UNCHANGED <<serverVars, main, epollVars, batch, addr, conn, startVars>>

EndOfBatch(w) ==
  /\ pc[w] = "dispatch"
  /\ batch[w] = {}
  /\ pc' = [pc EXCEPT ![w] = "wait"]
  /\ UNCHANGED <<serverVars, main, epollVars, inbox, batch, addr, conn, startVars>>

\* The loop returns when the connection is lost.
LoseServer(w) ==
  /\ pc[w] = "wait"
  /\ conn[w] = "broken"
  /\ pc' = [pc EXCEPT ![w] = "left"]
  /\ UNCHANGED <<serverVars, main, epollVars, inbox, batch, addr, conn, startVars>>

LoopNext(w) ==
  \/ EpollWait(w)
  \/ \E heard \in SUBSET Server : PerformDiscoverySend(w, heard)
  \/ CatchReply(w)
  \/ CatchJunk(w)
  \/ ConnectToSender(w)
  \/ PauseDiscovery(w)
  \/ CompareDescriptor(w)
  \/ EndOfBatch(w)
  \/ FirstEvent(w)
  \/ LoseServer(w)

-----------------------------------------------------------------------------

ServerNext(s) ==
  \/ ServerStarts(s)
  \/ ServerStops(s)
  \/ \E heard \in SUBSET Worker : Answer(s, heard)
  \/ IgnoreJunk(s)

WorkerNext(w) == MainNext(w) \/ HostIsDown(w) \/ Tick(w) \/ LoopNext(w)

Next ==
  \/ Stray
  \/ \E s \in Server : ServerNext(s)
  \/ \E w \in Worker : WorkerNext(w)

Spec == Init /\ [][Next]_vars

\* All threads keep running, a timer that is armed expires, and a server that
\* does not stop is started and answers.  Of the questions that find room in
\* the socket of such a server some arrive, and so do some of its replies.
FairSpec ==
  /\ Spec
  /\ \A w \in Worker : WF_vars(MainNext(w)) /\ WF_vars(Tick(w)) /\ WF_vars(LoopNext(w))
  /\ \A s \in Stable :
       /\ WF_vars(ServerStarts(s))
       /\ WF_vars(IgnoreJunk(s) \/ \E heard \in SUBSET Worker : Answer(s, heard))
  /\ \A w \in Worker, s \in Stable :
       /\ SF_vars(\E heard \in SUBSET Server : s \in heard /\ PerformDiscoverySend(w, heard))
       /\ SF_vars(\E heard \in SUBSET Worker : w \in heard /\ Answer(s, heard))

-----------------------------------------------------------------------------
(* Properties                                                              *)

\* Every variable holds a value its declaration and the protocol allow.
TypeOK ==
  /\ stage \in [Server -> {"off", "bound", "listening", "running"}]
  /\ questions \in [Server -> Seq({Question, Junk})]
  /\ local \in [Worker -> BOOLEAN]
  /\ garbage \in [Worker -> Descriptor]
  /\ main \in [Worker -> {"begin", "looping", "socket", "timer", "running"}]
  /\ watched \in [Worker -> SUBSET {"socket", "timer"}]
  /\ armed \in [Worker -> BOOLEAN]
  /\ expired \in [Worker -> BOOLEAN]
  /\ inbox \in [Worker -> Seq(Server \cup {Junk})]
  /\ pc \in [Worker -> {"wait", "dispatch", "connect", "pause", "compare"} \cup Ended]
  /\ batch \in [Worker -> SUBSET {"socket", "timer"}]
  /\ addr \in [Worker -> Server \cup {NoServer}]
  /\ conn \in [Worker -> {"none", "open", "broken"}]

\* Once a worker has connected and paused, epoll watches neither descriptor of
\* discovery again: the starting thread does not register the timer after that.
\* (An event of the timer that was fetched before is another matter, and so is
\* the timer itself, which the starting thread may still arm, unwatched.)
PausedForGood ==
  \A w \in Worker :
    local[w] /\ conn[w] # "none" /\ pc[w] \notin {"pause", "err_pause"} =>
      watched[w] = {} /\ main[w] \in {"timer", "running"}

\* A worker that searches goes on searching: once it is started, the timer is
\* armed and both descriptors are watched, whatever datagrams arrive.
SearchGoesOn ==
  \A w \in Worker :
    local[w] /\ main[w] = "running" /\ conn[w] = "none" /\ Alive(w) =>
      armed[w] /\ watched[w] = {"socket", "timer"}

\* What a worker that died of discovery died of.  A failed connect() means
\* that the server stopped after its reply, never that it replied too early;
\* a failed pause, that the reply was read while the starting thread was
\* between the registration of the socket and that of the timer; and a
\* failed read of the timer, that the worker had connected already.  The
\* descriptor of the connection is deadly while it is not set, that is to a
\* worker that still searches, and those of discovery to a worker with a
\* hostname, in which they are never set, when it is connected.
PostMortem ==
  \A w \in Worker :
    /\ local[w] /\ pc[w] = "err_connect" => addr[w] \notin Stable
    /\ pc[w] = "err_pause"   => main[w] = "socket" /\ conn[w] # "none"
    /\ pc[w] = "err_timer"   => conn[w] # "none" /\ main[w] = "running"
    /\ pc[w] = "err_stray"   => local[w] /\ conn[w] = "none" /\ garbage[w] \in {"socket", "timer"}
    /\ pc[w] = "bug_mode"    => ~local[w] /\ conn[w] # "none" /\ garbage[w] = "conn"

\* Discovery implements what it is for.
Meeting == INSTANCE Rendezvous WITH
  up    <- {s \in Server : Listens(s)},
  home  <- [w \in Worker |-> IF conn[w] = "none" THEN NoServer ELSE addr[w]],
  ended <- {w \in Worker : pc[w] \in Ended}

MeetsServers == Meeting!Spec

QuietNetwork == <>[][~Stray]_vars

\* When a server that does not stop can be found, a worker connects, unless
\* it dies of the start-up race, of a server that stopped after its reply, or
\* of a descriptor nobody has set.
WorkersConnect ==
  QuietNetwork =>
    \A w \in Worker :
      (IF local[w] THEN Stable # {} ELSE addr[w] \in Stable) ~>
        conn[w] # "none" \/ pc[w] \in {"err_pause", "err_connect", "err_stray"}

=============================================================================
