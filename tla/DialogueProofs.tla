--------------------------- MODULE DialogueProofs ---------------------------
(***************************************************************************)
(* What every dialogue of a server and its workers preserves, for any      *)
(* number of workers, tasks and threads.  Whatever implements Dialogue has *)
(* it too: FramingMessageProofs uses it for the byte streams.              *)
(***************************************************************************)
EXTENDS Dialogue, FiniteSets, FiniteSetTheorems, TLAPS

ToServer == {Request} \cup {Result(t) : t \in Task}
ToWorker == {TaskFor(t) : t \in Task}

TypeOK ==
  /\ alive \subseteq Worker /\ heard \subseteq Worker /\ pool \subseteq Task
  /\ credit \in [Worker -> Nat] /\ unrequested \in [Worker -> Nat]
  /\ held \in [Worker -> SUBSET Task] /\ working \in [Worker -> SUBSET Task]
  /\ toServer \in [Worker -> Seq(ToServer)] /\ toWorker \in [Worker -> Seq(ToWorker)]

\* The tasks a queue of messages is about, and that it names none of them twice.
Named(q) == {q[i].task : i \in {j \in DOMAIN q : q[j] # Request}}
Once(q)  == \A i, j \in DOMAIN q : q[i] # Request /\ q[i] = q[j] => i = j

\* Each thread of a worker is in one place at most: it has not asked, its
\* request or result is on its way, the server owes it a task, the task is on
\* its way, or it computes it.
Counted(w) ==
  /\ IsFiniteSet(working[w])
  /\ unrequested[w] + Len(toServer[w]) + credit[w] + Len(toWorker[w])
       + Cardinality(working[w]) <= Threads

\* What a worker has, or is told, or has answered, was handed out to it, and a
\* task is in one of these places only.
Entrusted(w) ==
  /\ Once(toServer[w]) /\ Once(toWorker[w])
  /\ Named(toServer[w]) \cup Named(toWorker[w]) \cup working[w] \subseteq held[w]
  /\ Named(toServer[w]) \cap Named(toWorker[w]) = {}
  /\ Named(toServer[w]) \cap working[w] = {}
  /\ Named(toWorker[w]) \cap working[w] = {}
  /\ w \notin alive => toWorker[w] = <<>> /\ working[w] = {}

\* A task is handed out to one worker at a time.
HeldOnce ==
  /\ \A w \in Worker : held[w] \cap pool = {}
  /\ \A v, w \in Worker : v # w => held[v] \cap held[w] = {}

Books ==
  /\ TypeOK
  /\ HeldOnce
  /\ \A w \in Worker : Counted(w) /\ Entrusted(w)

-----------------------------------------------------------------------------
(* Queues                                                                  *)

\* Messages that are told apart by their tasks.
ByTask(S) == \A m, n \in S \ {Request} : m.task = n.task => m = n

LEMMA MessagesByTask == ByTask(ToServer) /\ ByTask(ToWorker) /\ Request \notin ToWorker
<1>1. \A t \in Task : Result(t).task = t /\ TaskFor(t).task = t /\ TaskFor(t) # Request /\ Result(t) # Request
  BY DEF Result, TaskFor, Request
<1>2. \A m \in ToServer \ {Request} : \E t \in Task : m = Result(t) /\ m.task = t
  BY <1>1 DEF ToServer
<1>3. \A m \in ToWorker : \E t \in Task : m = TaskFor(t) /\ m.task = t
  BY <1>1 DEF ToWorker
<1>4. Request \notin ToWorker
  BY <1>1, <1>3
<1> QED
  BY <1>2, <1>3, <1>4 DEF ByTask

LEMMA MessageAppended ==
  ASSUME NEW S, ByTask(S), NEW q \in Seq(S), NEW m \in S
  PROVE  /\ Append(q, m) \in Seq(S) /\ Len(Append(q, m)) = Len(q) + 1
         /\ m = Request => Named(Append(q, m)) = Named(q)
         /\ m # Request => Named(Append(q, m)) = Named(q) \cup {m.task}
         /\ Once(q) /\ (m = Request \/ m.task \notin Named(q)) => Once(Append(q, m))
<1> DEFINE r == Append(q, m)
           k == Len(q) + 1
<1>1. /\ r \in Seq(S) /\ Len(r) = k /\ k \in Nat /\ DOMAIN r = DOMAIN q \cup {k} /\ k \notin DOMAIN q
      /\ \A i \in DOMAIN q : r[i] = q[i] /\ q[i] \in S
      /\ r[k] = m
  OBVIOUS
<1> HIDE DEF r, k
<1>2. m = Request => Named(r) = Named(q)
  BY <1>1 DEF Named
<1>3. m # Request => Named(r) = Named(q) \cup {m.task}
  BY <1>1 DEF Named
<1>4. ASSUME Once(q), m = Request \/ m.task \notin Named(q),
             NEW i \in DOMAIN r, NEW j \in DOMAIN r, r[i] # Request, r[i] = r[j]
      PROVE  i = j
  <2>1. \A x \in DOMAIN q : r[x] # Request => r[x] # m
    BY <1>1, <1>4 DEF Named
  <2> QED
    BY <1>1, <1>4, <2>1 DEF Once
<1> QED
  BY <1>1, <1>2, <1>3, <1>4 DEF r, k, Once

LEMMA MessageTaken ==
  ASSUME NEW S, ByTask(S), NEW q \in Seq(S), q # <<>>
  PROVE  /\ Head(q) \in S /\ Tail(q) \in Seq(S) /\ Len(Tail(q)) = Len(q) - 1 /\ Len(q) \in Nat \ {0}
         /\ Named(Tail(q)) \subseteq Named(q)
         /\ Once(q) => Once(Tail(q))
         /\ Head(q) # Request => Head(q).task \in Named(q)
         /\ Once(q) /\ Head(q) # Request => Head(q).task \notin Named(Tail(q))
<1> DEFINE r == Tail(q)
<1>1. /\ r \in Seq(S) /\ Len(r) = Len(q) - 1 /\ Len(q) \in Nat \ {0}
      /\ \A i \in DOMAIN r : i + 1 \in DOMAIN q /\ r[i] = q[i + 1] /\ i # 0 /\ i \in Nat /\ q[i + 1] \in S
      /\ 1 \in DOMAIN q /\ Head(q) = q[1] /\ q[1] \in S
  OBVIOUS
<1> HIDE DEF r
<1>2. Named(r) \subseteq Named(q)
  BY <1>1 DEF Named
<1>3. Once(q) => Once(r)
  <2> SUFFICES ASSUME Once(q), NEW i \in DOMAIN r, NEW j \in DOMAIN r, r[i] # Request, r[i] = r[j]
               PROVE  i = j
    BY DEF Once
  <2>1. i + 1 = j + 1
    BY <1>1 DEF Once
  <2> QED
    BY <1>1, <2>1
<1>4. Head(q) # Request => Head(q).task \in Named(q)
  BY <1>1 DEF Named
<1>5. ASSUME Once(q), Head(q) # Request, Head(q).task \in Named(r) PROVE FALSE
  <2>1. PICK i \in DOMAIN r : r[i] # Request /\ r[i].task = Head(q).task
    BY <1>5 DEF Named
  <2>2. q[i + 1] = q[1]
    BY <1>1, <1>5, <2>1 DEF ByTask
  <2>3. i + 1 = 1
    BY <1>1, <1>5, <2>2 DEF Once
  <2> QED
    BY <1>1, <2>3
<1> QED
  BY <1>1, <1>2, <1>3, <1>4, <1>5 DEF r

LEMMA MessagesCut ==
  ASSUME NEW S, NEW q \in Seq(S), NEW n \in 0 .. Len(q)
  PROVE  /\ SubSeq(q, 1, n) \in Seq(S) /\ Len(SubSeq(q, 1, n)) = n /\ n <= Len(q) /\ Len(q) \in Nat
         /\ Named(SubSeq(q, 1, n)) \subseteq Named(q)
         /\ Once(q) => Once(SubSeq(q, 1, n))
<1> DEFINE r == SubSeq(q, 1, n)
<1>1. /\ r \in Seq(S) /\ Len(r) = n /\ n <= Len(q) /\ Len(q) \in Nat
      /\ \A i \in DOMAIN r : i \in DOMAIN q /\ r[i] = q[i]
  OBVIOUS
<1> HIDE DEF r
<1> QED
  BY <1>1 DEF Named, Once, r

LEMMA NothingNamed == Named(<<>>) = {} /\ Once(<<>>) /\ Len(<<>>) = 0
  BY DEF Named, Once

-----------------------------------------------------------------------------
(* Steps                                                                   *)

\* Nothing about v changes.
Untouched(v) ==
  /\ credit'[v] = credit[v] /\ unrequested'[v] = unrequested[v]
  /\ held'[v] = held[v] /\ working'[v] = working[v]
  /\ toServer'[v] = toServer[v] /\ toWorker'[v] = toWorker[v]

LEMMA UntouchedKeeps ==
  ASSUME NEW v \in Worker, Untouched(v), v \in alive <=> v \in alive', Counted(v), Entrusted(v)
  PROVE  Counted(v)' /\ Entrusted(v)'
  BY DEF Untouched, Counted, Entrusted

LEMMA BooksInit == ASSUME Threads \in Nat, Init PROVE Books
<1>1. TypeOK
  BY DEF Init, TypeOK
<1>2. HeldOnce
  BY DEF Init, HeldOnce
<1>3. ASSUME NEW w \in Worker PROVE Counted(w) /\ Entrusted(w)
  <2>1. /\ unrequested[w] = Threads /\ credit[w] = 0 /\ working[w] = {}
        /\ toServer[w] = <<>> /\ toWorker[w] = <<>>
    BY DEF Init
  <2>2. IsFiniteSet({}) /\ Cardinality({}) = 0
    BY FS_EmptySet
  <2> QED
    BY <2>1, <2>2, NothingNamed DEF Counted, Entrusted
<1> QED
  BY <1>1, <1>2, <1>3 DEF Books

\* The counts of one worker.
LEMMA CountsAreNumbers ==
  ASSUME Books, NEW w \in Worker
  PROVE  /\ unrequested[w] \in Nat /\ credit[w] \in Nat /\ Len(toServer[w]) \in Nat
         /\ Len(toWorker[w]) \in Nat /\ Cardinality(working[w]) \in Nat
         /\ toServer[w] \in Seq(ToServer) /\ toWorker[w] \in Seq(ToWorker)
<1>1. toServer[w] \in Seq(ToServer) /\ toWorker[w] \in Seq(ToWorker)
  BY DEF Books, TypeOK
<1>2. Len(toServer[w]) \in Nat /\ Len(toWorker[w]) \in Nat
  BY <1>1
<1>3. Cardinality(working[w]) \in Nat
  BY FS_CardinalityType DEF Books, Counted
<1> QED
  BY <1>1, <1>2, <1>3 DEF Books, TypeOK

\* Where the threads of w are: not asking, asked, owed a task, told one, busy.
Stages(w) ==
  <<unrequested[w], Len(toServer[w]), credit[w], Len(toWorker[w]), Cardinality(working[w])>>

\* A thread goes to another place, or none is in more places than before.
Moved(before, after) ==
  \/ \E i, j \in 1 .. 5 :
       /\ i # j /\ after[i] = before[i] - 1 /\ after[j] = before[j] + 1
       /\ \A k \in 1 .. 5 \ {i, j} : after[k] = before[k]
  \/ \A k \in 1 .. 5 : after[k] <= before[k]

\* A thread goes on: it asks, is heard, is told, takes its task, answers.
LEMMA MovedOn ==
  ASSUME NEW a \in Nat, NEW b \in Nat, NEW c \in Nat, NEW d \in Nat, NEW e \in Nat
  PROVE  /\ Moved(<<a, b, c, d, e>>, <<a - 1, b + 1, c, d, e>>)
         /\ Moved(<<a, b, c, d, e>>, <<a, b - 1, c + 1, d, e>>)
         /\ Moved(<<a, b, c, d, e>>, <<a, b, c - 1, d + 1, e>>)
         /\ Moved(<<a, b, c, d, e>>, <<a, b, c, d - 1, e + 1>>)
         /\ Moved(<<a, b, c, d, e>>, <<a, b + 1, c, d, e - 1>>)
<1> DEFINE p == <<a, b, c, d, e>>
<1>0. p[1] = a /\ p[2] = b /\ p[3] = c /\ p[4] = d /\ p[5] = e
  OBVIOUS
<1>1. Moved(p, <<a - 1, b + 1, c, d, e>>)
  <2> DEFINE q == <<a - 1, b + 1, c, d, e>>
  <2>1. q[1] = a - 1 /\ q[2] = b + 1 /\ q[3] = c /\ q[4] = d /\ q[5] = e
    OBVIOUS
  <2> HIDE DEF p, q
  <2>2. /\ q[1] = p[1] - 1 /\ q[2] = p[2] + 1
        /\ \A k \in 1 .. 5 \ {1, 2} : q[k] = p[k]
    BY <1>0, <2>1
  <2>3. Moved(p, q)
    <3>1. 1 \in 1 .. 5 /\ 2 \in 1 .. 5 /\ 1 # 2
      OBVIOUS
    <3> QED
      BY <2>2, <3>1, Zenon DEF Moved
  <2> QED
    BY <2>3 DEF q
<1>2. Moved(p, <<a, b - 1, c + 1, d, e>>)
  <2> DEFINE q == <<a, b - 1, c + 1, d, e>>
  <2>1. q[1] = a /\ q[2] = b - 1 /\ q[3] = c + 1 /\ q[4] = d /\ q[5] = e
    OBVIOUS
  <2> HIDE DEF p, q
  <2>2. /\ q[2] = p[2] - 1 /\ q[3] = p[3] + 1
        /\ \A k \in 1 .. 5 \ {2, 3} : q[k] = p[k]
    BY <1>0, <2>1
  <2>3. Moved(p, q)
    <3>1. 2 \in 1 .. 5 /\ 3 \in 1 .. 5 /\ 2 # 3
      OBVIOUS
    <3> QED
      BY <2>2, <3>1, Zenon DEF Moved
  <2> QED
    BY <2>3 DEF q
<1>3. Moved(p, <<a, b, c - 1, d + 1, e>>)
  <2> DEFINE q == <<a, b, c - 1, d + 1, e>>
  <2>1. q[1] = a /\ q[2] = b /\ q[3] = c - 1 /\ q[4] = d + 1 /\ q[5] = e
    OBVIOUS
  <2> HIDE DEF p, q
  <2>2. /\ q[3] = p[3] - 1 /\ q[4] = p[4] + 1
        /\ \A k \in 1 .. 5 \ {3, 4} : q[k] = p[k]
    BY <1>0, <2>1
  <2>3. Moved(p, q)
    <3>1. 3 \in 1 .. 5 /\ 4 \in 1 .. 5 /\ 3 # 4
      OBVIOUS
    <3> QED
      BY <2>2, <3>1, Zenon DEF Moved
  <2> QED
    BY <2>3 DEF q
<1>4. Moved(p, <<a, b, c, d - 1, e + 1>>)
  <2> DEFINE q == <<a, b, c, d - 1, e + 1>>
  <2>1. q[1] = a /\ q[2] = b /\ q[3] = c /\ q[4] = d - 1 /\ q[5] = e + 1
    OBVIOUS
  <2> HIDE DEF p, q
  <2>2. /\ q[4] = p[4] - 1 /\ q[5] = p[5] + 1
        /\ \A k \in 1 .. 5 \ {4, 5} : q[k] = p[k]
    BY <1>0, <2>1
  <2>3. Moved(p, q)
    <3>1. 4 \in 1 .. 5 /\ 5 \in 1 .. 5 /\ 4 # 5
      OBVIOUS
    <3> QED
      BY <2>2, <3>1, Zenon DEF Moved
  <2> QED
    BY <2>3 DEF q
<1>5. Moved(p, <<a, b + 1, c, d, e - 1>>)
  <2> DEFINE q == <<a, b + 1, c, d, e - 1>>
  <2>1. q[1] = a /\ q[2] = b + 1 /\ q[3] = c /\ q[4] = d /\ q[5] = e - 1
    OBVIOUS
  <2> HIDE DEF p, q
  <2>2. /\ q[5] = p[5] - 1 /\ q[2] = p[2] + 1
        /\ \A k \in 1 .. 5 \ {5, 2} : q[k] = p[k]
    BY <1>0, <2>1
  <2>3. Moved(p, q)
    <3>1. 5 \in 1 .. 5 /\ 2 \in 1 .. 5 /\ 5 # 2
      OBVIOUS
    <3> QED
      BY <2>2, <3>1, Zenon DEF Moved
  <2> QED
    BY <2>3 DEF q
<1> QED
  BY <1>1, <1>2, <1>3, <1>4, <1>5

LEMMA MovedAway ==
  ASSUME NEW a \in Nat, NEW b \in Nat, NEW c \in Nat, NEW d \in Nat, NEW e \in Nat,
         NEW b1 \in 0 .. b, NEW c1 \in 0 .. c, NEW d1 \in 0 .. d, NEW e1 \in 0 .. e
  PROVE  Moved(<<a, b, c, d, e>>, <<a, b1, c1, d1, e1>>)
<1>1. \A k \in 1 .. 5 : <<a, b1, c1, d1, e1>>[k] <= <<a, b, c, d, e>>[k]
  OBVIOUS
<1> QED
  BY <1>1 DEF Moved

LEMMA MovedSum ==
  ASSUME NEW p, NEW q, p \in [1 .. 5 -> Nat], q \in [1 .. 5 -> Nat], Moved(p, q)
  PROVE  q[1] + q[2] + q[3] + q[4] + q[5] <= p[1] + p[2] + p[3] + p[4] + p[5]
<1>1. /\ p[1] \in Nat /\ p[2] \in Nat /\ p[3] \in Nat /\ p[4] \in Nat /\ p[5] \in Nat
      /\ q[1] \in Nat /\ q[2] \in Nat /\ q[3] \in Nat /\ q[4] \in Nat /\ q[5] \in Nat
  OBVIOUS
<1>2. CASE \A k \in 1 .. 5 : q[k] <= p[k]
  <2>1. q[1] <= p[1] /\ q[2] <= p[2] /\ q[3] <= p[3] /\ q[4] <= p[4] /\ q[5] <= p[5]
    BY <1>2
  <2> QED
    BY <1>1, <2>1
<1>3. ASSUME NEW i \in 1 .. 5, NEW j \in 1 .. 5, i # j, q[i] = p[i] - 1, q[j] = p[j] + 1,
             \A k \in 1 .. 5 \ {i, j} : q[k] = p[k]
      PROVE  q[1] + q[2] + q[3] + q[4] + q[5] <= p[1] + p[2] + p[3] + p[4] + p[5]
  BY <1>1, <1>3
<1> QED
  BY <1>2, <1>3 DEF Moved

LEMMA CountKept ==
  ASSUME Books, Threads \in Nat, NEW w \in Worker, IsFiniteSet(working'[w]),
         Stages(w)' \in [1 .. 5 -> Nat], Moved(Stages(w), Stages(w)')
  PROVE  Counted(w)'
<1>1. Stages(w) \in [1 .. 5 -> Nat]
  BY CountsAreNumbers DEF Stages
<1> DEFINE p == Stages(w)
           q == Stages(w)'
<1>2. p[1] + p[2] + p[3] + p[4] + p[5] <= Threads
  BY DEF Books, Counted, Stages
<1>3. q[1] + q[2] + q[3] + q[4] + q[5] <= Threads => Counted(w)'
  BY DEF Stages, Counted
<1>4. p \in [1 .. 5 -> Nat] /\ q \in [1 .. 5 -> Nat] /\ Moved(p, q)
  BY <1>1
<1> HIDE DEF p, q
<1>5. q[1] + q[2] + q[3] + q[4] + q[5] <= p[1] + p[2] + p[3] + p[4] + p[5]
  BY ONLY <1>4, MovedSum
<1>6. /\ p[1] + p[2] + p[3] + p[4] + p[5] \in Nat
      /\ q[1] + q[2] + q[3] + q[4] + q[5] \in Nat
  BY ONLY <1>4
<1>7. q[1] + q[2] + q[3] + q[4] + q[5] <= Threads
  BY <1>2, <1>5, <1>6
<1> QED
  BY <1>3, <1>7

LEMMA StagesMove ==
  ASSUME Books, NEW w \in Worker
  PROVE  /\ Moved(Stages(w), <<unrequested[w] - 1, Len(toServer[w]) + 1, credit[w], Len(toWorker[w]), Cardinality(working[w])>>)
         /\ Moved(Stages(w), <<unrequested[w], Len(toServer[w]) - 1, credit[w] + 1, Len(toWorker[w]), Cardinality(working[w])>>)
         /\ Moved(Stages(w), <<unrequested[w], Len(toServer[w]), credit[w] - 1, Len(toWorker[w]) + 1, Cardinality(working[w])>>)
         /\ Moved(Stages(w), <<unrequested[w], Len(toServer[w]), credit[w], Len(toWorker[w]) - 1, Cardinality(working[w]) + 1>>)
         /\ Moved(Stages(w), <<unrequested[w], Len(toServer[w]) + 1, credit[w], Len(toWorker[w]), Cardinality(working[w]) - 1>>)
<1>1. /\ unrequested[w] \in Nat /\ Len(toServer[w]) \in Nat /\ credit[w] \in Nat
      /\ Len(toWorker[w]) \in Nat /\ Cardinality(working[w]) \in Nat
  BY CountsAreNumbers
<1> QED
  BY ONLY <1>1, MovedOn DEF Stages

LEMMA ConnectKeeps ==
  ASSUME Books, NEW w \in Worker, Connect(w) \/ Accept(w)
  PROVE  Books'
<1>1. /\ alive \subseteq alive' /\ alive' \subseteq Worker /\ heard' \subseteq Worker
      /\ UNCHANGED <<pool, credit, held, toServer, toWorker, working, unrequested>>
  BY DEF Books, TypeOK, Connect, Accept
<1> QED
  BY <1>1 DEF Books, TypeOK, HeldOnce, Counted, Entrusted

LEMMA AskKeeps ==
  ASSUME Books, Threads \in Nat, NEW w \in Worker, Ask(w)
  PROVE  Books'
<1>1. Request \in ToServer
  BY DEF ToServer
<1>2. /\ unrequested'[w] = unrequested[w] - 1 /\ unrequested[w] - 1 \in Nat
      /\ toServer'[w] = Append(toServer[w], Request)
      /\ \A v \in Worker \ {w} : Untouched(v)
      /\ UNCHANGED <<alive, heard, pool, credit, held, toWorker, working>>
  BY DEF Ask, Books, TypeOK, Untouched
<1>3. /\ toServer'[w] \in Seq(ToServer) /\ Len(toServer'[w]) = Len(toServer[w]) + 1
      /\ Named(toServer'[w]) = Named(toServer[w])
      /\ Once(toServer[w]) => Once(toServer'[w])
  BY <1>1, <1>2, CountsAreNumbers, MessagesByTask, MessageAppended
<1>4. TypeOK'
  <2>1. toServer' \in [Worker -> Seq(ToServer)]
    BY <1>3 DEF Ask, Books, TypeOK
  <2>2. unrequested' \in [Worker -> Nat]
    BY <1>2 DEF Ask, Books, TypeOK
  <2> QED
    BY <2>1, <2>2, <1>2 DEF Books, TypeOK
<1>5. Counted(w)'
  <2>1. Stages(w)' = <<unrequested[w] - 1, Len(toServer[w]) + 1, credit[w], Len(toWorker[w]),
                       Cardinality(working[w])>>
    BY <1>2, <1>3 DEF Stages
  <2>2. unrequested[w] - 1 \in Nat /\ Len(toServer[w]) + 1 \in Nat
    BY <1>2, CountsAreNumbers
  <2>3. Stages(w)' \in [1 .. 5 -> Nat]
    BY <2>1, <2>2, CountsAreNumbers
  <2>4. Moved(Stages(w), Stages(w)')
    BY <2>1, StagesMove
  <2> QED
    BY <1>2, <2>3, <2>4, CountKept DEF Books, Counted
<1>6. Entrusted(w)'
  BY <1>2, <1>3 DEF Books, Entrusted
<1> QED
  BY <1>2, <1>4, <1>5, <1>6, UntouchedKeeps DEF Books, HeldOnce

LEMMA HearKeeps ==
  ASSUME Books, Threads \in Nat, NEW w \in Worker, Hear(w)
  PROVE  Books'
<1> DEFINE m == Head(toServer[w])
<1>1. /\ toServer[w] \in Seq(ToServer) /\ toServer[w] # <<>>
      /\ toServer'[w] = Tail(toServer[w])
      /\ credit'[w] = credit[w] + 1
      /\ held' \in [Worker -> SUBSET Task]
      /\ (m = Request /\ held'[w] = held[w]) \/ (m # Request /\ held'[w] = held[w] \ {m.task})
      /\ \A v \in Worker \ {w} : Untouched(v)
      /\ UNCHANGED <<alive, heard, pool, toWorker, working, unrequested>>
  <2>1. TypeOK /\ \A x : Result(x) # Request
    BY DEF Books, Request, Result
  <2>2. \/ m = Request /\ held' = held
        \/ m # Request /\ held' = [held EXCEPT ![w] = @ \ {m.task}]
    BY <2>1 DEF Hear
  <2> HIDE DEF m
  <2>3. /\ held' \in [Worker -> SUBSET Task]
        /\ (m = Request /\ held'[w] = held[w]) \/ (m # Request /\ held'[w] = held[w] \ {m.task})
        /\ \A v \in Worker \ {w} : held'[v] = held[v]
    BY <2>1, <2>2 DEF TypeOK
  <2> QED
    BY <2>1, <2>3 DEF Hear, TypeOK, Untouched
<1>2. /\ toServer'[w] \in Seq(ToServer) /\ Len(toServer'[w]) = Len(toServer[w]) - 1
      /\ Len(toServer[w]) \in Nat \ {0}
      /\ Named(toServer'[w]) \subseteq Named(toServer[w])
      /\ Once(toServer[w]) => Once(toServer'[w])
      /\ m # Request => m.task \in Named(toServer[w])
      /\ Once(toServer[w]) /\ m # Request => m.task \notin Named(toServer'[w])
  BY <1>1, MessagesByTask, MessageTaken
<1> HIDE DEF m
<1>3. TypeOK'
  <2>1. toServer' \in [Worker -> Seq(ToServer)] /\ credit' \in [Worker -> Nat]
    BY <1>1, <1>2 DEF Hear, Books, TypeOK
  <2> QED
    BY <2>1, <1>1 DEF Books, TypeOK
<1>4. Counted(w)'
  <2>1. Stages(w)' = <<unrequested[w], Len(toServer[w]) - 1, credit[w] + 1, Len(toWorker[w]),
                       Cardinality(working[w])>>
    BY <1>1, <1>2 DEF Stages
  <2>2. Len(toServer[w]) - 1 \in Nat /\ credit[w] + 1 \in Nat
    BY <1>2, CountsAreNumbers
  <2>3. Stages(w)' \in [1 .. 5 -> Nat]
    BY <2>1, <2>2, CountsAreNumbers
  <2>4. Moved(Stages(w), Stages(w)')
    BY <2>1, StagesMove
  <2> QED
    BY <1>1, <2>3, <2>4, CountKept DEF Books, Counted
<1>5. Entrusted(w)'
  BY <1>1, <1>2 DEF Books, Entrusted
<1>6. HeldOnce'
  <2>1. held'[w] \subseteq held[w] /\ \A v \in Worker \ {w} : held'[v] = held[v]
    BY <1>1 DEF Untouched
  <2>2. \A v \in Worker : held'[v] \subseteq held[v]
    BY <2>1
  <2> QED
    BY <1>1, <2>2 DEF Books, HeldOnce
<1> QED
  BY <1>1, <1>3, <1>4, <1>5, <1>6, UntouchedKeeps DEF Books

LEMMA HandOutKeeps ==
  ASSUME Books, Threads \in Nat, NEW w \in Worker, NEW t \in Task, HandOut(w, t)
  PROVE  Books'
<1> DEFINE m == TaskFor(t)
<1>1. m \in ToWorker /\ m # Request /\ m.task = t
  BY DEF ToWorker, TaskFor, Request
<1>2. /\ t \in pool /\ pool' = pool \ {t}
      /\ credit'[w] = credit[w] - 1 /\ credit[w] - 1 \in Nat
      /\ held'[w] = held[w] \cup {t}
      /\ toWorker'[w] = IF w \in alive THEN Append(toWorker[w], m) ELSE toWorker[w]
      /\ \A v \in Worker \ {w} : Untouched(v)
      /\ UNCHANGED <<alive, heard, toServer, working, unrequested>>
  BY DEF HandOut, Books, TypeOK, Untouched
<1> HIDE DEF m
<1>3. t \notin held[w] /\ t \notin Named(toWorker[w]) /\ t \notin Named(toServer[w]) /\ t \notin working[w]
  BY <1>2 DEF Books, HeldOnce, Entrusted
<1>4. ASSUME w \in alive PROVE Counted(w)' /\ Entrusted(w)'
  <2>1. /\ toWorker'[w] \in Seq(ToWorker) /\ Len(toWorker'[w]) = Len(toWorker[w]) + 1
        /\ Named(toWorker'[w]) = Named(toWorker[w]) \cup {t}
        /\ Once(toWorker[w]) => Once(toWorker'[w])
    BY <1>1, <1>2, <1>3, <1>4, CountsAreNumbers, MessagesByTask, MessageAppended
  <2>2. Counted(w)'
    <3>1. Stages(w)' = <<unrequested[w], Len(toServer[w]), credit[w] - 1, Len(toWorker[w]) + 1,
                         Cardinality(working[w])>>
      BY <1>2, <2>1 DEF Stages
    <3>2. Len(toWorker[w]) + 1 \in Nat
      BY CountsAreNumbers
    <3>3. Stages(w)' \in [1 .. 5 -> Nat]
      BY <1>2, <3>1, <3>2, CountsAreNumbers
    <3>4. Moved(Stages(w), Stages(w)')
      BY <3>1, StagesMove
    <3> QED
      BY <1>2, <3>3, <3>4, CountKept DEF Books, Counted
  <2>3. Entrusted(w)'
    BY <1>2, <1>3, <1>4, <2>1 DEF Books, Entrusted
  <2> QED
    BY <2>2, <2>3
<1>5. ASSUME w \notin alive PROVE Counted(w)' /\ Entrusted(w)'
  <2>1. Counted(w)'
    <3>1. Stages(w)' = <<unrequested[w], Len(toServer[w]), credit[w] - 1, Len(toWorker[w]),
                         Cardinality(working[w])>>
      BY <1>2, <1>5 DEF Stages
    <3>2. Stages(w)' \in [1 .. 5 -> Nat]
      BY <1>2, <3>1, CountsAreNumbers
    <3>3. /\ Len(toServer[w]) \in 0 .. Len(toServer[w]) /\ Len(toWorker[w]) \in 0 .. Len(toWorker[w])
          /\ credit[w] - 1 \in 0 .. credit[w]
          /\ Cardinality(working[w]) \in 0 .. Cardinality(working[w])
      BY <1>2, CountsAreNumbers
    <3>4. Moved(Stages(w), Stages(w)')
      <4>1. /\ unrequested[w] \in Nat /\ Len(toServer[w]) \in Nat /\ credit[w] \in Nat
            /\ Len(toWorker[w]) \in Nat /\ Cardinality(working[w]) \in Nat
        BY CountsAreNumbers
      <4>2. Moved(Stages(w), <<unrequested[w], Len(toServer[w]), credit[w] - 1, Len(toWorker[w]),
                               Cardinality(working[w])>>)
        BY ONLY <3>3, <4>1, MovedAway DEF Stages
      <4> QED
        BY <3>1, <4>2
    <3> QED
      BY <1>2, <3>2, <3>4, CountKept DEF Books, Counted
  <2>2. Entrusted(w)'
    BY <1>2, <1>3, <1>5 DEF Books, Entrusted
  <2> QED
    BY <2>1, <2>2
<1>6. toWorker'[w] \in Seq(ToWorker) /\ Counted(w)' /\ Entrusted(w)'
  <2>1. CASE w \in alive
    <3>1. toWorker'[w] \in Seq(ToWorker)
      BY <1>1, <1>2, <2>1, CountsAreNumbers
    <3> QED
      BY <2>1, <3>1, <1>4
  <2>2. CASE w \notin alive
    BY <1>2, <2>2, <1>5, CountsAreNumbers
  <2> QED
    BY <2>1, <2>2
<1>7. TypeOK'
  <2>1. toWorker' \in [Worker -> Seq(ToWorker)]
    BY <1>6 DEF HandOut, Books, TypeOK
  <2>2. credit' \in [Worker -> Nat] /\ held' \in [Worker -> SUBSET Task]
    BY <1>2 DEF HandOut, Books, TypeOK
  <2> QED
    BY <2>1, <2>2, <1>2 DEF Books, TypeOK
<1>8. HeldOnce'
  <2>1. \A v \in Worker \ {w} : held'[v] = held[v] /\ t \notin held[v]
    BY <1>2 DEF Untouched, Books, HeldOnce
  <2> QED
    BY <1>2, <2>1 DEF Books, HeldOnce
<1> QED
  BY <1>2, <1>6, <1>7, <1>8, UntouchedKeeps DEF Books

LEMMA TakeKeeps ==
  ASSUME Books, Threads \in Nat, NEW w \in Worker, Take(w)
  PROVE  Books'
<1> DEFINE t == Head(toWorker[w]).task
<1>1. /\ toWorker[w] \in Seq(ToWorker) /\ toWorker[w] # <<>> /\ w \in alive
      /\ toWorker'[w] = Tail(toWorker[w])
      /\ working'[w] = working[w] \cup {t}
      /\ \A v \in Worker \ {w} : Untouched(v)
      /\ UNCHANGED <<alive, heard, pool, credit, held, toServer, unrequested>>
  BY DEF Take, Books, TypeOK, Untouched
<1>2. /\ toWorker'[w] \in Seq(ToWorker) /\ Len(toWorker'[w]) = Len(toWorker[w]) - 1
      /\ Len(toWorker[w]) \in Nat \ {0}
      /\ Named(toWorker'[w]) \subseteq Named(toWorker[w])
      /\ Once(toWorker[w]) => Once(toWorker'[w])
      /\ t \in Named(toWorker[w])
      /\ Once(toWorker[w]) => t \notin Named(toWorker'[w])
  BY <1>1, MessagesByTask, MessageTaken
<1> HIDE DEF t
<1>3. t \in Task /\ t \notin working[w] /\ t \in held[w] /\ t \notin Named(toServer[w])
  BY <1>2 DEF Books, Entrusted, TypeOK
<1>4. IsFiniteSet(working'[w]) /\ Cardinality(working'[w]) = Cardinality(working[w]) + 1
  BY <1>1, <1>3, FS_AddElement DEF Books, Counted
<1>5. TypeOK'
  <2>1. toWorker' \in [Worker -> Seq(ToWorker)]
    BY <1>2 DEF Take, Books, TypeOK
  <2>2. working' \in [Worker -> SUBSET Task]
    BY <1>1, <1>3 DEF Take, Books, TypeOK, t
  <2> QED
    BY <2>1, <2>2, <1>1 DEF Books, TypeOK
<1>6. Counted(w)'
  <2>1. Stages(w)' = <<unrequested[w], Len(toServer[w]), credit[w], Len(toWorker[w]) - 1,
                       Cardinality(working[w]) + 1>>
    BY <1>1, <1>2, <1>4 DEF Stages
  <2>2. Len(toWorker[w]) - 1 \in Nat /\ Cardinality(working[w]) + 1 \in Nat
    BY <1>2, CountsAreNumbers
  <2>3. Stages(w)' \in [1 .. 5 -> Nat]
    BY <2>1, <2>2, CountsAreNumbers
  <2>4. Moved(Stages(w), Stages(w)')
    BY <2>1, StagesMove
  <2> QED
    BY <1>4, <2>3, <2>4, CountKept
<1>7. Entrusted(w)'
  BY <1>1, <1>2, <1>3 DEF Books, Entrusted
<1> QED
  BY <1>1, <1>5, <1>6, <1>7, UntouchedKeeps DEF Books, HeldOnce

LEMMA FinishKeeps ==
  ASSUME Books, Threads \in Nat, NEW w \in Worker, NEW t \in Task, Finish(w, t)
  PROVE  Books'
<1> DEFINE m == Result(t)
<1>1. m \in ToServer /\ m # Request /\ m.task = t
  BY DEF ToServer, Result, Request
<1>2. /\ w \in alive /\ t \in working[w]
      /\ working'[w] = working[w] \ {t}
      /\ toServer'[w] = Append(toServer[w], m)
      /\ \A v \in Worker \ {w} : Untouched(v)
      /\ UNCHANGED <<alive, heard, pool, credit, held, toWorker, unrequested>>
  BY DEF Finish, Books, TypeOK, Untouched
<1> HIDE DEF m
<1>3. t \in held[w] /\ t \notin Named(toServer[w]) /\ t \notin Named(toWorker[w])
  BY <1>2 DEF Books, Entrusted
<1>4. /\ toServer'[w] \in Seq(ToServer) /\ Len(toServer'[w]) = Len(toServer[w]) + 1
      /\ Named(toServer'[w]) = Named(toServer[w]) \cup {t}
      /\ Once(toServer[w]) => Once(toServer'[w])
  BY <1>1, <1>2, <1>3, CountsAreNumbers, MessagesByTask, MessageAppended
<1>5. /\ IsFiniteSet(working'[w]) /\ Cardinality(working'[w]) = Cardinality(working[w]) - 1
      /\ Cardinality(working'[w]) \in Nat
  <2>1. IsFiniteSet(working[w])
    BY DEF Books, Counted
  <2>2. /\ IsFiniteSet(working[w] \ {t})
        /\ Cardinality(working[w] \ {t}) = Cardinality(working[w]) - 1
    BY <1>2, <2>1, FS_RemoveElement
  <2> QED
    BY <1>2, <2>2, FS_CardinalityType
<1>6. TypeOK'
  <2>1. toServer' \in [Worker -> Seq(ToServer)]
    BY <1>4 DEF Finish, Books, TypeOK
  <2>2. working' \in [Worker -> SUBSET Task]
    BY DEF Finish, Books, TypeOK
  <2> QED
    BY <2>1, <2>2, <1>2 DEF Books, TypeOK
<1>7. Counted(w)'
  <2>1. Stages(w)' = <<unrequested[w], Len(toServer[w]) + 1, credit[w], Len(toWorker[w]),
                       Cardinality(working[w]) - 1>>
    BY <1>2, <1>4, <1>5 DEF Stages
  <2>2. Len(toServer[w]) + 1 \in Nat /\ Cardinality(working[w]) - 1 \in Nat
    BY <1>5, CountsAreNumbers
  <2>3. Stages(w)' \in [1 .. 5 -> Nat]
    BY <2>1, <2>2, CountsAreNumbers
  <2>4. Moved(Stages(w), Stages(w)')
    BY <2>1, StagesMove
  <2> QED
    BY <1>5, <2>3, <2>4, CountKept
<1>8. Entrusted(w)'
  BY <1>2, <1>3, <1>4 DEF Books, Entrusted
<1> QED
  BY <1>2, <1>6, <1>7, <1>8, UntouchedKeeps DEF Books, HeldOnce

\* w loses messages or tasks, and gets none.
LEMMA LessIsEntrusted ==
  ASSUME Books, Threads \in Nat, NEW w \in Worker, NEW n \in 0 .. Len(toServer[w]),
         toServer'[w] = SubSeq(toServer[w], 1, n), toWorker'[w] = <<>>, working'[w] = {},
         credit'[w] \in 0 .. credit[w], unrequested'[w] = unrequested[w],
         held'[w] = held[w] \/ (held'[w] = {} /\ n = 0)
  PROVE  Counted(w)' /\ Entrusted(w)' /\ toServer'[w] \in Seq(ToServer)
<1>1. /\ toServer'[w] \in Seq(ToServer) /\ Len(toServer'[w]) = n
      /\ Named(toServer'[w]) \subseteq Named(toServer[w])
      /\ Once(toServer[w]) => Once(toServer'[w])
  BY CountsAreNumbers, MessagesCut
<1>2. n = 0 => Named(toServer'[w]) = {}
  BY <1>1 DEF Named
<1>3. IsFiniteSet(working'[w]) /\ Cardinality(working'[w]) = 0
  BY FS_EmptySet
<1>4. Counted(w)'
  <2>1. Stages(w)' = <<unrequested[w], n, credit'[w], 0, 0>>
    BY <1>1, <1>3, NothingNamed DEF Stages
  <2>2. Stages(w)' \in [1 .. 5 -> Nat]
    BY <2>1, CountsAreNumbers
  <2>3. 0 \in 0 .. Len(toWorker[w]) /\ 0 \in 0 .. Cardinality(working[w])
    BY CountsAreNumbers
  <2>4. Moved(Stages(w), <<unrequested[w], n, credit'[w], 0, 0>>)
    <3>1. /\ unrequested[w] \in Nat /\ Len(toServer[w]) \in Nat /\ credit[w] \in Nat
          /\ Len(toWorker[w]) \in Nat /\ Cardinality(working[w]) \in Nat
          /\ n \in 0 .. Len(toServer[w]) /\ credit'[w] \in 0 .. credit[w]
      BY CountsAreNumbers
    <3> QED
      BY ONLY <2>3, <3>1, MovedAway DEF Stages
  <2> QED
    BY <1>3, <2>1, <2>2, <2>4, CountKept
<1>5. Entrusted(w)'
  BY <1>1, <1>2, NothingNamed DEF Books, Entrusted
<1> QED
  BY <1>1, <1>4, <1>5

LEMMA DieKeeps ==
  ASSUME Books, Threads \in Nat, NEW w \in Worker, Die(w)
  PROVE  Books'
<1>1. PICK n \in 0 .. Len(toServer[w]) : toServer' = [toServer EXCEPT ![w] = SubSeq(@, 1, n)]
  BY DEF Die
<1>2. /\ toServer'[w] = SubSeq(toServer[w], 1, n) /\ toWorker'[w] = <<>> /\ working'[w] = {}
      /\ alive' = alive \ {w}
      /\ \A v \in Worker \ {w} : Untouched(v)
      /\ UNCHANGED <<heard, pool, credit, held, unrequested>>
  BY <1>1 DEF Die, Books, TypeOK, Untouched
<1>3. credit'[w] \in 0 .. credit[w]
  BY <1>2, CountsAreNumbers
<1>4. Counted(w)' /\ Entrusted(w)' /\ toServer'[w] \in Seq(ToServer)
  BY <1>2, <1>3, LessIsEntrusted
<1>5. TypeOK'
  <2>1. toServer' \in [Worker -> Seq(ToServer)]
    BY <1>1, <1>4 DEF Books, TypeOK
  <2>2. toWorker' \in [Worker -> Seq(ToWorker)] /\ working' \in [Worker -> SUBSET Task]
    BY DEF Die, Books, TypeOK
  <2> QED
    BY <2>1, <2>2, <1>2 DEF Books, TypeOK
<1> QED
  BY <1>2, <1>4, <1>5, UntouchedKeeps DEF Books, HeldOnce

LEMMA ForgetKeeps ==
  ASSUME Books, Threads \in Nat, NEW w \in Worker, Forget(w)
  PROVE  Books'
<1>1. /\ toServer'[w] = <<>> /\ held'[w] = {} /\ credit'[w] = 0
      /\ w \notin alive /\ pool' = pool \cup held[w]
      /\ heard' \subseteq heard
      /\ \A v \in Worker \ {w} : Untouched(v)
      /\ UNCHANGED <<alive, toWorker, working, unrequested>>
  BY DEF Forget, Books, TypeOK, Untouched
<1>2. toWorker'[w] = <<>> /\ working'[w] = {}
  BY <1>1 DEF Books, Entrusted
<1>3. /\ 0 \in 0 .. Len(toServer[w]) /\ toServer'[w] = SubSeq(toServer[w], 1, 0)
      /\ credit'[w] \in 0 .. credit[w]
  BY <1>1, CountsAreNumbers
<1>4. Counted(w)' /\ Entrusted(w)' /\ toServer'[w] \in Seq(ToServer)
  BY <1>1, <1>2, <1>3, LessIsEntrusted
<1>5. TypeOK'
  BY <1>1, <1>4 DEF Forget, Books, TypeOK
<1>6. HeldOnce'
  BY <1>1 DEF Books, HeldOnce, Untouched
<1> QED
  BY <1>1, <1>4, <1>5, <1>6, UntouchedKeeps DEF Books

LEMMA BooksStep == ASSUME Threads \in Nat, Books, [Next]_vars PROVE Books'
<1>1. CASE UNCHANGED vars
  BY <1>1 DEF vars, Books, TypeOK, HeldOnce, Counted, Entrusted
<1>2. ASSUME NEW w \in Worker,
             \/ Connect(w) \/ Accept(w) \/ Ask(w) \/ Hear(w) \/ Take(w) \/ Die(w) \/ Forget(w)
             \/ \E t \in Task : Finish(w, t) \/ HandOut(w, t)
      PROVE  Books'
  BY <1>2, ConnectKeeps, AskKeeps, HearKeeps, HandOutKeeps, TakeKeeps, FinishKeeps, DieKeeps,
     ForgetKeeps
<1> QED
  BY <1>1, <1>2 DEF Next

-----------------------------------------------------------------------------

\* In any dialogue no worker ever has more requests and tasks than threads, and
\* no task is in two places.
THEOREM BooksAreKept == ASSUME Threads \in Nat PROVE Spec => []Books
  BY BooksInit, BooksStep, PTL DEF Spec

=============================================================================
