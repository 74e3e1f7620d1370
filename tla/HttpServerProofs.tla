-------------------------- MODULE HttpServerProofs --------------------------
(***************************************************************************)
(* What HttpServer keeps for any number of workers and connections.        *)
(***************************************************************************)
EXTENDS HttpServer, SequenceLemmas, FiniteSetTheorems

\* A worker has a socket from Fetch to CloseSocket.
SocketWhileServing ==
  \A t \in Threads : sock[t] # NoConn <=> pc[t] \in {"keep_alive", "select", "recv", "handle", "close"}

\* shutdown_ is set by the first step of ThreadPool::shutdown.
ShutdownFlag == shutdown <=> listener \in {"notify", "join", "returned"}

\* A worker ends only when there is nothing left to do, and nothing comes again.
ExitWhenDone == \A t \in Threads : pc[t] = "exited" => shutdown /\ jobs = << >>

\* A request is read only while the count allows one.
CountWhileHandling ==
  \A t \in Threads : pc[t] \in {"select", "recv", "handle"} => count[t] > 0

\* The connections in the backlog go with the listening socket.
BacklogWhileOpen == listener # "accept" => backlog = << >>

\* listen has joined all workers when it returns.
AllJoined == listener = "returned" => \A t \in Threads : pc[t] = "exited"

\* The inductive invariant.
IInv ==
  /\ TypeOK
  /\ SocketWhileServing
  /\ ShutdownFlag
  /\ ExitWhenDone
  /\ CountWhileHandling
  /\ BacklogWhileOpen
  /\ AllJoined
  /\ OnePlace
  /\ NoLostWakeup
  /\ ToldBeforeLast

USE HttpAssumption

-----------------------------------------------------------------------------

\* Where a worker may be.
Places == {"fetch", "wait", "keep_alive", "select", "recv", "handle", "close", "exited"}

\* The steps of one worker that leave its socket and the queue alone; those of
\* reading a request up to its last part only change where it is.
Reads(t) == ReadRequest(t) \/ IsReadable(t) \/ ReadPart(t) \/ ReadFails(t)
Local(t) ==
  \/ NothingToRead(t) \/ LastServed(t) \/ Answer(t) \/ Reads(t)
  \/ \E r \in Requests : ReadLast(t, r)

\* A step of Next, by what it does to the connections.
LEMMA NextCases ==
  ASSUME Next
  PROVE  \/ Accept \/ AcceptFails \/ ShutDown \/ NotifyAll \/ Join
         \/ \E c \in Conns : Connect(c)
         \/ \E t \in Threads :
              \/ Local(t) \/ Fetch(t) \/ Wait(t) \/ SpuriousWakeup(t) \/ Exit(t)
              \/ CloseSocket(t)
BY DEF Next, listen_internal, TakeJob, process_and_close_socket, process_request, Local, Reads

\* The server starts with nothing to do.
LEMMA InitInv == Init => IInv
<1> SUFFICES ASSUME Init PROVE IInv
  OBVIOUS
<1> USE DEF Init
<1>1. TypeOK
  <2>1. \A S : << >> \in Seq(S)
    OBVIOUS
  <2>2. 0 \in 0 .. KeepAliveMax
    OBVIOUS
  <2>3. told \in [Threads -> BOOLEAN] /\ shutdown \in BOOLEAN
    OBVIOUS
  <2>4. backlog \in Seq(Conns) /\ jobs \in Seq(Conns)
    BY <2>1
  <2>5. count \in [Threads -> 0 .. KeepAliveMax]
    BY <2>2
  <2>6. /\ listener \in {"accept", "shutdown", "notify", "join", "returned"}
        /\ pc \in [Threads -> Places]
        /\ sock \in [Threads -> Conns \cup {NoConn}]
        /\ req \in [Threads -> Requests \cup {"none"}]
        /\ closed \in SUBSET Conns
    BY DEF Places
  <2> QED
    BY <2>3, <2>4, <2>5, <2>6 DEF TypeOK, Places
<1>4. SocketWhileServing /\ ShutdownFlag /\ ExitWhenDone
  BY DEF SocketWhileServing, ShutdownFlag, ExitWhenDone
<1>2. CountWhileHandling /\ BacklogWhileOpen /\ AllJoined /\ ToldBeforeLast
  BY DEF CountWhileHandling, BacklogWhileOpen, AllJoined, ToldBeforeLast
<1>3. OnePlace /\ NoLostWakeup
  BY DEF OnePlace, NoLostWakeup, Waiting, Serving, Accepted, Connected, IsInjective, ToSet
<1> QED
  BY <1>1, <1>2, <1>3, <1>4 DEF IInv

\* Every step keeps the types.
LEMMA TypeStep == IInv /\ Next => TypeOK'
<1> SUFFICES ASSUME TypeOK, CountWhileHandling, SocketWhileServing, Next PROVE TypeOK'
  BY DEF IInv
<1> USE DEF TypeOK, Places, Goto, Listen
<1>1. CASE Accept
  <2>1. /\ Head(backlog) \in Conns /\ Tail(backlog) \in Seq(Conns)
        /\ Append(jobs, Head(backlog)) \in Seq(Conns)
    BY <1>1 DEF Accept
  <2>2. pc' \in [Threads -> Places]
    <3>1. pc' = pc \/ \E t \in Threads : pc' = [pc EXCEPT ![t] = "fetch"]
      BY <1>1 DEF Accept, NotifyOne, Waiting
    <3> QED
      BY <3>1
  <2>3. backlog' = Tail(backlog) /\ jobs' = Append(jobs, Head(backlog))
    BY <1>1 DEF Accept
  <2>4. UNCHANGED <<listener, shutdown, sock, count, req, told, closed>>
    BY <1>1 DEF Accept, worker
  <2>5. backlog' \in Seq(Conns) /\ jobs' \in Seq(Conns)
    BY <2>1, <2>3
  <2> QED
    BY <2>2, <2>4, <2>5
<1>2. CASE AcceptFails
  <2>1. ToSet(backlog) \subseteq Conns
    BY DEF ToSet
  <2> QED
    BY <1>2, <2>1 DEF AcceptFails, worker, queue
<1>3. CASE ShutDown \/ NotifyAll \/ Join
  BY <1>3 DEF ShutDown, NotifyAll, Join, worker, queue, Waiting
<1>4. ASSUME NEW c \in Conns, Connect(c) PROVE TypeOK'
  BY <1>4 DEF Connect, worker, queue
<1>5. ASSUME NEW t \in Threads, Local(t) PROVE TypeOK'
  <2>1. CASE NothingToRead(t) \/ LastServed(t)
    BY <2>1 DEF NothingToRead, LastServed, worker, queue
  <2>4. CASE Reads(t)
    BY <2>4 DEF Reads, ReadRequest, IsReadable, ReadPart, ReadFails, worker, queue
  <2>2. CASE Answer(t)
    <3>1. count[t] \in 1 .. KeepAliveMax
      BY <2>2 DEF Answer, CountWhileHandling
    <3>2. count' \in [Threads -> 0 .. KeepAliveMax]
      BY <2>2, <3>1 DEF Answer
    <3>3. told' \in [Threads -> BOOLEAN]
      BY <2>2 DEF Answer
    <3>4. pc' \in [Threads -> Places]
      <4>1. pc' = [pc EXCEPT ![t] = "close"] \/ pc' = [pc EXCEPT ![t] = "keep_alive"]
        BY <2>2 DEF Answer
      <4> QED
        BY <4>1
    <3>5. req' \in [Threads -> Requests \cup {"none"}]
      BY <2>2 DEF Answer
    <3>6. UNCHANGED <<listener, backlog, jobs, shutdown, sock, closed>>
      BY <2>2 DEF Answer, queue
    <3> QED
      BY <3>2, <3>3, <3>4, <3>5, <3>6
  <2>3. ASSUME NEW r \in Requests, ReadLast(t, r) PROVE TypeOK'
    BY <2>3 DEF ReadLast, queue
  <2> QED
    BY <1>5, <2>1, <2>2, <2>3, <2>4 DEF Local
<1>6. ASSUME NEW t \in Threads, Fetch(t) PROVE TypeOK'
  <2>1. Head(jobs) \in Conns /\ Tail(jobs) \in Seq(Conns)
    BY <1>6 DEF Fetch
  <2> QED
    BY <1>6, <2>1 DEF Fetch
<1>7. ASSUME NEW t \in Threads, Wait(t) \/ SpuriousWakeup(t) \/ Exit(t) PROVE TypeOK'
  BY <1>7 DEF Wait, SpuriousWakeup, Exit, worker, queue
<1>8. ASSUME NEW t \in Threads, CloseSocket(t) PROVE TypeOK'
  BY <1>8 DEF CloseSocket, SocketWhileServing, queue
<1> QED
  BY NextCases, <1>1, <1>2, <1>3, <1>4, <1>5, <1>6, <1>7, <1>8

\* Every step keeps what a worker's own state says about it.
LEMMA WorkerStep ==
  IInv /\ Next => SocketWhileServing' /\ CountWhileHandling' /\ ToldBeforeLast'
<1> SUFFICES ASSUME TypeOK, SocketWhileServing, CountWhileHandling, ToldBeforeLast, Next
             PROVE  SocketWhileServing' /\ CountWhileHandling' /\ ToldBeforeLast'
  BY DEF IInv
<1> USE DEF TypeOK, Goto, SocketWhileServing, CountWhileHandling, ToldBeforeLast
<1>1. CASE Accept
  <2>1. UNCHANGED <<sock, count, told>>
    BY <1>1 DEF Accept, worker
  <2>2. \A t \in Threads : pc'[t] = pc[t] \/ (pc[t] = "wait" /\ pc'[t] = "fetch")
    BY <1>1 DEF Accept, NotifyOne, Waiting
  <2> HIDE DEF TypeOK
  <2>3. SocketWhileServing'
    BY <2>1, <2>2
  <2>4. CountWhileHandling'
    BY <2>1, <2>2
  <2>5. ToldBeforeLast'
    BY <2>1, <2>2
  <2> QED
    BY <2>3, <2>4, <2>5
<1>2. CASE AcceptFails \/ ShutDown \/ Join
  BY <1>2 DEF AcceptFails, ShutDown, Join, worker
<1>3. CASE NotifyAll
  BY <1>3 DEF NotifyAll, worker, Waiting
<1>4. ASSUME NEW c \in Conns, Connect(c)
      PROVE  SocketWhileServing' /\ CountWhileHandling' /\ ToldBeforeLast'
  BY <1>4 DEF Connect, worker
<1>5. ASSUME NEW t \in Threads, Local(t)
      PROVE  SocketWhileServing' /\ CountWhileHandling' /\ ToldBeforeLast'
  <2>1. CASE NothingToRead(t) \/ LastServed(t)
    <3>1. UNCHANGED <<sock, count, told>>
      BY <2>1 DEF NothingToRead, LastServed, worker
    <3>2. pc[t] = "keep_alive" /\ pc' = [pc EXCEPT ![t] = "close"]
      BY <2>1 DEF NothingToRead, LastServed
    <3> QED
      BY <3>1, <3>2, SMTT(30)
  <2>4. CASE Reads(t)
    <3>1. /\ UNCHANGED <<sock, count, told>>
          /\ pc[t] \in {"keep_alive", "select", "recv"} /\ count[t] > 0
      BY <2>4 DEF Reads, ReadRequest, IsReadable, ReadPart, ReadFails, worker
    <3>2. \E l \in {"select", "recv", "handle", "close"} : pc' = [pc EXCEPT ![t] = l]
      BY <2>4 DEF Reads, ReadRequest, IsReadable, ReadPart, ReadFails
    <3> QED
      BY <3>1, <3>2
  <2>2. CASE Answer(t)
    <3>1. count[t] \in 1 .. KeepAliveMax
      BY <2>2 DEF Answer
    <3>2. SocketWhileServing' /\ CountWhileHandling'
      <4>1. sock' = sock /\ pc'[t] \in {"keep_alive", "close"}
        BY <2>2 DEF Answer
      <4>2. pc[t] = "handle"
        BY <2>2 DEF Answer
      <4>3. \A u \in Threads : u # t => pc'[u] = pc[u] /\ count'[u] = count[u]
        BY <2>2 DEF Answer
      <4> QED
        BY <4>1, <4>2, <4>3
    <3>3. pc'[t] = "keep_alive" /\ count'[t] = 0 => told'[t]
      <4>1. CASE req[t] = "close"
        BY <4>1, <2>2 DEF Answer
      <4>2. CASE req[t] # "close"
        <5>1. count'[t] = count[t] - 1
          BY <4>2, <2>2 DEF Answer
        <5>2. count'[t] = 0 => count[t] = 1
          BY <5>1, <3>1
        <5>3. count[t] = 1 => told'[t] = TRUE
          BY <2>2 DEF Answer
        <5> QED
          BY <5>2, <5>3
      <4> QED
        BY <4>1, <4>2
    <3>4. \A u \in Threads : u # t => /\ told'[u] = told[u] /\ pc'[u] = pc[u]
                                      /\ count'[u] = count[u]
      BY <2>2 DEF Answer
    <3> QED
      BY <3>2, <3>3, <3>4
  <2>3. ASSUME NEW r \in Requests, ReadLast(t, r)
        PROVE  SocketWhileServing' /\ CountWhileHandling' /\ ToldBeforeLast'
    BY <2>3 DEF ReadLast
  <2> QED
    BY <1>5, <2>1, <2>2, <2>3, <2>4 DEF Local
<1>6. ASSUME NEW t \in Threads, Fetch(t)
      PROVE  SocketWhileServing' /\ CountWhileHandling' /\ ToldBeforeLast'
  <2>1. Head(jobs) \in Conns
    BY <1>6 DEF Fetch
  <2>2. SocketWhileServing' /\ CountWhileHandling'
    BY <1>6, <2>1 DEF Fetch
  <2>3. ToldBeforeLast'
    BY <1>6 DEF Fetch
  <2> QED
    BY <2>2, <2>3
<1>7. ASSUME NEW t \in Threads, Wait(t) \/ SpuriousWakeup(t) \/ Exit(t)
      PROVE  SocketWhileServing' /\ CountWhileHandling' /\ ToldBeforeLast'
  <2>1. UNCHANGED <<sock, count, told>>
    BY <1>7 DEF Wait, SpuriousWakeup, Exit, worker
  <2>2. pc[t] \in {"fetch", "wait"}
    BY <1>7 DEF Wait, SpuriousWakeup, Exit
  <2>3. \E l \in {"fetch", "wait", "exited"} : pc' = [pc EXCEPT ![t] = l]
    BY <1>7 DEF Wait, SpuriousWakeup, Exit
  <2> QED
    BY <2>1, <2>2, <2>3
<1>8. ASSUME NEW t \in Threads, CloseSocket(t)
      PROVE  SocketWhileServing' /\ CountWhileHandling' /\ ToldBeforeLast'
  BY <1>8 DEF CloseSocket
<1> QED
  BY NextCases, <1>1, <1>2, <1>3, <1>4, <1>5, <1>6, <1>7, <1>8

\* Every step keeps the order of the shutdown: the flag, then the workers, then
\* the return.
LEMMA ShutdownStep == IInv /\ Next => ShutdownFlag' /\ ExitWhenDone' /\ AllJoined'
<1> SUFFICES ASSUME TypeOK, SocketWhileServing, ShutdownFlag, ExitWhenDone, AllJoined, Next
             PROVE  ShutdownFlag' /\ ExitWhenDone' /\ AllJoined'
  BY DEF IInv
<1> USE DEF TypeOK, Goto, Listen, ShutdownFlag, ExitWhenDone, AllJoined
<1>1. CASE Accept \/ AcceptFails
  <2>1. ~shutdown /\ listener' \in {"accept", "shutdown"} /\ shutdown' = shutdown
    BY <1>1 DEF Accept, AcceptFails, queue
  <2>2. \A t \in Threads : pc[t] # "exited" /\ pc'[t] # "exited"
    BY <1>1, <2>1 DEF Accept, AcceptFails, NotifyOne, Waiting
  <2> QED
    BY <2>1, <2>2
<1>2. CASE ShutDown \/ NotifyAll \/ Join
  BY <1>2 DEF ShutDown, NotifyAll, Join, Waiting, queue
<1>3. ASSUME NEW c \in Conns, Connect(c) PROVE ShutdownFlag' /\ ExitWhenDone' /\ AllJoined'
  BY <1>3 DEF Connect, queue
<1>4. ASSUME NEW t \in Threads,
             Local(t) \/ Fetch(t) \/ Wait(t) \/ SpuriousWakeup(t) \/ Exit(t) \/ CloseSocket(t)
      PROVE  ShutdownFlag' /\ ExitWhenDone' /\ AllJoined'
  <2>1. listener' = listener /\ shutdown' = shutdown /\ pc[t] # "exited"
    BY <1>4 DEF Local, NothingToRead, LastServed, Answer, Reads, ReadRequest, IsReadable,
                ReadPart, ReadFails, ReadLast, Fetch, Wait, SpuriousWakeup, Exit, CloseSocket, queue
  <2>2. \A u \in Threads : u # t => pc'[u] = pc[u]
    BY <1>4 DEF Local, NothingToRead, LastServed, Answer, Reads, ReadRequest, IsReadable,
                ReadPart, ReadFails, ReadLast, Fetch, Wait, SpuriousWakeup, Exit, CloseSocket
  <2>3. jobs' = jobs \/ jobs # << >>
    BY <1>4 DEF Local, NothingToRead, LastServed, Answer, Reads, ReadRequest, IsReadable,
                ReadPart, ReadFails, ReadLast, Fetch, Wait, SpuriousWakeup, Exit, CloseSocket, queue
  <2>4. pc'[t] = "exited" => shutdown /\ jobs = << >> /\ jobs' = jobs
    BY <1>4 DEF Local, NothingToRead, LastServed, Answer, Reads, ReadRequest, IsReadable,
                ReadPart, ReadFails, ReadLast, Fetch, Wait, SpuriousWakeup, Exit, CloseSocket, queue
  <2> QED
    BY <2>1, <2>2, <2>3, <2>4
<1> QED
  BY NextCases, <1>1, <1>2, <1>3, <1>4

\* Nobody connects once the listening socket is closed.
LEMMA BacklogStep == IInv /\ Next => BacklogWhileOpen'
<1> SUFFICES ASSUME BacklogWhileOpen, Next PROVE BacklogWhileOpen'
  BY DEF IInv
<1> USE DEF BacklogWhileOpen, Listen
<1>1. CASE Accept \/ AcceptFails \/ ShutDown \/ NotifyAll \/ Join
  BY <1>1 DEF Accept, AcceptFails, ShutDown, NotifyAll, Join
<1>2. ASSUME NEW c \in Conns, Connect(c) PROVE BacklogWhileOpen'
  BY <1>2 DEF Connect
<1>3. ASSUME NEW t \in Threads,
             Local(t) \/ Fetch(t) \/ Wait(t) \/ SpuriousWakeup(t) \/ Exit(t) \/ CloseSocket(t)
      PROVE  BacklogWhileOpen'
  BY <1>3 DEF Local, NothingToRead, LastServed, Answer, Reads, ReadRequest, IsReadable,
              ReadPart, ReadFails, ReadLast, Fetch, Wait, SpuriousWakeup, Exit, CloseSocket
<1> QED
  BY NextCases, <1>1, <1>2, <1>3

-----------------------------------------------------------------------------

\* Every step leaves each connection in one place.
LEMMA PlaceStep == IInv /\ Next => OnePlace'
<1> SUFFICES ASSUME TypeOK, SocketWhileServing, OnePlace, Next PROVE OnePlace'
  BY DEF IInv
<1> DEFINE Place(b, j, s, d) ==
             /\ IsInjective(b) /\ IsInjective(j)
             /\ ToSet(b) \cap ToSet(j) = {}
             /\ \A t \in Threads : s[t] # NoConn =>
                  s[t] \notin ToSet(b) /\ s[t] \notin ToSet(j) /\ s[t] \notin d
             /\ \A t, u \in Threads : s[t] # NoConn /\ s[t] = s[u] => t = u
             /\ d \cap ToSet(b) = {} /\ d \cap ToSet(j) = {}
<1>1. Place(backlog, jobs, sock, closed)
  BY DEF OnePlace, Serving, Accepted, Connected
<1>2. SUFFICES Place(backlog', jobs', sock', closed')
  BY DEF OnePlace, Serving, Accepted, Connected
<1>3. /\ sock \in [Threads -> Conns \cup {NoConn}] /\ closed \subseteq Conns
      /\ backlog \in Seq(Conns) /\ jobs \in Seq(Conns)
      /\ NoConn \notin Conns /\ ToSet(<< >>) = {} /\ IsInjective(<< >>)
  BY DEF TypeOK, ToSet, IsInjective
<1>4. ASSUME NEW c \in Conns, Connect(c) PROVE Place(backlog', jobs', sock', closed')
  <2>1. c \notin ToSet(backlog) \cup ToSet(jobs) \cup closed
    BY <1>4 DEF Connect, Connected, Accepted
  <2>2. \A t \in Threads : sock[t] # c
    BY <1>3, <1>4 DEF Connect, Connected, Accepted, Serving
  <2>3. backlog' = Append(backlog, c) /\ jobs' = jobs /\ sock' = sock /\ closed' = closed
    BY <1>4 DEF Connect, queue, worker
  <2>4. IsInjective(backlog') /\ ToSet(backlog') = ToSet(backlog) \cup {c}
    BY <1>1, <1>3, <2>1, <2>3, ExtendInjective
  <2> QED
    BY <1>1, <2>1, <2>2, <2>3, <2>4
<1>5. CASE Accept
  <2> DEFINE c == Head(backlog)
  <2>1. /\ backlog' = Tail(backlog) /\ backlog # << >> /\ jobs' = Append(jobs, c)
        /\ sock' = sock /\ closed' = closed
    BY <1>5 DEF Accept, worker
  <2>2. /\ c \in Conns /\ c \in ToSet(backlog) /\ IsInjective(backlog')
        /\ ToSet(backlog') = ToSet(backlog) \ {c}
    BY <1>1, <1>3, <2>1, TailInjective
  <2>3. c \notin ToSet(jobs)
    BY <1>1, <2>2
  <2> HIDE DEF c
  <2>4. IsInjective(jobs') /\ ToSet(jobs') = ToSet(jobs) \cup {c}
    BY <1>1, <1>3, <2>1, <2>2, <2>3, ExtendInjective
  <2> QED
    BY <1>1, <2>1, <2>2, <2>4
<1>6. CASE AcceptFails
  <2>1. /\ backlog' = << >> /\ jobs' = jobs /\ sock' = sock
        /\ closed' = closed \cup ToSet(backlog)
    BY <1>6 DEF AcceptFails, queue, worker
  <2> QED
    BY <1>1, <1>3, <2>1
<1>7. CASE ShutDown \/ NotifyAll \/ Join
  BY <1>1, <1>7 DEF ShutDown, NotifyAll, Join, queue, worker
<1>8. ASSUME NEW t \in Threads, Local(t) \/ Wait(t) \/ SpuriousWakeup(t) \/ Exit(t)
      PROVE  Place(backlog', jobs', sock', closed')
  <2>1. backlog' = backlog /\ jobs' = jobs /\ sock' = sock /\ closed' = closed
    BY <1>8 DEF Local, NothingToRead, LastServed, Answer, Reads, ReadRequest, IsReadable,
                ReadPart, ReadFails, ReadLast, Wait, SpuriousWakeup, Exit, queue, worker
  <2> QED
    BY <1>1, <2>1
<1>9. ASSUME NEW t \in Threads, Fetch(t) PROVE Place(backlog', jobs', sock', closed')
  <2> DEFINE c == Head(jobs)
  <2>1. /\ backlog' = backlog /\ jobs # << >> /\ jobs' = Tail(jobs)
        /\ sock' = [sock EXCEPT ![t] = c] /\ closed' = closed
    BY <1>9 DEF Fetch
  <2>2. /\ c \in Conns /\ c \in ToSet(jobs) /\ IsInjective(jobs')
        /\ ToSet(jobs') = ToSet(jobs) \ {c}
    BY <1>1, <1>3, <2>1, TailInjective
  <2> HIDE DEF c
  <2>3. \A u \in Threads : sock'[u] = IF u = t THEN c ELSE sock[u]
    BY <1>3, <2>1
  <2>4. \A u \in Threads : sock[u] # c
    BY <1>1, <1>3, <2>2
  <2>5. c \notin ToSet(backlog) /\ c \notin closed
    BY <1>1, <2>2
  <2> QED
    BY <1>1, <2>1, <2>2, <2>3, <2>4, <2>5
<1>10. ASSUME NEW t \in Threads, CloseSocket(t)
       PROVE  Place(backlog', jobs', sock', closed')
  <2>1. /\ backlog' = backlog /\ jobs' = jobs /\ sock' = [sock EXCEPT ![t] = NoConn]
        /\ closed' = closed \cup {sock[t]} /\ sock[t] # NoConn
    BY <1>10 DEF CloseSocket, SocketWhileServing, queue
  <2>2. \A u \in Threads : sock'[u] = IF u = t THEN NoConn ELSE sock[u]
    BY <1>3, <2>1
  <2>3. \A u \in Threads : u # t /\ sock[u] # NoConn => sock[u] # sock[t]
    BY <1>1
  <2> QED
    BY <1>1, <2>1, <2>2, <2>3
<1> QED
  BY NextCases, <1>4, <1>5, <1>6, <1>7, <1>8, <1>9, <1>10

-----------------------------------------------------------------------------

\* The workers on their way to the queue.
Fetching == {t \in Threads : pc[t] = "fetch"}

\* Their number is a number.
LEMMA FetchingFinite ==
  /\ IsFiniteSet(Fetching) /\ IsFiniteSet(Fetching')
  /\ Cardinality(Fetching) \in Nat /\ Cardinality(Fetching') \in Nat
<1>1. Fetching \subseteq Threads /\ Fetching' \subseteq Threads
  BY DEF Fetching
<1> QED
  BY <1>1, FS_Subset, FS_CardinalityType

\* Every step leaves a worker on its way to each job while others wait.
LEMMA WakeupStep == IInv /\ Next => NoLostWakeup'
<1> SUFFICES ASSUME TypeOK, ShutdownFlag, NoLostWakeup, Next PROVE NoLostWakeup'
  BY DEF IInv
<1> DEFINE n == Cardinality(Fetching)
           m == Cardinality(Fetching')
<1>1. n \in Nat /\ m \in Nat /\ Len(jobs) \in Nat
  BY FetchingFinite DEF TypeOK
<1>2. Fetching \subseteq Fetching' => n <= m
  BY FetchingFinite, FS_Subset
<1>3. ASSUME NEW t \in Threads, t \notin Fetching, Fetching' = Fetching \cup {t}
      PROVE  m = n + 1
  BY <1>3, FetchingFinite, FS_AddElement
<1>4. ASSUME NEW t \in Threads, t \in Fetching, Fetching' = Fetching \ {t}
      PROVE  m = n - 1
  BY <1>4, FetchingFinite, FS_RemoveElement
<1>5. Waiting # {} => Len(jobs) <= n /\ listener \notin {"join", "returned"}
  BY DEF NoLostWakeup, Fetching
<1>6. SUFFICES ASSUME Waiting' # {}
               PROVE  Len(jobs') <= m /\ listener' \notin {"join", "returned"}
  BY DEF NoLostWakeup, Fetching
<1> HIDE DEF n, m
<1> USE DEF TypeOK, Goto, Listen
<1>7. CASE Accept
  <2>1. PICK t \in Waiting : pc' = [pc EXCEPT ![t] = "fetch"]
    <3>1. Waiting # {}
      BY <1>6, <1>7 DEF Accept, NotifyOne, Waiting
    <3> QED
      BY <1>7, <3>1 DEF Accept, NotifyOne
  <2>2. Len(jobs') = Len(jobs) + 1 /\ listener' = "accept"
    BY <1>7 DEF Accept
  <2>3. /\ t \in Threads /\ t \notin Fetching /\ Fetching' = Fetching \cup {t}
        /\ Waiting # {}
    BY <2>1 DEF Waiting, Fetching
  <2> QED
    BY <2>2, <2>3, <1>1, <1>3, <1>5
<1>8. CASE AcceptFails \/ ShutDown
  <2>1. /\ Waiting' = Waiting /\ Fetching' = Fetching /\ jobs' = jobs
        /\ listener' \in {"shutdown", "notify"}
    BY <1>8 DEF AcceptFails, ShutDown, queue, Waiting, Fetching
  <2> QED
    BY <2>1, <1>1, <1>2, <1>5, <1>6
<1>9. CASE NotifyAll
  BY <1>6, <1>9 DEF NotifyAll, Waiting
<1>10. CASE Join
  BY <1>6, <1>10 DEF Join, Waiting
<1>11. ASSUME NEW c \in Conns, Connect(c)
       PROVE  Len(jobs') <= m /\ listener' \notin {"join", "returned"}
  <2>1. Waiting' = Waiting /\ Fetching' = Fetching /\ jobs' = jobs /\ listener' = listener
    BY <1>11 DEF Connect, queue, Waiting, Fetching
  <2> QED
    BY <2>1, <1>1, <1>2, <1>5, <1>6
<1>12. ASSUME NEW t \in Threads, Local(t) \/ SpuriousWakeup(t) \/ CloseSocket(t)
       PROVE  Len(jobs') <= m /\ listener' \notin {"join", "returned"}
  <2>1. /\ Waiting' \subseteq Waiting /\ Fetching \subseteq Fetching'
        /\ jobs' = jobs /\ listener' = listener
    BY <1>12 DEF Local, NothingToRead, LastServed, Answer, Reads, ReadRequest, IsReadable,
                 ReadPart, ReadFails, ReadLast, SpuriousWakeup, CloseSocket, queue, Waiting, Fetching
  <2> QED
    BY <2>1, <1>1, <1>2, <1>5, <1>6
<1>13. ASSUME NEW t \in Threads, Wait(t)
       PROVE  Len(jobs') <= m /\ listener' \notin {"join", "returned"}
  <2>1. jobs' = << >> /\ listener' = listener /\ ~shutdown
    BY <1>13 DEF Wait, queue
  <2> QED
    BY <2>1, <1>1 DEF ShutdownFlag
<1>14. ASSUME NEW t \in Threads, Exit(t)
       PROVE  Len(jobs') <= m /\ listener' \notin {"join", "returned"}
  <2>1. Waiting' = Waiting /\ jobs' = << >> /\ listener' = listener
    BY <1>14 DEF Exit, queue, Waiting
  <2> QED
    BY <2>1, <1>1, <1>5, <1>6
<1>15. ASSUME NEW t \in Threads, Fetch(t)
       PROVE  Len(jobs') <= m /\ listener' \notin {"join", "returned"}
  <2>1. Len(jobs') = Len(jobs) - 1 /\ listener' = listener
    BY <1>15 DEF Fetch
  <2>2. Waiting' = Waiting /\ t \in Fetching /\ Fetching' = Fetching \ {t}
    BY <1>15 DEF Fetch, Waiting, Fetching
  <2> QED
    BY <2>1, <2>2, <1>1, <1>4, <1>5, <1>6
<1> QED
  BY NextCases, <1>7, <1>8, <1>9, <1>10, <1>11, <1>12, <1>13, <1>14, <1>15

-----------------------------------------------------------------------------

\* IInv is inductive.
THEOREM HttpInvariance == Spec => []IInv
<1>1. IInv /\ [Next]_vars => IInv'
  <2>1. CASE Next
    BY <2>1, TypeStep, WorkerStep, ShutdownStep, BacklogStep, PlaceStep, WakeupStep DEF IInv
  <2>2. CASE UNCHANGED vars
    BY <2>2 DEF vars, queue, worker, IInv, TypeOK, SocketWhileServing, ShutdownFlag,
                ExitWhenDone, CountWhileHandling, BacklogWhileOpen, AllJoined, OnePlace,
                NoLostWakeup, ToldBeforeLast, Waiting, Serving, Accepted, Connected
  <2> QED
    BY <2>1, <2>2
<1> QED
  BY InitInv, <1>1, PTL DEF Spec

\* The listener, the queue and the workers' locals keep their types: the count of
\* requests never falls below zero.
THEOREM HttpTypeCorrect == Spec => []TypeOK
<1>1. IInv => TypeOK
  BY DEF IInv
<1> QED
  BY <1>1, HttpInvariance, PTL

\* No connection is served twice, by two workers or after it was closed.
THEOREM HttpOnePlace == Spec => []OnePlace
<1>1. IInv => OnePlace
  BY DEF IInv
<1> QED
  BY <1>1, HttpInvariance, PTL

\* No worker sleeps on a job or through the shutdown.
THEOREM HttpWakeups == Spec => []NoLostWakeup
<1>1. IInv => NoLostWakeup
  BY DEF IInv
<1> QED
  BY <1>1, HttpInvariance, PTL

\* The return of listen leaves no connection it accepted unserved.
THEOREM HttpNothingLeft == Spec => []NothingLeftWhenReturned
<1>1. IInv => NothingLeftWhenReturned
  <2> SUFFICES ASSUME IInv, listener = "returned"
               PROVE  Accepted = {} /\ \A t \in Threads : pc[t] = "exited"
    BY DEF NothingLeftWhenReturned
  <2>1. \A t \in Threads : pc[t] = "exited"
    BY DEF IInv, AllJoined
  <2>2. jobs = << >>
    BY <2>1 DEF IInv, ExitWhenDone
  <2>3. Serving = {}
    BY <2>1 DEF IInv, SocketWhileServing, Serving
  <2>4. ToSet(jobs) = {}
    BY <2>2 DEF ToSet
  <2> QED
    BY <2>1, <2>3, <2>4 DEF Accepted
<1> QED
  BY <1>1, HttpInvariance, PTL

\* No client that wants to go on is cut off without having been told.
THEOREM HttpTold == Spec => []ToldBeforeLast
<1>1. IInv => ToldBeforeLast
  BY DEF IInv
<1> QED
  BY <1>1, HttpInvariance, PTL

-----------------------------------------------------------------------------
(* The refinement of HttpService *)

\* At first the line is empty and the server open.
LEMMA RefinesInit == Init => Service!Init
<1> SUFFICES ASSUME Init PROVE Service!Init
  OBVIOUS
<1>1. << >> \o << >> = << >>
  OBVIOUS
<1> QED
  BY <1>1 DEF Init, Service!Init

\* A step that moves nobody and closes nothing is none of the service's.
LEMMA Stutters ==
  ASSUME UNCHANGED <<jobs \o backlog, sock, closed>>,
         \/ listener' = listener
         \/ listener \notin {"accept", "returned"} /\ listener' \notin {"accept", "returned"}
  PROVE  UNCHANGED Service!vars
BY DEF Service!vars

\* A step of the server is one of the service, or none.
LEMMA RefinesStep ==
  IInv /\ IInv' /\ [Next]_vars => Service!Next \/ UNCHANGED Service!vars
<1> SUFFICES ASSUME IInv, IInv', [Next]_vars
             PROVE  Service!Next \/ UNCHANGED Service!vars
  OBVIOUS
<1>1. /\ backlog \in Seq(Conns) /\ jobs \in Seq(Conns)
      /\ sock \in [Threads -> Conns \cup {NoConn}]
  BY DEF IInv, TypeOK
<1>2. /\ backlog # << >> => Append(jobs, Head(backlog)) \o Tail(backlog) = jobs \o backlog
      /\ jobs # << >> => /\ Head(jobs \o backlog) = Head(jobs)
                         /\ Tail(jobs \o backlog) = Tail(jobs) \o backlog
      /\ \A c \in Conns : jobs \o Append(backlog, c) = Append(jobs \o backlog, c)
  <2>1. ASSUME backlog # << >>
        PROVE  Append(jobs, Head(backlog)) \o Tail(backlog) = jobs \o backlog
    BY <1>1, <2>1, QueueConcat
  <2>2. ASSUME jobs # << >>
        PROVE  Head(jobs \o backlog) = Head(jobs) /\ Tail(jobs \o backlog) = Tail(jobs) \o backlog
    BY <1>1, <2>2, QueueConcat
  <2>3. \A c \in Conns : jobs \o Append(backlog, c) = Append(jobs \o backlog, c)
    BY <1>1, QueueConcat
  <2> QED
    BY <2>1, <2>2, <2>3
<1>13. /\ SubSeq(jobs \o backlog, 1, Len(jobs)) = jobs
       /\ {(jobs \o backlog)[i] : i \in Len(jobs) + 1 .. Len(jobs \o backlog)}
            = ToSet(backlog)
       /\ ToSet(jobs \o backlog) = ToSet(jobs) \cup ToSet(backlog)
  BY <1>1, QueueParts
<1>3. jobs \o << >> = jobs /\ Len(jobs \o backlog) = Len(jobs) + Len(backlog)
  BY <1>1, ConcatEmptySeq, ConcatProperties
<1>4. ASSUME NEW c \in Conns, Connect(c) PROVE Service!Come(c)
  <2>1. /\ listener = "accept" /\ listener' = listener /\ jobs' = jobs
        /\ backlog' = Append(backlog, c) /\ sock' = sock /\ closed' = closed
        /\ c \notin closed /\ c \notin ToSet(backlog) /\ c \notin Accepted
    BY <1>4 DEF Connect, Connected, queue, worker
  <2>2. c \notin ToSet(jobs \o backlog)
    BY <1>13, <2>1 DEF Accepted
  <2>3. \A i \in DOMAIN (jobs \o backlog) : (jobs \o backlog)[i] # c
    BY <2>2 DEF ToSet
  <2>4. \A t \in Threads : sock[t] # c
    BY <2>1 DEF Accepted, Serving
  <2>5. jobs' \o backlog' = Append(jobs \o backlog, c)
    BY <1>2, <2>1
  <2> QED
    BY <2>1, <2>3, <2>4, <2>5 DEF Service!Come
<1>5. CASE Accept
  <2>1. /\ listener' = listener /\ backlog # << >>
        /\ backlog' = Tail(backlog) /\ jobs' = Append(jobs, Head(backlog))
        /\ sock' = sock /\ closed' = closed
    BY <1>5 DEF Accept, Listen, worker
  <2> QED
    BY <1>2, <2>1, Stutters
<1>6. CASE AcceptFails
  <2>1. /\ listener = "accept" /\ listener' = "shutdown" /\ jobs' = jobs
        /\ backlog' = << >> /\ sock' = sock /\ closed' = closed \cup ToSet(backlog)
    BY <1>6 DEF AcceptFails, Listen, queue, worker
  <2>2. Len(jobs) \in 0 .. Len(jobs \o backlog)
    BY <1>1, <1>3
  <2>3. Service!Close(Len(jobs))
    BY <1>3, <1>13, <2>1 DEF Service!Close
  <2> QED
    BY <2>2, <2>3 DEF Service!Next
<1>7. CASE ShutDown \/ NotifyAll
  <2>1. /\ listener \in {"shutdown", "notify"} /\ listener' \in {"notify", "join"}
        /\ UNCHANGED <<jobs, backlog, sock, closed>>
    BY <1>7 DEF ShutDown, NotifyAll, Listen, queue, worker
  <2> QED
    BY <2>1, Stutters
<1>8. CASE Join
  <2>1. /\ listener = "join" /\ listener' = "returned"
        /\ UNCHANGED <<jobs, backlog, sock, closed>>
        /\ \A t \in Threads : pc[t] = "exited"
    BY <1>8 DEF Join, Listen, queue, worker
  <2>2. jobs = << >> /\ \A t \in Threads : sock[t] = NoConn
    BY <2>1 DEF IInv, ExitWhenDone, SocketWhileServing
  <2>3. backlog = << >>
    BY <2>1 DEF IInv, BacklogWhileOpen
  <2>4. jobs \o backlog = << >>
    BY <1>3, <2>2, <2>3
  <2>5. Service!Over
    BY <2>1, <2>2, <2>4 DEF Service!Over
  <2> QED
    BY <2>5 DEF Service!Next
<1>9. ASSUME NEW t \in Threads, Fetch(t) PROVE Service!Begin(t)
  <2>1. /\ pc[t] = "fetch" /\ jobs # << >> /\ jobs' = Tail(jobs)
        /\ sock' = [sock EXCEPT ![t] = Head(jobs)]
        /\ UNCHANGED <<listener, backlog, closed>>
    BY <1>9 DEF Fetch
  <2>2. sock[t] = NoConn
    BY <2>1 DEF IInv, SocketWhileServing
  <2>3. jobs \o backlog # << >>
    BY <1>1, <2>1, ConcatEqualIffEmpty
  <2> QED
    BY <1>2, <2>1, <2>2, <2>3 DEF Service!Begin
<1>10. ASSUME NEW t \in Threads, CloseSocket(t) PROVE Service!End(t)
  <2>1. sock[t] # NoConn
    BY <1>10 DEF CloseSocket, IInv, SocketWhileServing
  <2> QED
    BY <1>10, <2>1 DEF CloseSocket, queue, Service!End
<1>11. ASSUME NEW t \in Threads, Local(t) \/ Wait(t) \/ SpuriousWakeup(t) \/ Exit(t)
       PROVE  UNCHANGED Service!vars
  <2>1. UNCHANGED <<listener, jobs, backlog, sock, closed>>
    BY <1>11 DEF Local, NothingToRead, LastServed, Answer, Reads, ReadRequest, IsReadable,
                 ReadPart, ReadFails, ReadLast, Wait, SpuriousWakeup, Exit, queue, worker
  <2> QED
    BY <2>1, Stutters
<1>12. CASE UNCHANGED vars
  BY <1>12, Stutters DEF vars, queue, worker
<1> QED
  BY NextCases, <1>4, <1>5, <1>6, <1>7, <1>8, <1>9, <1>10, <1>11, <1>12 DEF Service!Next

\* The server implements HttpService, however many workers and connections: the
\* queues keep the order of coming, and the shutdown leaves out nobody it accepted.
THEOREM HttpImplements == Spec => ImplementsService
BY RefinesInit, RefinesStep, HttpInvariance, PTL DEF Spec, ImplementsService, Service!Spec

=============================================================================
