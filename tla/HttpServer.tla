------------------------------ MODULE HttpServer ------------------------------
(***************************************************************************)
(* The HTTP server both programs run in (comm/httplib.h): the thread of    *)
(* Server::listen accepts connections and queues them, the workers of its  *)
(* ThreadPool serve one connection at a time, up to keep_alive_max_count   *)
(* requests of it.  What it reads of a request comes in as many parts as   *)
(* the client likes.  A handler is code of the program: an action that     *)
(* takes its time, or never ends.                                          *)
(*                                                                         *)
(* A critical section of ThreadPool::mutex_ is one step, as nothing it     *)
(* reads or writes is touched without the mutex.                           *)
(***************************************************************************)
EXTENDS Naturals, SequencesExt

CONSTANTS
  Threads,       \* the workers of the ThreadPool
  Conns,         \* the connections that clients may open
  NoConn,        \* the connection of a worker that has none
  KeepAliveMax,  \* keep_alive_max_count_
  MaxOpen,       \* how many descriptors are left for connections
  Requests,      \* the kinds of requests that come
  AcceptMayFail  \* whether accept may fail for another reason than EMFILE

ASSUME HttpAssumption ==
  /\ IsFiniteSet(Threads) /\ Threads # {}
  /\ IsFiniteSet(Conns) /\ NoConn \notin Conns
  /\ KeepAliveMax \in Nat \ {0}
  /\ MaxOpen \in Nat \ {0}
  \* keep:  answered, and the client means to send more
  \* close: with the header Connection: close, or HTTP/1.0
  \* hang:  its handler does not return, nor does send, of an answer that is more
  \*        than the socket takes and that the client does not read
  /\ Requests \subseteq {"keep", "close", "hang"}
  /\ AcceptMayFail \in BOOLEAN

VARIABLES
  listener,  \* where listen_internal is
  backlog,   \* the connections the kernel has for accept
  jobs,      \* ThreadPool::jobs_, a connection for each process_and_close_socket
  shutdown,  \* ThreadPool::shutdown_
  pc,        \* where a worker is
  sock,      \* the socket of its process_and_close_socket
  count,     \* the local count of its process_server_socket_core
  req,       \* the request whose handler it runs
  told,      \* whether the client of its socket knows from the last answer that it ends
  closed     \* the connections the server has closed, or refused

queue   == <<jobs, shutdown>>
worker  == <<sock, count, req, told>>
vars == <<listener, backlog, queue, pc, worker, closed>>

Init ==
  /\ listener = "accept"
  /\ backlog = << >> /\ jobs = << >>
  /\ shutdown = FALSE
  /\ pc = [t \in Threads |-> "fetch"]
  /\ sock = [t \in Threads |-> NoConn]
  /\ count = [t \in Threads |-> 0]
  /\ req = [t \in Threads |-> "none"]
  /\ told = [t \in Threads |-> FALSE]
  /\ closed = {}

Goto(t, l) == pc' = [pc EXCEPT ![t] = l]
Listen(from, to) == listener = from /\ listener' = to

Serving == {t \in Threads : sock[t] # NoConn}
Waiting == {t \in Threads : pc[t] = "wait"}
Accepted == ToSet(jobs) \cup {sock[t] : t \in Serving}
Connected == ToSet(backlog) \cup Accepted

-----------------------------------------------------------------------------
(* A client connects *)

Connect(c) ==
  /\ listener = "accept"
  /\ c \notin Connected \cup closed
  /\ backlog' = Append(backlog, c)
  /\ UNCHANGED <<listener, queue, pc, worker, closed>>

-----------------------------------------------------------------------------
(* Server::listen_internal *)

\* notify_one: one of the workers in cond_.wait, if there is any.
NotifyOne ==
  IF Waiting = {} THEN UNCHANGED pc ELSE \E t \in Waiting : Goto(t, "fetch")

\* Mutant: nobody is notified.
AcceptSilently ==
  /\ Listen("accept", "accept")
  /\ backlog # << >>
  /\ Cardinality(Accepted) < MaxOpen
  /\ backlog' = Tail(backlog)
  /\ jobs' = Append(jobs, Head(backlog))
  /\ UNCHANGED <<shutdown, pc, worker, closed>>

\* accept and ThreadPool::enqueue.  With no descriptor left accept fails with
\* EMFILE, and the loop tries again until there is one.
Accept ==
  /\ Listen("accept", "accept")
  /\ backlog # << >>
  /\ Cardinality(Accepted) < MaxOpen
  /\ backlog' = Tail(backlog)
  /\ jobs' = Append(jobs, Head(backlog))
  /\ NotifyOne
  /\ UNCHANGED <<shutdown, worker, closed>>

\* Any other error of accept: the listening socket is closed, and with it the
\* connections in its backlog, and the loop ends.
AcceptFails ==
  /\ AcceptMayFail
  /\ Listen("accept", "shutdown")
  /\ backlog' = << >>
  /\ closed' = closed \cup ToSet(backlog)
  /\ UNCHANGED <<queue, pc, worker>>

\* ThreadPool::shutdown, up to the end of the unique_lock's scope.
ShutDown ==
  /\ Listen("shutdown", "notify")
  /\ shutdown' = TRUE
  /\ UNCHANGED <<backlog, jobs, pc, worker, closed>>

\* Mutant: notify_one for notify_all.
NotifyAllOne ==
  /\ Listen("notify", "join")
  /\ NotifyOne
  /\ UNCHANGED <<backlog, queue, worker, closed>>

NotifyAll ==
  /\ Listen("notify", "join")
  /\ pc' = [t \in Threads |-> IF t \in Waiting THEN "fetch" ELSE pc[t]]
  /\ UNCHANGED <<backlog, queue, worker, closed>>

\* All workers are joined; listen returns, and so does main.
Join ==
  /\ Listen("join", "returned")
  /\ \A t \in Threads : pc[t] = "exited"
  /\ UNCHANGED <<backlog, queue, pc, worker, closed>>

-----------------------------------------------------------------------------
(* ThreadPool::worker: the section under mutex_ *)

\* Mutant: the job is copied and stays in the list.
FetchKeepsJob(t) ==
  /\ pc[t] = "fetch"
  /\ jobs # << >>
  /\ sock' = [sock EXCEPT ![t] = Head(jobs)]
  /\ count' = [count EXCEPT ![t] = KeepAliveMax]
  /\ told' = [told EXCEPT ![t] = FALSE]
  /\ Goto(t, "keep_alive")
  /\ UNCHANGED <<listener, backlog, queue, req, closed>>

\* Mutant: the last job first.
FetchLast(t) ==
  /\ pc[t] = "fetch"
  /\ jobs # << >>
  /\ jobs' = Front(jobs)
  /\ sock' = [sock EXCEPT ![t] = Last(jobs)]
  /\ count' = [count EXCEPT ![t] = KeepAliveMax]
  /\ told' = [told EXCEPT ![t] = FALSE]
  /\ Goto(t, "keep_alive")
  /\ UNCHANGED <<listener, backlog, shutdown, req, closed>>

\* A job is taken; process_and_close_socket begins.
Fetch(t) ==
  /\ pc[t] = "fetch"
  /\ jobs # << >>
  /\ jobs' = Tail(jobs)
  /\ sock' = [sock EXCEPT ![t] = Head(jobs)]
  /\ count' = [count EXCEPT ![t] = KeepAliveMax]
  /\ told' = [told EXCEPT ![t] = FALSE]
  /\ Goto(t, "keep_alive")
  /\ UNCHANGED <<listener, backlog, shutdown, req, closed>>

\* The predicate of cond_.wait is false.
Wait(t) ==
  /\ pc[t] = "fetch"
  /\ jobs = << >> /\ ~shutdown
  /\ Goto(t, "wait")
  /\ UNCHANGED <<listener, backlog, queue, worker, closed>>

SpuriousWakeup(t) ==
  /\ pc[t] = "wait"
  /\ Goto(t, "fetch")
  /\ UNCHANGED <<listener, backlog, queue, worker, closed>>

\* Mutant: the worker ends although there are jobs.
ExitAtOnce(t) ==
  /\ pc[t] = "fetch"
  /\ shutdown
  /\ Goto(t, "exited")
  /\ UNCHANGED <<listener, backlog, queue, worker, closed>>

Exit(t) ==
  /\ pc[t] = "fetch"
  /\ jobs = << >> /\ shutdown
  /\ Goto(t, "exited")
  /\ UNCHANGED <<listener, backlog, queue, worker, closed>>

-----------------------------------------------------------------------------
(* process_server_socket_core, process_request, process_and_close_socket *)

\* Mutant: the number of requests is not limited.
ReadAlways(t) ==
  /\ pc[t] = "keep_alive"
  /\ Goto(t, "select")
  /\ UNCHANGED <<listener, backlog, queue, worker, closed>>

\* keep_alive: something can be read; process_request begins.
ReadRequest(t) ==
  /\ pc[t] = "keep_alive" /\ count[t] > 0
  /\ Goto(t, "select")
  /\ UNCHANGED <<listener, backlog, queue, worker, closed>>

\* Mutant: keep_alive waits for a client that sends nothing.
NoIdleTimeout(t) == FALSE /\ UNCHANGED vars

\* Nothing comes for keep_alive_timeout_sec.
NothingToRead(t) ==
  /\ pc[t] = "keep_alive" /\ count[t] > 0
  /\ Goto(t, "close")
  /\ UNCHANGED <<listener, backlog, queue, worker, closed>>

\* count is used up.
LastServed(t) ==
  /\ pc[t] = "keep_alive" /\ count[t] = 0
  /\ Goto(t, "close")
  /\ UNCHANGED <<listener, backlog, queue, worker, closed>>

\* SocketStream::read, called by getline for each byte of the request line and of
\* the headers, and for each part of the body: select says that there is something.
IsReadable(t) ==
  /\ pc[t] = "select"
  /\ Goto(t, "recv")
  /\ UNCHANGED <<listener, backlog, queue, worker, closed>>

\* recv has the next part of the request, and it is not the last.
ReadPart(t) ==
  /\ pc[t] = "recv"
  /\ Goto(t, "select")
  /\ UNCHANGED <<listener, backlog, queue, worker, closed>>

\* It is the last: a request of kind r, which is routed to its handler.
ReadLast(t, r) ==
  /\ pc[t] = "recv"
  /\ req' = [req EXCEPT ![t] = r]
  /\ Goto(t, "handle")
  /\ UNCHANGED <<listener, backlog, queue, sock, count, told, closed>>

\* The next part does not come within the read timeout, or the client has closed
\* the connection or broken it.  In the request line this is the end of the
\* connection, after it the answer is a 400.
ReadFails(t) ==
  /\ pc[t] \in {"select", "recv"}
  /\ Goto(t, "close") \/ Goto(t, "handle")
  /\ UNCHANGED <<listener, backlog, queue, worker, closed>>

\* Mutant: close_connection is computed from the decremented count.
AnswerToldLate(t) ==
  /\ pc[t] = "handle" /\ req[t] # "hang"
  /\ told' = [told EXCEPT ![t] = req[t] = "close" \/ count[t] = 0]
  /\ IF req[t] = "close" THEN Goto(t, "close") /\ UNCHANGED count
     ELSE Goto(t, "keep_alive") /\ count' = [count EXCEPT ![t] = @ - 1]
  /\ req' = [req EXCEPT ![t] = "none"]
  /\ UNCHANGED <<listener, backlog, queue, sock, closed>>

\* The response is written, also one of an exception in the handler (500), of
\* no handler (404) and of a request that cannot be read (400); or it cannot be
\* written, which nobody looks at.  The last one that keep-alive allows says
\* Connection: close.
Answer(t) ==
  /\ pc[t] = "handle" /\ req[t] # "hang"
  /\ told' = [told EXCEPT ![t] = req[t] = "close" \/ count[t] = 1]
  /\ IF req[t] = "close" THEN Goto(t, "close") /\ UNCHANGED count
     ELSE Goto(t, "keep_alive") /\ count' = [count EXCEPT ![t] = @ - 1]
  /\ req' = [req EXCEPT ![t] = "none"]
  /\ UNCHANGED <<listener, backlog, queue, sock, closed>>

\* shutdown_socket and close_socket; the job is done.
CloseSocket(t) ==
  /\ pc[t] = "close"
  /\ closed' = closed \cup {sock[t]}
  /\ sock' = [sock EXCEPT ![t] = NoConn]
  /\ count' = [count EXCEPT ![t] = 0]
  /\ told' = [told EXCEPT ![t] = FALSE]
  /\ Goto(t, "fetch")
  /\ UNCHANGED <<listener, backlog, queue, req>>

-----------------------------------------------------------------------------

listen_internal == Accept \/ AcceptFails \/ ShutDown \/ NotifyAll \/ Join
TakeJob(t) == Fetch(t) \/ Wait(t) \/ Exit(t)
process_request(t) == IsReadable(t) \/ ReadPart(t) \/ ReadFails(t) \/ Answer(t)
process_and_close_socket(t) ==
  NothingToRead(t) \/ LastServed(t) \/ process_request(t) \/ CloseSocket(t)

Next ==
  \/ listen_internal
  \/ \E c \in Conns : Connect(c)
  \/ \E t \in Threads :
       \/ TakeJob(t) \/ SpuriousWakeup(t) \/ process_and_close_socket(t)
       \/ ReadRequest(t)
       \/ \E r \in Requests : ReadLast(t, r)

Spec == Init /\ [][Next]_vars

\* Threads run, idle connections time out, and so does each read.  Clients need not
\* send anything, nor ever come to the end of a request; accept need not fail, and a
\* handler that hangs does not return.
Fairness ==
  /\ WF_vars(Accept) /\ WF_vars(ShutDown \/ NotifyAll \/ Join)
  /\ \A t \in Threads : WF_vars(TakeJob(t) \/ process_and_close_socket(t))

FairSpec == Spec /\ Fairness

-----------------------------------------------------------------------------
(* Properties *)

\* The type invariant of the server; what a worker serves fits where it is.
TypeOK ==
  /\ listener \in {"accept", "shutdown", "notify", "join", "returned"}
  /\ backlog \in Seq(Conns) /\ jobs \in Seq(Conns)
  /\ shutdown \in BOOLEAN
  /\ pc \in [Threads -> {"fetch", "wait", "keep_alive", "select", "recv", "handle",
                         "close", "exited"}]
  /\ sock \in [Threads -> Conns \cup {NoConn}]
  /\ count \in [Threads -> 0 .. KeepAliveMax]
  /\ req \in [Threads -> Requests \cup {"none"}]
  /\ told \in [Threads -> BOOLEAN]
  /\ closed \in SUBSET Conns

\* A connection is in one place: it waits for accept, waits in jobs_, is served
\* by one worker, or is closed, for good, and never by two of them.
OnePlace ==
  /\ IsInjective(backlog) /\ IsInjective(jobs)
  /\ ToSet(backlog) \cap Accepted = {}
  /\ \A t \in Serving : sock[t] \notin ToSet(jobs)
  /\ \A t, u \in Serving : sock[t] = sock[u] => t = u
  /\ closed \cap Connected = {}

\* No wakeup is lost: while a worker waits, there is one on its way to jobs_ for
\* each job, and once everybody was notified of the shutdown nobody waits.
NoLostWakeup ==
  Waiting # {} =>
    /\ Len(jobs) <= Cardinality({t \in Threads : pc[t] = "fetch"})
    /\ listener \notin {"join", "returned"}

\* When listen returns, every connection it accepted was served and closed: the
\* shutdown of the pool leaves no job behind, and no worker in the middle of one.
NothingLeftWhenReturned ==
  listener = "returned" => Accepted = {} /\ \A t \in Threads : pc[t] = "exited"

\* A client that means to go on is not cut off: when the requests of its
\* connection are used up, its last answer said that it will be closed.
ToldBeforeLast ==
  \A t \in Threads : pc[t] = "keep_alive" /\ count[t] = 0 => told[t]

\* Those who wait for accept stand behind those who wait for a worker.
Service ==
  INSTANCE HttpService
    WITH line <- jobs \o backlog, serving <- sock, gone <- closed,
         state <- IF listener = "accept" THEN "open"
                  ELSE IF listener = "returned" THEN "over" ELSE "closing"

\* With its two queues, its workers and the three steps of its shutdown the server
\* serves as HttpService says: in the order of coming, everybody once, nobody
\* refused who was accepted, and all of them served before listen returns.
ImplementsService == Service!Spec

\* A worker is lost to the others: its handler hangs, or its client sends its request
\* bit by bit, each one within the read timeout, and never comes to the end.
Hangs(t) == <>[](req[t] = "hang")
Trickles(t) == <>[](pc[t] \in {"select", "recv"}) /\ []<>(pc[t] = "recv")
Held(t) == Hangs(t) \/ Trickles(t)

\* A worker that is not held gets rid of its connection, whatever its client does:
\* send request after request, send nothing, or stop in the middle of a request.
WorkersComeBack == \A t \in Threads : Held(t) \/ []<>(sock[t] = NoConn)

\* As long as one worker is left that is not held, every connection is accepted and
\* gets a worker, whatever the clients of the others do.  (Unless accept fails, which
\* ends the server.)
Served ==
  (\E t \in Threads : ~Held(t)) =>
    \A c \in Conns :
      c \in ToSet(backlog)
        ~> c \in closed \/ (\E t \in Threads : sock[t] = c) \/ listener # "accept"

\* A failed accept ends the process, once the jobs are done; all workers are
\* woken and exit, unless one is held.
ShutdownEnds ==
  (\A t \in Threads : ~Held(t)) => (listener = "shutdown" ~> listener = "returned")

=============================================================================
