--------------------------- MODULE ConnectionPool ---------------------------
(***************************************************************************)
(* MySqlConnectionPool and Model::QueryMySql (oj_server/oj_model.hpp): the *)
(* worker threads of oj_server share a queue of connections, guarded by a  *)
(* mutex and a condition variable.  Every page and every Judge queries the *)
(* database through it.  What MySQL does with a query is nondeterministic. *)
(***************************************************************************)
EXTENDS Naturals, SequencesExt

CONSTANTS
  Workers,   \* the threads that query
  Conns,     \* the connections the constructor opened
  Nobody,    \* the owner of a free mutex
  NoConn     \* a worker's connection while it has none

ASSUME WorkersAssumption == IsFiniteSet(Workers) /\ Nobody \notin Workers
ASSUME ConnsAssumption == IsFiniteSet(Conns) /\ NoConn \notin Conns

VARIABLES
  connectionPool,  \* MySqlConnectionPool::connectionPool_, a queue
  mutex,           \* the owner of mutex_
  pc,              \* where a worker is in QueryMySql
  conn,            \* the local `my` of its QueryMySql
  result           \* how its last QueryMySql ended

vars == <<connectionPool, mutex, pc, conn, result>>

\* The constructor has pushed every connection, in some order.
Init ==
  /\ connectionPool \in {s \in [1 .. Cardinality(Conns) -> Conns] : IsInjective(s)}
  /\ mutex = Nobody
  /\ pc = [w \in Workers |-> "idle"]
  /\ conn = [w \in Workers |-> NoConn]
  /\ result = [w \in Workers |-> "none"]

Goto(w, l) == pc' = [pc EXCEPT ![w] = l]
Lock(w) == mutex = Nobody /\ mutex' = w
Unlock == mutex' = Nobody

\* The workers asleep in condVar_.wait.
Sleeping == {w \in Workers : pc[w] = "wait"}

\* A handler calls GetAllProblems or GetOneProblem, and those QueryMySql.
QueryMySql(w) ==
  /\ pc[w] = "idle"
  /\ Goto(w, "get")
  /\ result' = [result EXCEPT ![w] = "none"]
  /\ UNCHANGED <<connectionPool, mutex, conn>>

-----------------------------------------------------------------------------
(* getConnection *)

\* The unique_lock, on entry and again when wait returns.
GetLock(w) ==
  /\ pc[w] \in {"get", "woken"}
  /\ Lock(w)
  /\ Goto(w, "check")
  /\ UNCHANGED <<connectionPool, conn, result>>

\* wait releases the mutex and sleeps in one step.
Wait(w) ==
  /\ pc[w] = "check"
  /\ connectionPool = << >>
  /\ Goto(w, "wait")
  /\ Unlock
  /\ UNCHANGED <<connectionPool, conn, result>>

\* A condition variable may wake a thread that nobody notified.
SpuriousWakeup(w) ==
  /\ pc[w] = "wait"
  /\ Goto(w, "woken")
  /\ UNCHANGED <<connectionPool, mutex, conn, result>>

\* Mutant: `if` for `while`, so that an awakened worker takes what there is.
TakeUnchecked(w) ==
  /\ pc[w] = "check"
  /\ conn' = [conn EXCEPT ![w] = IF connectionPool = << >> THEN Nobody
                                 ELSE Head(connectionPool)]
  /\ connectionPool' = IF connectionPool = << >> THEN << >> ELSE Tail(connectionPool)
  /\ Unlock
  /\ Goto(w, "query")
  /\ UNCHANGED result

\* front, pop, and the end of the unique_lock's scope.
Take(w) ==
  /\ pc[w] = "check"
  /\ connectionPool # << >>
  /\ conn' = [conn EXCEPT ![w] = Head(connectionPool)]
  /\ connectionPool' = Tail(connectionPool)
  /\ Unlock
  /\ Goto(w, "query")
  /\ UNCHANGED result

-----------------------------------------------------------------------------
(* The rest of QueryMySql *)

\* Mutant: the early returns forget returnConnection.
QueryFailsKeeps(w) ==
  /\ pc[w] = "query"
  /\ Goto(w, "idle")
  /\ result' = [result EXCEPT ![w] = "false"]
  /\ conn' = [conn EXCEPT ![w] = NoConn]
  /\ UNCHANGED <<connectionPool, mutex>>

\* mysql_query fails or there is no result: false, after returnConnection.
QueryFails(w) ==
  /\ pc[w] = "query"
  /\ Goto(w, "return")
  /\ result' = [result EXCEPT ![w] = "false"]
  /\ UNCHANGED <<connectionPool, mutex, conn>>

\* The rows are copied: true, after returnConnection.
QuerySucceeds(w) ==
  /\ pc[w] = "query"
  /\ Goto(w, "return")
  /\ result' = [result EXCEPT ![w] = "true"]
  /\ UNCHANGED <<connectionPool, mutex, conn>>

\* Copying a row throws, for want of memory: the exception leaves QueryMySql
\* without returnConnection, httplib catches it and the worker serves on.
QueryThrows(w) ==
  /\ pc[w] = "query"
  /\ Goto(w, "idle")
  /\ result' = [result EXCEPT ![w] = "threw"]
  /\ conn' = [conn EXCEPT ![w] = NoConn]
  /\ UNCHANGED <<connectionPool, mutex>>

-----------------------------------------------------------------------------
(* returnConnection *)

ReturnLock(w) ==
  /\ pc[w] = "return"
  /\ Lock(w)
  /\ Goto(w, "push")
  /\ UNCHANGED <<connectionPool, conn, result>>

\* Mutant: only the push into an empty queue notifies.
PushNotifiesIfEmpty(w) ==
  /\ pc[w] = "push"
  /\ connectionPool' = Append(connectionPool, conn[w])
  /\ conn' = [conn EXCEPT ![w] = NoConn]
  /\ Unlock
  /\ IF Sleeping = {} \/ connectionPool # << >>
     THEN Goto(w, "idle")
     ELSE \E s \in Sleeping : pc' = [pc EXCEPT ![w] = "idle", ![s] = "woken"]
  /\ UNCHANGED result

\* Mutant: the connection is pushed and the worker keeps using it.
PushKeepsConnection(w) ==
  /\ pc[w] = "push"
  /\ connectionPool' = Append(connectionPool, conn[w])
  /\ Unlock
  /\ IF Sleeping = {} THEN Goto(w, "idle")
     ELSE \E s \in Sleeping : pc' = [pc EXCEPT ![w] = "idle", ![s] = "woken"]
  /\ UNCHANGED <<conn, result>>

\* push, notify_one, and the end of the unique_lock's scope.
Push(w) ==
  /\ pc[w] = "push"
  /\ connectionPool' = Append(connectionPool, conn[w])
  /\ conn' = [conn EXCEPT ![w] = NoConn]
  /\ Unlock
  /\ IF Sleeping = {} THEN Goto(w, "idle")
     ELSE \E s \in Sleeping : pc' = [pc EXCEPT ![w] = "idle", ![s] = "woken"]
  /\ UNCHANGED result

-----------------------------------------------------------------------------

getConnection(w) == GetLock(w) \/ Wait(w) \/ Take(w)
returnConnection(w) == ReturnLock(w) \/ Push(w)
Query(w) == QueryFails(w) \/ QuerySucceeds(w) \/ QueryThrows(w)

Next ==
  \E w \in Workers :
    QueryMySql(w) \/ getConnection(w) \/ SpuriousWakeup(w) \/ Query(w)
    \/ returnConnection(w)

Spec == Init /\ [][Next]_vars

\* A worker that can always again lock the mutex does so in the end, and MySQL
\* answers every query.  No spurious wakeup is relied upon.
Fairness ==
  \A w \in Workers : SF_vars(getConnection(w) \/ Query(w) \/ returnConnection(w))

FairSpec == Spec /\ Fairness

-----------------------------------------------------------------------------
(* Properties *)

Holding == {w \in Workers : conn[w] # NoConn}
OnTheWay == {w \in Workers : pc[w] \in {"woken", "check"}}

\* The type invariant of the pool.
TypeOK ==
  /\ connectionPool \in Seq(Conns)
  /\ mutex \in Workers \cup {Nobody}
  /\ pc \in [Workers -> {"idle", "get", "check", "wait", "woken", "query",
                         "return", "push"}]
  /\ conn \in [Workers -> Conns \cup {NoConn}]
  /\ result \in [Workers -> {"none", "true", "false", "threw"}]

\* Two workers never use one connection at a time, and none that is used is in
\* the queue, where another worker would take it.
ExclusiveUse ==
  /\ IsInjective(connectionPool)
  /\ \A w \in Holding : conn[w] \notin ToSet(connectionPool)
  /\ \A v, w \in Holding : conn[v] = conn[w] => v = w

\* The connections that are not lost: queued or in use.
Kept == ToSet(connectionPool) \cup {conn[w] : w \in Holding}

\* Only an exception loses a connection, and only its own: the early returns of
\* QueryMySql, and every race for the queue, keep them all.
OnlyExceptionsLose ==
  [][\/ Kept' = Kept
     \/ \E w \in Workers : QueryThrows(w) /\ Kept' = Kept \ {conn[w]}]_vars

\* No wakeup is lost: while somebody sleeps, there is a worker on its way to
\* the queue for every connection in it, although notify_one wakes only one.
NoLostWakeup ==
  Sleeping # {} =>
    Len(connectionPool) <= Cardinality(OnTheWay)

\* Once no new query comes, every query that waits for a connection ends, unless
\* exceptions have lost them all: nobody is left asleep.
QueryReturns ==
  \A w \in Workers :
    /\ <>[][\A v \in Workers : ~QueryMySql(v)]_vars
    /\ [](Kept # {})
    => (pc[w] = "get" ~> pc[w] = "idle")

\* What the pool is for: see PoolService.
Asking == {w \in Workers : pc[w] \in {"get", "check", "wait", "woken"}}

Service ==
  INSTANCE PoolService
    WITH free <- ToSet(connectionPool), use <- conn, asking <- Asking

\* The queue, the mutex and the condition variable hand connections out and
\* take them back as PoolService says.
ImplementsService == Service!Spec

\* No free connection waits forever while a worker waits for one, however many
\* new queries come meanwhile.
ServesWhileFree == Service!Fairness

=============================================================================
