------------------------ MODULE ConnectionPoolProofs ------------------------
(***************************************************************************)
(* What ConnectionPool keeps for any number of workers and connections.    *)
(***************************************************************************)
EXTENDS ConnectionPool, SequenceLemmas, FiniteSetTheorems

\* mutex_ is held exactly around the accesses to the queue.
MutexOwner == \A w \in Workers : mutex = w <=> pc[w] \in {"check", "push"}

\* `my` is a connection from Take to Push.
HoldsWhileQuerying ==
  \A w \in Workers : conn[w] # NoConn <=> pc[w] \in {"query", "return", "push"}

\* The inductive invariant.
IInv ==
  /\ TypeOK
  /\ MutexOwner
  /\ HoldsWhileQuerying
  /\ ExclusiveUse
  /\ NoLostWakeup

USE WorkersAssumption, ConnsAssumption

-----------------------------------------------------------------------------

\* Every action but GetLock, Wait, SpuriousWakeup, Take and Push.
Local(w) == QueryMySql(w) \/ QueryFails(w) \/ QuerySucceeds(w) \/ ReturnLock(w)

\* A step of Next is a step of one worker.
LEMMA NextCases ==
  ASSUME Next
  PROVE  \E w \in Workers :
           \/ Local(w) \/ GetLock(w) \/ Wait(w) \/ SpuriousWakeup(w)
           \/ Take(w) \/ QueryThrows(w) \/ Push(w)
BY DEF Next, Local, getConnection, returnConnection, Query

\* The invariant holds once the pool is filled.
LEMMA InitInv == Init => IInv
<1> SUFFICES ASSUME Init PROVE IInv
  OBVIOUS
<1> DEFINE n == Cardinality(Conns)
<1>1. n \in Nat
  BY FS_CardinalityType
<1>2. /\ connectionPool \in [1 .. n -> Conns] /\ IsInjective(connectionPool)
      /\ mutex = Nobody
      /\ pc = [w \in Workers |-> "idle"]
      /\ conn = [w \in Workers |-> NoConn]
      /\ result = [w \in Workers |-> "none"]
  BY DEF Init
<1> HIDE DEF n
<1>3. TypeOK /\ Len(connectionPool) = n
  BY <1>1, <1>2 DEF TypeOK
<1>4. MutexOwner /\ HoldsWhileQuerying /\ ExclusiveUse /\ NoLostWakeup
  BY <1>2 DEF MutexOwner, HoldsWhileQuerying, ExclusiveUse, Holding, NoLostWakeup, Sleeping
<1> QED
  BY <1>3, <1>4 DEF IInv

\* At first every connection is in the queue.
LEMMA InitAllFree == Init => ToSet(connectionPool) = Conns
<1> SUFFICES ASSUME Init PROVE ToSet(connectionPool) = Conns
  OBVIOUS
<1> DEFINE n == Cardinality(Conns)
<1>1. n \in Nat
  BY FS_CardinalityType
<1>2. connectionPool \in [1 .. n -> Conns] /\ IsInjective(connectionPool)
  BY DEF Init
<1>5. ToSet(connectionPool) = Conns
  <2>1. Cardinality(1 .. n) = n /\ IsFiniteSet(1 .. n)
    BY <1>1, FS_Interval
  <2>2. \A i, j \in 1 .. n : connectionPool[i] = connectionPool[j] => i = j
    BY <1>2 DEF IsInjective
  <2>3. connectionPool \in Injection(1 .. n, Conns)
    BY <1>2, <2>2 DEF Injection, IsInjective
  <2>4. connectionPool \in Surjection(1 .. n, Conns)
    BY <2>1, <2>3, FS_Injection DEF n
  <2> QED
    BY <1>2, <2>4 DEF ToSet, Surjection
<1> QED
  BY <1>5

\* Every step keeps the type invariant.
LEMMA TypeStep == IInv /\ Next => TypeOK'
<1> SUFFICES ASSUME TypeOK, HoldsWhileQuerying, Next PROVE TypeOK'
  BY DEF IInv
<1> USE DEF TypeOK, Goto, Lock, Unlock
<1>1. PICK w \in Workers :
        \/ Local(w) \/ GetLock(w) \/ Wait(w) \/ SpuriousWakeup(w)
        \/ Take(w) \/ QueryThrows(w) \/ Push(w)
  BY NextCases
<1>2. CASE Local(w)
  BY <1>2 DEF Local, QueryMySql, QueryFails, QuerySucceeds, ReturnLock
<1>3. CASE GetLock(w) \/ Wait(w) \/ SpuriousWakeup(w)
  BY <1>3 DEF GetLock, Wait, SpuriousWakeup
<1>4. CASE Take(w)
  <2>1. Head(connectionPool) \in Conns /\ Tail(connectionPool) \in Seq(Conns)
    BY <1>4 DEF Take
  <2> QED
    BY <1>4, <2>1 DEF Take
<1>5. CASE QueryThrows(w)
  BY <1>5 DEF QueryThrows
<1>6. CASE Push(w)
  <2>1. conn[w] \in Conns
    BY <1>6 DEF Push, HoldsWhileQuerying
  <2>2. connectionPool' \in Seq(Conns)
    BY <1>6, <2>1 DEF Push
  <2>3. pc' \in [Workers -> {"idle", "get", "check", "wait", "woken", "query",
                             "return", "push"}]
    BY <1>6 DEF Push, Sleeping
  <2> QED
    BY <1>6, <2>2, <2>3 DEF Push
<1> QED
  BY <1>1, <1>2, <1>3, <1>4, <1>5, <1>6

\* Who is between lock and unlock owns the mutex, and who queries has a
\* connection.
LEMMA OwnerStep == IInv /\ Next => MutexOwner' /\ HoldsWhileQuerying'
<1> SUFFICES ASSUME TypeOK, MutexOwner, HoldsWhileQuerying, Next
             PROVE  MutexOwner' /\ HoldsWhileQuerying'
  BY DEF IInv
<1> USE DEF TypeOK, MutexOwner, HoldsWhileQuerying, Goto, Lock, Unlock
<1>1. PICK w \in Workers :
        \/ Local(w) \/ GetLock(w) \/ Wait(w) \/ SpuriousWakeup(w)
        \/ Take(w) \/ QueryThrows(w) \/ Push(w)
  BY NextCases
<1>2. CASE Local(w)
  BY <1>2 DEF Local, QueryMySql, QueryFails, QuerySucceeds, ReturnLock
<1>3. CASE GetLock(w) \/ Wait(w) \/ SpuriousWakeup(w)
  BY <1>3 DEF GetLock, Wait, SpuriousWakeup
<1>4. CASE Take(w)
  <2>1. Head(connectionPool) \in Conns
    BY <1>4 DEF Take
  <2> QED
    BY <1>4, <2>1 DEF Take
<1>5. CASE QueryThrows(w)
  BY <1>5 DEF QueryThrows
<1>6. CASE Push(w)
  <2>1. \A v \in Workers : pc'[v] \in {"query", "return", "push"}
                            <=> pc[v] \in {"query", "return", "push"} /\ v # w
    BY <1>6 DEF Push, Sleeping
  <2>2. \A v \in Workers : pc'[v] \in {"check", "push"}
                            <=> pc[v] \in {"check", "push"} /\ v # w
    BY <1>6 DEF Push, Sleeping
  <2> QED
    BY <1>6, <2>1, <2>2 DEF Push
<1> QED
  BY <1>1, <1>2, <1>3, <1>4, <1>5, <1>6

-----------------------------------------------------------------------------
(* Where the connections are *)

\* Where the connection of a Take comes from and goes to.
LEMMA TakeMoves ==
  ASSUME TypeOK, HoldsWhileQuerying, ExclusiveUse, NEW w \in Workers, Take(w)
  PROVE  \E c \in ToSet(connectionPool) :
           /\ c \in Conns /\ c = Head(connectionPool)
           /\ IsInjective(connectionPool')
           /\ ToSet(connectionPool') = ToSet(connectionPool) \ {c}
           /\ conn' = [conn EXCEPT ![w] = c]
           /\ Holding' = Holding \cup {w} /\ w \notin Holding
           /\ conn'[w] = c
           /\ \A v \in Holding : conn'[v] = conn[v] /\ conn[v] # c
<1> DEFINE c == Head(connectionPool)
<1>1. /\ c \in Conns /\ c \in ToSet(connectionPool)
      /\ IsInjective(connectionPool')
      /\ ToSet(connectionPool') = ToSet(connectionPool) \ {c}
  BY TailInjective DEF Take, TypeOK, ExclusiveUse
<1>2. conn[w] = NoConn /\ conn' = [conn EXCEPT ![w] = c]
  BY DEF Take, HoldsWhileQuerying
<1> HIDE DEF c
<1>3. Holding' = Holding \cup {w} /\ w \notin Holding
  BY <1>1, <1>2 DEF TypeOK, Holding
<1>4. conn'[w] = c /\ \A v \in Holding : conn'[v] = conn[v] /\ conn[v] # c
  BY <1>1, <1>2, <1>3 DEF TypeOK, ExclusiveUse, Holding
<1> QED
  BY <1>1, <1>2, <1>3, <1>4 DEF c

\* Where the connection of a Push comes from and goes to.
LEMMA PushMoves ==
  ASSUME TypeOK, HoldsWhileQuerying, ExclusiveUse, NEW w \in Workers, Push(w)
  PROVE  /\ conn[w] \in Conns /\ w \in Holding
         /\ conn[w] \notin ToSet(connectionPool)
         /\ IsInjective(connectionPool')
         /\ ToSet(connectionPool') = ToSet(connectionPool) \cup {conn[w]}
         /\ conn' = [conn EXCEPT ![w] = NoConn]
         /\ Holding' = Holding \ {w}
         /\ \A v \in Holding' : conn'[v] = conn[v]
<1>1. conn[w] \in Conns /\ w \in Holding
  BY DEF Push, HoldsWhileQuerying, TypeOK, Holding
<1>2. conn[w] \notin ToSet(connectionPool)
  BY <1>1 DEF ExclusiveUse
<1>3. /\ IsInjective(connectionPool')
      /\ ToSet(connectionPool') = ToSet(connectionPool) \cup {conn[w]}
  BY <1>1, <1>2, ExtendInjective DEF Push, TypeOK, ExclusiveUse
<1>4. conn' = [conn EXCEPT ![w] = NoConn]
  BY DEF Push
<1>5. Holding' = Holding \ {w} /\ \A v \in Holding' : conn'[v] = conn[v]
  BY <1>4 DEF TypeOK, Holding
<1> QED
  BY <1>1, <1>2, <1>3, <1>4, <1>5

\* An exception takes one connection away from its worker.
LEMMA ThrowMoves ==
  ASSUME TypeOK, HoldsWhileQuerying, NEW w \in Workers, QueryThrows(w)
  PROVE  /\ w \in Holding
         /\ connectionPool' = connectionPool
         /\ conn' = [conn EXCEPT ![w] = NoConn]
         /\ Holding' = Holding \ {w}
         /\ \A v \in Holding' : conn'[v] = conn[v]
BY DEF QueryThrows, HoldsWhileQuerying, TypeOK, Holding

\* Every step keeps each connection in at most one place.
LEMMA ConnectionsStep == IInv /\ Next => ExclusiveUse'
<1> SUFFICES ASSUME TypeOK, HoldsWhileQuerying, ExclusiveUse, Next PROVE ExclusiveUse'
  BY DEF IInv
<1>1. PICK w \in Workers :
        \/ Local(w) \/ GetLock(w) \/ Wait(w) \/ SpuriousWakeup(w)
        \/ Take(w) \/ QueryThrows(w) \/ Push(w)
  BY NextCases
<1>2. CASE Local(w) \/ GetLock(w) \/ Wait(w) \/ SpuriousWakeup(w)
  BY <1>2 DEF Local, QueryMySql, QueryFails, QuerySucceeds, ReturnLock, GetLock, Wait,
              SpuriousWakeup, ExclusiveUse, Holding
<1>3. CASE Take(w)
  BY <1>3, TakeMoves DEF ExclusiveUse
<1>4. CASE QueryThrows(w)
  BY <1>4, ThrowMoves DEF ExclusiveUse
<1>5. CASE Push(w)
  BY <1>5, PushMoves DEF ExclusiveUse
<1> QED
  BY <1>1, <1>2, <1>3, <1>4, <1>5

\* Every step keeps what is kept, but for the connection of an exception.
LEMMA KeptStep ==
  IInv /\ [Next]_vars =>
    Kept' = Kept \/ \E w \in Workers : QueryThrows(w) /\ Kept' = Kept \ {conn[w]}
<1> SUFFICES ASSUME TypeOK, HoldsWhileQuerying, ExclusiveUse, [Next]_vars
             PROVE  Kept' = Kept \/ \E w \in Workers : QueryThrows(w)
                                                       /\ Kept' = Kept \ {conn[w]}
  BY DEF IInv
<1>1. CASE UNCHANGED vars
  BY <1>1 DEF vars, Kept, Holding
<1>2. CASE Next
  <2>1. PICK w \in Workers :
          \/ Local(w) \/ GetLock(w) \/ Wait(w) \/ SpuriousWakeup(w)
          \/ Take(w) \/ QueryThrows(w) \/ Push(w)
    BY <1>2, NextCases
  <2>2. CASE Local(w) \/ GetLock(w) \/ Wait(w) \/ SpuriousWakeup(w)
    BY <2>2 DEF Local, QueryMySql, QueryFails, QuerySucceeds, ReturnLock, GetLock, Wait,
                SpuriousWakeup, Kept, Holding
  <2>3. CASE Take(w)
    BY <2>3, TakeMoves DEF Kept
  <2>4. CASE QueryThrows(w)
    BY <2>4, ThrowMoves DEF Kept, ExclusiveUse
  <2>5. CASE Push(w)
    BY <2>5, PushMoves DEF Kept
  <2> QED
    BY <2>1, <2>2, <2>3, <2>4, <2>5
<1> QED
  BY <1>1, <1>2

-----------------------------------------------------------------------------
(* No lost wakeup *)

\* The workers on their way to a connection are finitely many.
LEMMA SleepersFinite ==
  /\ IsFiniteSet(OnTheWay) /\ Cardinality(OnTheWay) \in Nat
  /\ IsFiniteSet(OnTheWay') /\ Cardinality(OnTheWay') \in Nat
<1>1. OnTheWay \in SUBSET Workers /\ OnTheWay' \in SUBSET Workers
  BY DEF OnTheWay
<1>2. IsFiniteSet(OnTheWay) /\ IsFiniteSet(OnTheWay')
  BY <1>1, FS_Subset
<1> QED
  BY <1>2, FS_CardinalityType

\* Every step leaves enough workers awake, or on their way to the mutex, for
\* the connections in the pool.
LEMMA WakeupStep == IInv /\ Next => NoLostWakeup'
<1> SUFFICES ASSUME TypeOK, NoLostWakeup, Next PROVE NoLostWakeup'
  BY DEF IInv
<1>1. PICK w \in Workers :
        \/ Local(w) \/ GetLock(w) \/ Wait(w) \/ SpuriousWakeup(w)
        \/ Take(w) \/ QueryThrows(w) \/ Push(w)
  BY NextCases
<1> DEFINE n == Cardinality(OnTheWay)
           m == Cardinality(OnTheWay')
<1>2. n \in Nat /\ m \in Nat /\ Len(connectionPool) \in Nat
  BY SleepersFinite DEF TypeOK
<1>3. OnTheWay \subseteq OnTheWay' => n <= m
  BY SleepersFinite, FS_Subset
<1>4. ASSUME NEW v \in Workers, v \notin OnTheWay, OnTheWay' = OnTheWay \cup {v}
      PROVE  m = n + 1
  BY <1>4, SleepersFinite, FS_AddElement
<1>5. ASSUME NEW v \in Workers, v \in OnTheWay, OnTheWay' = OnTheWay \ {v}
      PROVE  m = n - 1
  BY <1>5, SleepersFinite, FS_RemoveElement
<1>6. Sleeping # {} => Len(connectionPool) <= n
  BY DEF NoLostWakeup
<1>7. SUFFICES ASSUME Sleeping' # {} PROVE Len(connectionPool') <= m
  BY DEF NoLostWakeup
<1> HIDE DEF n, m
<1> USE DEF TypeOK, Goto
<1>8. CASE \/ Local(w) \/ GetLock(w) \/ SpuriousWakeup(w) \/ QueryThrows(w)
  <2>1. /\ Sleeping' \subseteq Sleeping /\ OnTheWay \subseteq OnTheWay'
        /\ connectionPool' = connectionPool
    BY <1>8 DEF Local, QueryMySql, QueryFails, QuerySucceeds, ReturnLock, GetLock,
                SpuriousWakeup, QueryThrows, Sleeping, OnTheWay
  <2> QED
    BY <2>1, <1>2, <1>3, <1>6, <1>7
<1>9. CASE Wait(w)
  <2>1. connectionPool' = << >>
    BY <1>9 DEF Wait
  <2> QED
    BY <2>1, <1>2
<1>10. CASE Take(w)
  <2>1. Len(connectionPool') = Len(connectionPool) - 1
    BY <1>10 DEF Take
  <2>2. /\ Sleeping' = Sleeping /\ w \in OnTheWay
        /\ OnTheWay' = OnTheWay \ {w}
    BY <1>10 DEF Take, Sleeping, OnTheWay
  <2> QED
    BY <2>1, <2>2, <1>2, <1>5, <1>6, <1>7
<1>11. CASE Push(w)
  <2>1. PICK s \in Sleeping : pc' = [pc EXCEPT ![w] = "idle", ![s] = "woken"]
    <3>1. Sleeping # {}
      BY <1>11, <1>7 DEF Push, Sleeping
    <3> QED
      BY <1>11, <3>1 DEF Push
  <2>2. Len(connectionPool') = Len(connectionPool) + 1
    BY <1>11 DEF Push
  <2>3. /\ s \in Workers /\ s \notin OnTheWay
        /\ OnTheWay' = OnTheWay \cup {s}
    BY <1>11, <2>1 DEF Push, Sleeping, OnTheWay
  <2> QED
    BY <2>2, <2>3, <1>2, <1>4, <1>6
<1> QED
  BY <1>1, <1>8, <1>9, <1>10, <1>11

-----------------------------------------------------------------------------

\* IInv is inductive.
THEOREM PoolInvariance == Spec => []IInv
<1>1. IInv /\ [Next]_vars => IInv'
  <2>1. CASE Next
    BY <2>1, TypeStep, OwnerStep, ConnectionsStep, WakeupStep DEF IInv
  <2>2. CASE UNCHANGED vars
    BY <2>2 DEF vars, IInv, TypeOK, MutexOwner, HoldsWhileQuerying, ExclusiveUse,
                NoLostWakeup, Holding, Sleeping, OnTheWay
  <2> QED
    BY <2>1, <2>2
<1> QED
  BY InitInv, <1>1, PTL DEF Spec

\* The queue, the mutex and the workers' locals keep their types.
THEOREM PoolTypeCorrect == Spec => []TypeOK
<1>1. IInv => TypeOK
  BY DEF IInv
<1> QED
  BY <1>1, PoolInvariance, PTL

\* No connection is used by two workers, exceptions or not.
THEOREM PoolExclusive == Spec => []ExclusiveUse
<1>1. IInv => ExclusiveUse
  BY DEF IInv
<1> QED
  BY <1>1, PoolInvariance, PTL

\* Early returns, races and spurious wakeups lose no connection: each stays
\* queued or in use unless an exception leaves its QueryMySql.
THEOREM PoolKeepsAll == Spec => OnlyExceptionsLose
<1>1. IInv /\ [Next]_vars =>
        [\/ Kept' = Kept
         \/ \E w \in Workers : QueryThrows(w) /\ Kept' = Kept \ {conn[w]}]_vars
  BY KeptStep
<1> QED
  BY <1>1, PoolInvariance, PTL DEF Spec, OnlyExceptionsLose

\* While a worker sleeps, every queued connection has a worker on its way to it.
THEOREM PoolWakeups == Spec => []NoLostWakeup
<1>1. IInv => NoLostWakeup
  BY DEF IInv
<1> QED
  BY <1>1, PoolInvariance, PTL

-----------------------------------------------------------------------------
(* The pool implements PoolService.  Seen from outside are QueryMySql, Take, *)
(* Push and QueryThrows; the other steps map to a stutter.                   *)

\* No worker asks, uses or has lost anything at first.
LEMMA RefinesInit == Init => Service!Init
<1> SUFFICES ASSUME Init PROVE Service!Init
  OBVIOUS
<1>1. Asking = {}
  BY DEF Init, Asking
<1> QED
  BY <1>1, InitAllFree DEF Init, Service!Init

\* Every step is a step of the service or changes nothing it shows.
LEMMA RefinesStep == IInv /\ [Next]_vars => [Service!Next]_(Service!vars)
<1> SUFFICES ASSUME TypeOK, HoldsWhileQuerying, ExclusiveUse, [Next]_vars
             PROVE  [Service!Next]_(Service!vars)
  BY DEF IInv
<1> USE DEF Service!vars
<1>1. CASE UNCHANGED vars
  BY <1>1 DEF vars, Asking
<1>2. CASE Next
  <2>1. PICK w \in Workers :
          \/ Local(w) \/ GetLock(w) \/ Wait(w) \/ SpuriousWakeup(w)
          \/ Take(w) \/ QueryThrows(w) \/ Push(w)
    BY <1>2, NextCases
  <2>2. CASE QueryMySql(w)
    <3>1. w \notin Asking /\ conn[w] = NoConn
      BY <2>2 DEF QueryMySql, Asking, HoldsWhileQuerying
    <3>2. Asking' = Asking \cup {w}
      BY <2>2 DEF QueryMySql, Goto, TypeOK, Asking
    <3>3. Service!Ask(w)
      BY <2>2, <3>1, <3>2 DEF QueryMySql, Service!Ask
    <3> QED
      BY <3>3 DEF Service!Next
  <2>3. CASE \/ QueryFails(w) \/ QuerySucceeds(w) \/ ReturnLock(w)
             \/ GetLock(w) \/ Wait(w) \/ SpuriousWakeup(w)
    <3>1. UNCHANGED <<connectionPool, conn>>
      BY <2>3 DEF QueryFails, QuerySucceeds, ReturnLock, GetLock, Wait, SpuriousWakeup
    <3>2. Asking' = Asking
      BY <2>3 DEF QueryFails, QuerySucceeds, ReturnLock, GetLock, Wait, SpuriousWakeup,
                  Goto, TypeOK, Asking
    <3> QED
      BY <3>1, <3>2
  <2>4. CASE Take(w)
    <3>1. PICK c \in ToSet(connectionPool) :
            /\ c \in Conns
            /\ ToSet(connectionPool') = ToSet(connectionPool) \ {c}
            /\ conn' = [conn EXCEPT ![w] = c]
      BY <2>4, TakeMoves
    <3>2. w \in Asking /\ Asking' = Asking \ {w}
      BY <2>4 DEF Take, Goto, TypeOK, Asking
    <3>3. Service!Grant(w, c)
      BY <3>1, <3>2 DEF Service!Grant
    <3> QED
      BY <3>1, <3>3 DEF Service!Next, Service!Serve
  <2>5. CASE QueryThrows(w)
    <3>1. Asking' = Asking
      BY <2>5 DEF QueryThrows, Goto, TypeOK, Asking
    <3>2. conn[w] # NoConn
      BY <2>5, ThrowMoves DEF Holding
    <3>3. Service!Lose(w)
      BY <2>5, <3>1, <3>2 DEF QueryThrows, Service!Lose
    <3> QED
      BY <3>3 DEF Service!Next
  <2>6. CASE Push(w)
    <3>1. Asking' = Asking
      <4>1. \A v \in Workers : pc'[v] \in {"get", "check", "wait", "woken"}
                                <=> pc[v] \in {"get", "check", "wait", "woken"}
        BY <2>6 DEF Push, Goto, Sleeping, TypeOK
      <4> QED
        BY <4>1 DEF Asking
    <3>2. conn[w] # NoConn
      BY <2>6, PushMoves DEF Holding
    <3>3. Service!GiveBack(w)
      BY <2>6, <3>1, <3>2, PushMoves DEF Service!GiveBack
    <3> QED
      BY <3>3 DEF Service!Next
  <2> QED
    BY <2>1, <2>2, <2>3, <2>4, <2>5, <2>6 DEF Local
<1> QED
  BY <1>1, <1>2

\* The pool gives out and takes back connections as PoolService says: one user at
\* a time, a free one for who asks, back when the query returns.
THEOREM PoolImplements == Spec => ImplementsService
BY RefinesInit, RefinesStep, PoolInvariance, PTL DEF Spec, ImplementsService, Service!Spec

=============================================================================
