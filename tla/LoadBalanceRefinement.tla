------------------------ MODULE LoadBalanceRefinement ------------------------
(***************************************************************************)
(* LoadBalance implements JudgeDispatch: proof, by the inductive invariant *)
(* of LoadBalanceProofs.  The steps that are seen from outside are Judge,  *)
(* SelectDone, SelectNone, Finish, Retry, OfflineMachine and               *)
(* OnlineMachine; the others map to a stutter.                             *)
(***************************************************************************)
EXTENDS LoadBalanceProofs

Phases  == [w \in Workers |-> PhaseOf(w)]
Givens  == [w \in Workers |-> IF pc[w] \in Given THEN machine[w] ELSE Empty]
Answers == [w \in Workers |-> IF pc[w] = "idle" THEN outJson[w] ELSE Empty]

\* The values of PhaseOf, by the sets of program counters.
LEMMA PhaseValues ==
  ASSUME NEW w \in Workers, pc \in [Workers -> PCs]
  PROVE  /\ pc[w] = "idle" => PhaseOf(w) = "done"
         /\ pc[w] \in Given => PhaseOf(w) = "given"
         /\ pc[w] \in {"select", "scan", "show", "showing"} => PhaseOf(w) = "waiting"
BY DEF PhaseOf, Given, PCs

\* The program starts where the abstract dispatcher starts.
LEMMA RefinesInit == Init => Dispatch!Init
<1> SUFFICES ASSUME Init PROVE Dispatch!Init
  OBVIOUS
<1>1. IInv
  BY InitInv
<1>2. ToSet(online) = Machine
  <2>1. ToSet(offline) = {}
    BY DEF Init, ToSet
  <2> QED
    BY <1>1, <2>1 DEF IInv, MachinesPartitioned
<1>3. \A w \in Workers : pc[w] = "idle" /\ outJson[w] = Empty
  BY DEF Init
<1>4. \A w \in Workers : PhaseOf(w) = "done" /\ pc[w] \notin Given
  BY <1>3 DEF PhaseOf, Given
<1> QED
  BY <1>2, <1>3, <1>4 DEF Dispatch!Init

\* A step that changes nothing that is seen from outside.
Unseen ==
  /\ ToSet(online') = ToSet(online)
  /\ \A w \in Workers :
       /\ \/ pc'[w] = pc[w]
          \/ pc[w] \in Given /\ pc'[w] \in Given
          \/ {pc[w], pc'[w]} \subseteq {"select", "scan", "show", "showing"}
       /\ pc[w] \in Given => machine'[w] = machine[w]
       /\ pc[w] = "idle" => outJson'[w] = outJson[w]

\* Steps that change neither the lists, nor where a worker is as the dispatcher
\* sees it, are invisible to it.
LEMMA UnseenStutters ==
  ASSUME TypeOK, TypeOK', Unseen
  PROVE  UNCHANGED Dispatch!vars
<1>1. \A w \in Workers : PhaseOf(w)' = PhaseOf(w)
  BY PhaseValues DEF TypeOK, Unseen, PhaseOf, Given
<1>2. \A w \in Workers :
        /\ pc'[w] \in Given <=> pc[w] \in Given
        /\ pc[w] \in Given => machine'[w] = machine[w]
        /\ pc'[w] = "idle" <=> pc[w] = "idle"
        /\ pc[w] = "idle" => outJson'[w] = outJson[w]
  BY DEF Unseen, Given
<1>3. Phases' = Phases
  BY <1>1 DEF Phases
<1>4. Givens' = Givens
  BY <1>2 DEF Givens
<1>5. Answers' = Answers
  BY <1>2 DEF Answers
<1> QED
  BY <1>3, <1>4, <1>5 DEF Dispatch!vars, Unseen, Phases, Givens, Answers

\* Every step of the program is a step of the dispatcher or is invisible to it.
LEMMA RefinesStep == IInv /\ IInv' /\ [Next]_vars => [Dispatch!Next]_Dispatch!vars
<1> SUFFICES ASSUME IInv, IInv', [Next]_vars
             PROVE  Dispatch!Next \/ UNCHANGED Dispatch!vars
  OBVIOUS
<1>1. /\ TypeOK /\ TypeOK' /\ Selected /\ AnswerKnown /\ MachinesPartitioned
      /\ MachinesPartitioned' /\ ScanInRange /\ ScanKeepsLeast
  BY DEF IInv
<1>2. ASSUME NEW w \in Workers, Judge(w) PROVE Dispatch!Next
  <2>1. /\ pc[w] = "idle" /\ pc' = [pc EXCEPT ![w] = "select"]
        /\ outJson' = [outJson EXCEPT ![w] = Empty]
        /\ machine' = machine /\ online' = online
    BY <1>2 DEF Judge, At, Goto, lists, locals
  <2>2. Phases[w] = "done" /\ Phases' = [Phases EXCEPT ![w] = "waiting"]
    BY <1>1, <2>1 DEF TypeOK, Phases, PhaseOf, Given
  <2>3. Givens' = Givens
    BY <1>1, <2>1 DEF TypeOK, Givens, Given
  <2>4. Answers' = [Answers EXCEPT ![w] = Empty]
    BY <1>1, <2>1 DEF TypeOK, Answers
  <2>5. Dispatch!Submit(w)
    BY <2>1, <2>2, <2>3, <2>4 DEF Dispatch!Submit, Phases, Givens, Answers
  <2> QED
    BY <2>5 DEF Dispatch!Next
<1>3. ASSUME NEW w \in Workers, SelectDone(w) PROVE Dispatch!Next
  <2>1. /\ pc[w] = "scan" /\ pc' = [pc EXCEPT ![w] = "inc"]
        /\ outJson' = outJson /\ machine' = machine /\ online' = online
    BY <1>3 DEF SelectDone, At, Goto, lists
  <2>2. machine[w] \in ToSet(online)
    <3>1. seen[w] # << >>
      BY <1>1, <1>3 DEF TypeOK, SelectDone
    <3>2. PICK i \in DOMAIN seen[w] : machine[w] = online[i]
      BY <1>1, <2>1, <3>1 DEF ScanKeepsLeast
    <3>3. i \in DOMAIN online
      BY <1>1, <1>3 DEF TypeOK, SelectDone
    <3> QED
      BY <3>2, <3>3 DEF ToSet
  <2>3. machine[w] \in Machine
    BY <1>1, <2>2 DEF MachinesPartitioned
  <2>4. Phases[w] = "waiting" /\ Phases' = [Phases EXCEPT ![w] = "given"]
    BY <1>1, <2>1 DEF TypeOK, Phases, PhaseOf, Given
  <2>5. Givens' = [Givens EXCEPT ![w] = machine[w]]
    BY <1>1, <2>1 DEF TypeOK, Givens, Given
  <2>6. Answers' = Answers
    BY <1>1, <2>1 DEF TypeOK, Answers
  <2>7. PICK m \in Machine : m = machine[w]
    BY <2>3
  <2>8. Dispatch!Give(w, m)
    BY <2>1, <2>2, <2>4, <2>5, <2>6, <2>7 DEF Dispatch!Give, Phases, Givens, Answers
  <2> QED
    BY <2>8 DEF Dispatch!Next
<1>4. ASSUME NEW w \in Workers, SelectNone(w) PROVE Dispatch!Next
  <2>1. /\ pc[w] = "scan" /\ pc' = [pc EXCEPT ![w] = "idle"]
        /\ outJson' = outJson /\ machine' = machine /\ online' = online
        /\ online = << >>
    BY <1>4 DEF SelectNone, At, Goto, lists, locals
  <2>2. ToSet(online) = {}
    BY <2>1 DEF ToSet
  <2>3. outJson[w] = Empty
    BY <1>1, <2>1 DEF AnswerKnown
  <2>4. Phases[w] = "waiting" /\ Phases' = [Phases EXCEPT ![w] = "done"]
    BY <1>1, <2>1 DEF TypeOK, Phases, PhaseOf, Given
  <2>5. Givens' = Givens
    BY <1>1, <2>1 DEF TypeOK, Givens, Given
  <2>6. Answers' = Answers
    BY <1>1, <2>1, <2>3 DEF TypeOK, Answers
  <2>7. Dispatch!SendAway(w)
    BY <2>1, <2>2, <2>4, <2>5, <2>6 DEF Dispatch!SendAway, Phases, Givens, Answers
  <2> QED
    BY <2>7 DEF Dispatch!Next
<1>5. ASSUME NEW w \in Workers, Finish(w) PROVE Dispatch!Next
  <2>1. /\ pc[w] = "ok" /\ pc' = [pc EXCEPT ![w] = "idle"]
        /\ outJson' = outJson /\ machine' = machine /\ online' = online
    BY <1>5 DEF Finish, At, Goto, lists, locals
  <2>2. outJson[w] = machine[w]
    BY <1>1, <2>1 DEF AnswerKnown
  <2>3. Phases[w] = "given" /\ Phases' = [Phases EXCEPT ![w] = "done"]
    BY <1>1, <2>1 DEF TypeOK, Phases, PhaseOf, Given
  <2>4. Givens[w] = machine[w] /\ Givens' = [Givens EXCEPT ![w] = Empty]
    BY <1>1, <2>1 DEF TypeOK, Givens, Given
  <2>5. Answers' = [Answers EXCEPT ![w] = machine[w]]
    BY <1>1, <2>1, <2>2 DEF TypeOK, Answers
  <2>6. Dispatch!Answer(w)
    BY <2>1, <2>3, <2>4, <2>5 DEF Dispatch!Answer, Phases, Givens, Answers
  <2> QED
    BY <2>6 DEF Dispatch!Next
<1>6. ASSUME NEW w \in Workers, Retry(w) \/ OfflineMachine(w) PROVE Dispatch!Next
  <2>1. /\ pc[w] \in {"refused", "offlining"}
        /\ \E l \in {"select", "show"} : pc' = [pc EXCEPT ![w] = l]
        /\ outJson' = outJson /\ machine' = machine
    BY <1>6 DEF Retry, OfflineMachine, At, Goto, locals
  <2>2. ToSet(online') \in {ToSet(online), ToSet(online) \ {machine[w]}}
    <3>1. CASE Retry(w)
      BY <3>1 DEF Retry, lists
    <3>2. CASE OfflineMachine(w) /\ Contains(online, machine[w])
      <4>1. online' = RemoveFirst(online, machine[w])
        BY <3>2 DEF OfflineMachine
      <4>2. online \in Seq(Machine) /\ IsInjective(online)
        BY <1>1 DEF TypeOK, MachinesPartitioned
      <4> QED
        BY <3>2, <4>1, <4>2, RemoveFirstInjective
    <3>3. CASE OfflineMachine(w) /\ ~Contains(online, machine[w])
      BY <3>3 DEF OfflineMachine, lists
    <3> QED
      BY <1>6, <3>1, <3>2, <3>3
  <2>3. Phases[w] = "given" /\ Phases' = [Phases EXCEPT ![w] = "waiting"]
    BY <1>1, <2>1 DEF TypeOK, Phases, PhaseOf, Given
  <2>4. Givens[w] = machine[w] /\ Givens' = [Givens EXCEPT ![w] = Empty]
    BY <1>1, <2>1 DEF TypeOK, Givens, Given
  <2>5. Answers' = Answers
    BY <1>1, <2>1 DEF TypeOK, Answers
  <2>6. Dispatch!GiveBack(w)
    BY <2>2, <2>3, <2>4, <2>5 DEF Dispatch!GiveBack, Phases, Givens, Answers
  <2> QED
    BY <2>6 DEF Dispatch!Next
<1>7. ASSUME NEW t \in Threads, OnlineMachine(t) PROVE Dispatch!Next
  <2>1. offline' = << >> /\ UNCHANGED <<pc, machine, outJson>>
    BY <1>7 DEF OnlineMachine, locals
  <2>2. ToSet(offline') = {}
    BY <2>1 DEF ToSet
  <2>3. ToSet(online') = Machine
    BY <1>1, <2>2 DEF MachinesPartitioned
  <2>4. Phases' = Phases /\ Givens' = Givens /\ Answers' = Answers
    BY <2>1 DEF Phases, PhaseOf, Givens, Answers
  <2>5. Dispatch!Recover
    BY <2>3, <2>4 DEF Dispatch!Recover, Phases, Givens, Answers
  <2> QED
    BY <2>5 DEF Dispatch!Next
<1>8. ASSUME NEW w \in Workers, SelectLock(w) \/ ScanNext(w) PROVE Unseen
  <2>1. online' = online /\ outJson' = outJson
    BY <1>8 DEF SelectLock, ScanNext, lists
  <2>2. /\ pc[w] \in {"select", "scan"} /\ pc'[w] = "scan"
        /\ \A v \in Workers : v # w => pc'[v] = pc[v] /\ machine'[v] = machine[v]
    <3>1. CASE SelectLock(w)
      BY <1>1, <3>1 DEF TypeOK, SelectLock, At, Goto
    <3>2. CASE ScanNext(w)
      BY <1>1, <3>2 DEF TypeOK, ScanNext, At
    <3> QED
      BY <1>8, <3>1, <3>2
  <2> QED
    BY <2>1, <2>2 DEF Unseen, Given
<1>9. ASSUME NEW w \in Workers, Send(w) \/ Post(w) \/ OfflineLock(w) PROVE Unseen
  <2>1. /\ online' = online /\ machine' = machine
        /\ \A v \in Workers : v # w => outJson'[v] = outJson[v]
    BY <1>1, <1>9 DEF TypeOK, Send, Post, PostOk, PostRefused, PostFailed, OfflineLock,
                      lists, locals
  <2>2. /\ pc[w] \in Given /\ pc'[w] \in Given
        /\ \A v \in Workers : v # w => pc'[v] = pc[v]
    BY <1>1, <1>9 DEF TypeOK, Send, Post, PostOk, PostRefused, PostFailed, OfflineLock,
                      At, Goto, Given
  <2> QED
    BY <2>1, <2>2 DEF Unseen, Given
<1>10. ASSUME NEW w \in Workers, ShowLock(w) \/ ShowMachines(w) PROVE Unseen
  <2>1. /\ UNCHANGED <<online, machine, outJson>>
        /\ pc[w] \in {"show", "showing"} /\ pc'[w] \in {"showing", "select"}
        /\ \A v \in Workers : v # w => pc'[v] = pc[v]
    BY <1>1, <1>10 DEF TypeOK, ShowLock, ShowMachines, At, Goto, lists, locals
  <2> QED
    BY <2>1 DEF Unseen
<1>11. ASSUME NEW t \in Threads, Deliver(t) \/ OnlineLock(t) PROVE Unseen
  BY <1>11 DEF Unseen, Deliver, OnlineLock, lists, locals
<1>12. CASE CtrlC \/ UNCHANGED vars
  BY <1>12, UnseenStutters, <1>1 DEF Unseen, CtrlC, vars, lists, locals
<1>13. CASE Unseen
  BY <1>1, <1>13, UnseenStutters
<1>14. ASSUME NEW w \in Workers, Work(w) PROVE Dispatch!Next \/ Unseen
  BY <1>14, <1>3, <1>4, <1>5, <1>6, <1>8, <1>9, <1>10
     DEF Work, SelectLeastLoaded, TakeOffline
<1> QED
  BY <1>2, <1>7, <1>11, <1>12, <1>13, <1>14 DEF Next, Recovery

\* The code with its mutexes, lists, loads and signal handler keeps the promise
\* of JudgeDispatch, whatever the number of workers, machines and recoveries.
THEOREM Refinement == Spec => ImplementsDispatch
<1>1. Spec => []IInv
  BY Invariance
<1> QED
  BY <1>1, RefinesInit, RefinesStep, PTL DEF Spec, Dispatch!Spec, ImplementsDispatch

=============================================================================
