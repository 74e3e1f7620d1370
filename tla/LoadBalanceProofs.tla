-------------------------- MODULE LoadBalanceProofs --------------------------
(***************************************************************************)
(* Proofs about LoadBalance, for any number of workers and machines and    *)
(* any number of ctrl-C presses: the safety properties of the runs.        *)
(***************************************************************************)
EXTENDS LoadBalance, SequenceLemmas, FiniteSetTheorems

-----------------------------------------------------------------------------
(* The inductive invariant *)

\* _mtx is held exactly by a worker inside a critical section, wherever a
\* signal handler may have interrupted it, and by a handler that got it.
InSection(t) == t \in Workers /\ pc[t] \in {"scan", "offlining", "showing"}
HoldsLock(t) == InSection(t) \/ handler[t] = "online"

MutexOwner ==
  \A t \in Threads : /\ HoldsLock(t) <=> mtx = t
                     /\ ~(InSection(t) /\ handler[t] = "online")

\* A machine was selected once Judge is past SelectLeastLoaded.
Selected == \A w \in Workers : pc[w] \in Given => machine[w] \in Machine

\* The loop index of a scan is in range and the scan that follows starts at 0.
ScanInRange ==
  \A w \in Workers : /\ pc[w] = "scan" => Len(seen[w]) <= Len(online)
                     /\ pc[w] # "scan" => seen[w] = << >>

\* The history variables against the offline list.
OfflineRemembered == ToSet(offline) \subseteq everOffline
FailedIsOffline == \A w \in Workers : failed[w] \subseteq ToSet(offline)

\* out_json is the body of the machine's answer, from PostOk on and not before.
AnswerKnown ==
  \A w \in Workers : /\ pc[w] = "ok" => outJson[w] = machine[w]
                     /\ pc[w] \notin {"idle", "ok"} => outJson[w] = Empty

\* A worker is interrupted only when the main thread is in the handler, and each
\* press starts one handler: the first press is that of the main thread.
FirstHandlerInMain ==
  /\ presses = 0 => ~pending /\ handler[Main] = "none"
  /\ presses = 1 /\ pending => handler[Main] = "none"
  /\ presses <= 1 => \A w \in Workers : handler[w] = "none"

IInv ==
  /\ TypeOK
  /\ FirstHandlerInMain
  /\ Selected
  /\ AnswerKnown
  /\ MutexOwner
  /\ MachinesPartitioned
  /\ ScanInRange
  /\ ScanKeepsLeast
  /\ OfflineRemembered
  /\ FailedIsOffline
  /\ NoRetryOnFailed
  /\ LoadExact

-----------------------------------------------------------------------------
(* The initial state *)

\* The loads are numbers modulo LoadMod, which is positive.
LEMMA LoadModPositive == LoadMod \in Nat /\ LoadMod > 0 /\ Cardinality(Workers) \in Nat
BY LoadAssumption, ThreadsAssumption, FS_CardinalityType

\* The invariant holds once the configuration is loaded.
LEMMA InitInv == Init => IInv
<1> SUFFICES ASSUME Init PROVE IInv
  OBVIOUS
<1> USE DEF Init, PCs, Given
<1>1. LoadConf \in Seq(Machine) /\ DOMAIN LoadConf = 1 .. NumMachines
  BY MachinesAssumption DEF LoadConf, Machine
<1>2. IsInjective(LoadConf)
  BY MachinesAssumption DEF LoadConf, IsInjective
<1>3. ToSet(LoadConf) = Machine
  <2>1. \A m \in Machine : m + 1 \in 1 .. NumMachines /\ LoadConf[m + 1] = m
    BY MachinesAssumption DEF LoadConf, Machine
  <2>2. \A i \in 1 .. NumMachines : LoadConf[i] \in Machine
    BY MachinesAssumption DEF LoadConf, Machine
  <2> QED
    BY <1>1, <2>1, <2>2 DEF ToSet
<1>4. TypeOK
  <2>1. 0 \in 0 .. LoadMod - 1 /\ 0 \in 0 .. MaxPresses
    BY LoadModPositive, PressesAssumption
  <2>2. load \in [Machine -> 0 .. LoadMod - 1] /\ minLoad \in [Workers -> 0 .. LoadMod - 1]
    BY <2>1
  <2>3. online \in Seq(Machine) /\ offline \in Seq(Machine)
    BY <1>1
  <2>4. seen \in [Workers -> Seq(0 .. LoadMod - 1)] /\ machine \in [Workers -> Nat]
    OBVIOUS
  <2> QED
    BY <2>1, <2>2, <2>3, <2>4 DEF TypeOK
<1>5. Selected /\ AnswerKnown /\ ScanInRange /\ ScanKeepsLeast /\ NoRetryOnFailed
  BY DEF Selected, AnswerKnown, ScanInRange, ScanKeepsLeast, NoRetryOnFailed
<1>11. FirstHandlerInMain
  BY DEF FirstHandlerInMain, Threads
<1>6. MutexOwner
  BY ThreadsAssumption DEF MutexOwner, HoldsLock, InSection
<1>7. ToSet(offline) = {}
  BY DEF ToSet
<1>8. MachinesPartitioned
  <2>1. IsInjective(offline)
    BY DEF IsInjective
  <2> QED
    BY <1>2, <1>3, <1>7, <2>1 DEF MachinesPartitioned
<1>9. OfflineRemembered /\ FailedIsOffline
  BY <1>7 DEF OfflineRemembered, FailedIsOffline
<1>10. LoadExact
  <2>1. \A m \in Machine : InFlight(m) = {}
    BY DEF InFlight
  <2> QED
    BY <2>1, FS_EmptySet DEF LoadExact
<1> QED
  BY <1>4, <1>5, <1>6, <1>8, <1>9, <1>10, <1>11 DEF IInv


-----------------------------------------------------------------------------
(* Type correctness and the mutex *)

\* Every step keeps the types; a machine that is posted to was selected.
LEMMA TypeStep == TypeOK /\ Selected /\ MachinesPartitioned /\ [Next]_vars => TypeOK'
<1> SUFFICES ASSUME TypeOK /\ Selected /\ MachinesPartitioned, [Next]_vars PROVE TypeOK'
  OBVIOUS
<1>1. ASSUME NEW w \in Workers,
                 Judge(w) \/ SelectLock(w)
      PROVE  TypeOK'
  <2>1. 0 \in 0 .. LoadMod - 1 /\ 0 \in Nat
    BY LoadModPositive
  <2>2. CASE Judge(w)
    BY <2>2 DEF TypeOK, PCs, Judge, vars, lists, locals, signals, history, At, Goto
  <2>3. CASE SelectLock(w)
    BY <2>1, <2>3 DEF TypeOK, PCs, Threads, SelectLock,
       vars, lists, locals, signals, history, At, Goto, Lock
  <2> QED
    BY <1>1, <2>2, <2>3
<1>2. ASSUME NEW w \in Workers,
                 SelectNone(w)
      PROVE  TypeOK'
  BY <1>2
     DEF TypeOK, PCs, SelectNone, vars, lists, locals, signals, history, At, Goto, Lock,
         Unlock
<1>3. ASSUME NEW w \in Workers,
                 ScanNext(w)
      PROVE  TypeOK'
  <2> DEFINE candidate == online[Len(seen[w]) + 1]
  <2>1. Len(seen[w]) + 1 \in 1 .. Len(online)
    BY <1>3 DEF TypeOK, ScanNext
  <2>2. candidate \in Machine
    BY <2>1 DEF TypeOK
  <2>3. candidate \in Nat
    BY <2>2 DEF Machine
  <2>4. load[candidate] \in 0 .. LoadMod - 1
    BY <2>2 DEF TypeOK
  <2>5. Append(seen[w], load[candidate]) \in Seq(0 .. LoadMod - 1)
    BY <2>4 DEF TypeOK
  <2> QED
    BY <1>3, <2>3, <2>4, <2>5
       DEF TypeOK, ScanNext, vars, lists, locals, signals, history, At, Goto, Lock,
           Unlock
<1>4. ASSUME NEW w \in Workers,
                 SelectDone(w)
      PROVE  TypeOK'
  BY <1>4
     DEF TypeOK, PCs, SelectDone, vars, lists, locals, signals, history, At, Goto, Lock,
         Unlock
<1>5. ASSUME NEW w \in Workers,
                 Send(w) \/ Finish(w) \/ Retry(w)
      PROVE  TypeOK'
  <2>1. \A x \in 0 .. LoadMod - 1 :
          /\ (x + 1) % LoadMod \in 0 .. LoadMod - 1
          /\ (x + LoadMod - 1) % LoadMod \in 0 .. LoadMod - 1
    <3>1. \A y \in Nat : y % LoadMod \in 0 .. LoadMod - 1
      BY LoadModPositive
    <3>2. \A x \in 0 .. LoadMod - 1 : x + 1 \in Nat /\ x + LoadMod - 1 \in Nat
      BY LoadModPositive
    <3> QED
      BY <3>1, <3>2
  <2>2. load' \in [Machine -> 0 .. LoadMod - 1]
    <3>1. CASE Send(w)
      BY <3>1, <2>1 DEF TypeOK, Send, IncLoad
    <3>2. CASE Finish(w) \/ Retry(w)
      <4>1. DecLoad(machine[w])
        BY <3>2 DEF Finish, Retry
      <4>2. load \in [Machine -> 0 .. LoadMod - 1] /\ machine[w] \in Machine
        BY <3>2 DEF TypeOK, Selected, Given, Finish, Retry, At
      <4>3. (load[machine[w]] + LoadMod - 1) % LoadMod \in 0 .. LoadMod - 1
        BY <4>2, <2>1
      <4> QED
        BY <4>1, <4>2, <4>3 DEF DecLoad
    <3> QED
      BY <1>5, <3>1, <3>2
  <2>3. load' \in [Machine -> 0 .. LoadMod - 1] => TypeOK'
    BY <1>5 DEF TypeOK, PCs, Send, Finish, Retry, lists, locals, signals, history, Goto
  <2> QED
    BY <1>5, <2>2, <2>3
<1>6. ASSUME NEW w \in Workers,
                 PostOk(w)
      PROVE  TypeOK'
  BY <1>6
     DEF TypeOK, PCs, Selected, Given, PostOk, vars, lists, locals, signals, history,
         At, Goto, Lock, Unlock
<1>7. ASSUME NEW w \in Workers,
                 \/ PostRefused(w) \/ PostFailed(w) \/ OfflineLock(w) \/ ShowLock(w)
                 \/ ShowMachines(w)
      PROVE  TypeOK'
  <2>1. CASE PostRefused(w) \/ PostFailed(w)
    BY <2>1 DEF TypeOK, PCs, PostRefused, PostFailed, lists, locals, signals, history, Goto
  <2>2. CASE OfflineLock(w) \/ ShowLock(w)
    BY <2>2 DEF TypeOK, PCs, Threads, OfflineLock, ShowLock, lists, locals, signals,
       history, Goto, Lock
  <2>3. CASE ShowMachines(w)
    BY <2>3 DEF TypeOK, PCs, ShowMachines, lists, locals, signals, history, Goto, Unlock
  <2> QED
    BY <1>7, <2>1, <2>2, <2>3
<1>8. ASSUME NEW w \in Workers,
                 OfflineMachine(w)
      PROVE  TypeOK'
  <2>1. machine[w] \in Machine
    BY <1>8 DEF Selected, Given, OfflineMachine, At
  <2>2. Append(offline, machine[w]) \in Seq(Machine)
    BY <2>1 DEF TypeOK
  <2>3. RemoveFirst(online, machine[w]) \in Seq(Machine)
        \/ ~Contains(online, machine[w])
    BY RemoveFirstInjective DEF TypeOK, MachinesPartitioned
  <2>4. 0 \in 0 .. LoadMod - 1
    BY LoadModPositive
  <2> QED
    BY <1>8, <2>1, <2>2, <2>3, <2>4
       DEF TypeOK, PCs, OfflineMachine, ResetLoad, vars, lists, locals, signals,
       history, At, Goto, Lock, Unlock
<1>9. ASSUME NEW t \in Threads,
                 Deliver(t) \/ OnlineLock(t)
      PROVE  TypeOK'
  BY <1>9
     DEF TypeOK, Deliver, OnlineLock, vars, lists, locals, signals, history, At, Goto,
         Lock, Unlock
<1>10. ASSUME NEW t \in Threads,
                 OnlineMachine(t)
      PROVE  TypeOK'
  <2>1. online \o offline \in Seq(Machine) /\ << >> \in Seq(Machine)
    BY ConcatProperties DEF TypeOK
  <2> QED
    BY <1>10, <2>1 DEF TypeOK, OnlineMachine, locals, Unlock
<1>11. CASE CtrlC \/ UNCHANGED vars
  <2>1. CASE CtrlC
    <3>1. presses + 1 \in 0 .. MaxPresses
      BY <2>1, PressesAssumption DEF TypeOK, CtrlC
    <3> QED
      BY <2>1, <3>1 DEF TypeOK, CtrlC, lists, locals, history
  <2>2. CASE UNCHANGED vars
    BY <2>2 DEF TypeOK, vars, lists, locals, signals, history
  <2> QED
    BY <1>11, <2>1, <2>2
<1> QED
  BY <1>1, <1>2, <1>3, <1>4, <1>5, <1>6, <1>7, <1>8, <1>9, <1>10, <1>11
     DEF Next, Work, SelectLeastLoaded, Post, TakeOffline, Recovery

\* A scan that ends has selected a machine of its list.
LEMMA SelectedStep == TypeOK /\ Selected /\ ScanKeepsLeast /\ [Next]_vars => Selected'
<1> SUFFICES ASSUME TypeOK /\ Selected /\ ScanKeepsLeast, [Next]_vars PROVE Selected'
  OBVIOUS
<1>1. ASSUME NEW w \in Workers,
                 ScanNext(w) \/ SelectLock(w)
      PROVE  Selected'
  <2>1. pc'[w] = "scan" /\ \A v \in Workers : v # w => pc'[v] = pc[v] /\ machine'[v] = machine[v]
    <3>1. CASE ScanNext(w)
      BY <3>1 DEF TypeOK, ScanNext, At
    <3>2. CASE SelectLock(w)
      BY <3>2 DEF TypeOK, SelectLock, Goto
    <3> QED
      BY <1>1, <3>1, <3>2
  <2> QED
    BY <2>1 DEF Selected, Given
<1>2. ASSUME NEW w \in Workers,
                 SelectDone(w)
      PROVE  Selected'
  <2>1. machine[w] \in Machine
    <3>1. pc[w] = "scan" /\ seen[w] # << >>
      BY <1>2 DEF TypeOK, SelectDone, At
    <3>2. PICK i \in DOMAIN seen[w] : machine[w] = online[i]
      BY <3>1 DEF ScanKeepsLeast
    <3>3. i \in 1 .. Len(online)
      BY <1>2 DEF TypeOK, SelectDone
    <3> QED
      BY <3>2, <3>3 DEF TypeOK
  <2> QED
    BY <1>2, <2>1
       DEF TypeOK, Selected, Given, SelectDone, vars, lists, locals, signals, history,
           At, Goto, Lock, Unlock
<1>3. ASSUME NEW w \in Workers,
                 \/ Judge(w) \/ SelectNone(w) \/ Send(w) \/ PostOk(w)
                 \/ PostRefused(w) \/ PostFailed(w) \/ Finish(w) \/ Retry(w)
                 \/ OfflineLock(w) \/ OfflineMachine(w) \/ ShowLock(w) \/ ShowMachines(w)
      PROVE  Selected'
  BY <1>3 DEF TypeOK, Selected, Given,
     Judge, SelectNone, Send, PostOk, PostRefused, PostFailed, Finish, Retry,
     OfflineLock, OfflineMachine, ShowLock, ShowMachines,
     vars, lists, locals, signals, history, At, Goto, Lock, Unlock
<1>4. ASSUME NEW t \in Threads,
                 Deliver(t) \/ OnlineLock(t) \/ OnlineMachine(t)
      PROVE  Selected'
  BY <1>4
     DEF Selected, Deliver, OnlineLock, OnlineMachine, vars, lists, locals, signals,
         history, At, Goto, Lock, Unlock
<1>5. CASE CtrlC \/ UNCHANGED vars
  BY <1>5 DEF Selected, CtrlC, vars, lists, locals, signals, history, At, Goto, Lock, Unlock
<1> QED
  BY <1>1, <1>2, <1>3, <1>4, <1>5
     DEF Next, Work, SelectLeastLoaded, Post, TakeOffline, Recovery

\* A lock step finds the mutex free; the thread that releases it has it.
LEMMA MutexStep == TypeOK /\ MutexOwner /\ [Next]_vars => MutexOwner'
<1> SUFFICES ASSUME TypeOK /\ MutexOwner, [Next]_vars PROVE MutexOwner'
  OBVIOUS
<1>1. ASSUME NEW w \in Workers,
                 SelectLock(w) \/ OfflineLock(w) \/ ShowLock(w)
      PROVE  MutexOwner'
  <2>1. /\ handler[w] = "none" /\ handler' = handler
        /\ mtx = NoThread /\ mtx' = w
        /\ \E l \in {"scan", "offlining", "showing"} : pc' = [pc EXCEPT ![w] = l]
    BY <1>1 DEF SelectLock, OfflineLock, ShowLock, signals, At, Goto, Lock
  <2>2. /\ pc'[w] \in {"scan", "offlining", "showing"}
        /\ \A t \in Workers : t # w => pc'[t] = pc[t]
    BY <2>1 DEF TypeOK
  <2> QED
    BY <2>1, <2>2, ThreadsAssumption DEF MutexOwner, HoldsLock, InSection, Threads
<1>2. ASSUME NEW w \in Workers,
                 \/ SelectNone(w) \/ SelectDone(w) \/ OfflineMachine(w) \/ ShowMachines(w)
      PROVE  MutexOwner'
  <2>1. /\ handler[w] = "none" /\ handler' = handler
        /\ pc[w] \in {"scan", "offlining", "showing"} /\ mtx' = NoThread
        /\ \E l \in {"idle", "inc", "show", "select"} : pc' = [pc EXCEPT ![w] = l]
    BY <1>2 DEF SelectNone, SelectDone, OfflineMachine, ShowMachines, signals, At, Goto, Unlock
  <2>2. /\ pc'[w] \notin {"scan", "offlining", "showing"}
        /\ \A t \in Workers : t # w => pc'[t] = pc[t]
    BY <2>1 DEF TypeOK
  <2> QED
    BY <2>1, <2>2, ThreadsAssumption DEF MutexOwner, HoldsLock, InSection, Threads
<1>3. ASSUME NEW w \in Workers,
                 \/ Judge(w) \/ ScanNext(w) \/ Send(w) \/ PostOk(w)
                 \/ PostRefused(w) \/ PostFailed(w) \/ Finish(w) \/ Retry(w)
      PROVE  MutexOwner'
  <2>1. handler' = handler /\ mtx' = mtx
    BY <1>3 DEF Judge, ScanNext, Send, PostOk, PostRefused, PostFailed, Finish, Retry, signals
  <2>2. \A t \in Workers : pc'[t] \in {"scan", "offlining", "showing"} <=>
                             pc[t] \in {"scan", "offlining", "showing"}
    <3>1. CASE Judge(w) \/ Send(w) \/ PostOk(w)
      BY <3>1 DEF TypeOK, Judge, Send, PostOk, At, Goto
    <3>2. CASE PostRefused(w) \/ PostFailed(w) \/ Finish(w) \/ Retry(w)
      BY <3>2 DEF TypeOK, PostRefused, PostFailed, Finish, Retry, At, Goto
    <3>3. CASE ScanNext(w)
      BY <3>3 DEF ScanNext
    <3> QED
      BY <1>3, <3>1, <3>2, <3>3
  <2> QED
    BY <2>1, <2>2 DEF MutexOwner, HoldsLock, InSection
<1>4. ASSUME NEW t \in Threads,
                 Deliver(t)
      PROVE  MutexOwner'
  <2>1. \A u \in Threads : handler'[u] = "online" <=> handler[u] = "online"
    BY <1>4 DEF TypeOK, Deliver
  <2> QED
    BY <1>4, <2>1 DEF MutexOwner, HoldsLock, InSection, Deliver
<1>5. ASSUME NEW t \in Threads,
                 OnlineLock(t) \/ OnlineMachine(t)
      PROVE  MutexOwner'
  <2>1. /\ \A u \in Threads : u # t => handler'[u] = handler[u]
        /\ pc' = pc
    BY <1>5 DEF TypeOK, OnlineLock, OnlineMachine
  <2>2. CASE OnlineLock(t)
    <3>1. handler'[t] = "online" /\ mtx = NoThread /\ mtx' = t
      BY <2>2 DEF TypeOK, OnlineLock, Lock
    <3> QED
      BY <2>1, <3>1, ThreadsAssumption, SMTT(30) DEF MutexOwner, HoldsLock, InSection
  <2>3. CASE OnlineMachine(t)
    <3>1. handler[t] = "online" /\ handler'[t] = "none" /\ mtx' = NoThread
      BY <2>3 DEF TypeOK, OnlineMachine, Unlock
    <3> QED
      BY <2>1, <3>1, ThreadsAssumption, SMTT(30) DEF MutexOwner, HoldsLock, InSection
  <2> QED
    BY <1>5, <2>2, <2>3
<1>6. CASE CtrlC \/ UNCHANGED vars
  BY <1>6
     DEF MutexOwner, HoldsLock, InSection, CtrlC, vars, lists, locals, signals, history,
         At, Goto, Lock, Unlock
<1> QED
  BY <1>1, <1>2, <1>3, <1>4, <1>5, <1>6
     DEF Next, Work, SelectLeastLoaded, Post, TakeOffline, Recovery

\* A signal goes to a worker only if the main thread is busy with another one.
LEMMA FirstHandlerStep ==
  TypeOK /\ FirstHandlerInMain /\ [Next]_vars => FirstHandlerInMain'
<1> SUFFICES ASSUME TypeOK, FirstHandlerInMain, [Next]_vars PROVE FirstHandlerInMain'
  OBVIOUS
<1>1. ASSUME UNCHANGED signals PROVE FirstHandlerInMain'
  BY <1>1 DEF FirstHandlerInMain, signals
<1>2. ASSUME NEW w \in Workers, Judge(w) \/ Work(w) PROVE UNCHANGED signals
  BY <1>2 DEF Judge, Work, SelectLeastLoaded, SelectLock, SelectNone, ScanNext, SelectDone,
              Send, Post, PostOk, PostRefused, PostFailed, Finish, Retry, TakeOffline,
              OfflineLock, OfflineMachine, ShowLock, ShowMachines
<1>3. CASE CtrlC
  <2>1. presses \in Nat /\ presses' = presses + 1 /\ handler' = handler
    BY <1>3 DEF TypeOK, CtrlC
  <2> QED
    BY <2>1 DEF FirstHandlerInMain
<1>4. ASSUME NEW t \in Threads, Deliver(t) PROVE FirstHandlerInMain'
  <2>1. /\ pending /\ ~pending' /\ presses' = presses /\ presses \in Nat
        /\ handler' = [handler EXCEPT ![t] = "lock"]
        /\ t # Main => handler[Main] # "none"
    BY <1>4 DEF TypeOK, Deliver
  <2>2. presses # 0
    BY <2>1 DEF FirstHandlerInMain
  <2>3. ASSUME presses <= 1 PROVE t = Main
    <3>1. presses = 1
      BY <2>1, <2>2, <2>3
    <3> QED
      BY <2>1, <3>1 DEF FirstHandlerInMain
  <2>4. ASSUME presses <= 1, NEW w \in Workers PROVE handler'[w] = "none"
    BY <2>1, <2>3, <2>4, ThreadsAssumption DEF FirstHandlerInMain
  <2> QED
    BY <2>1, <2>2, <2>4 DEF FirstHandlerInMain
<1>5. ASSUME NEW t \in Threads, Recovery(t) PROVE FirstHandlerInMain'
  <2>1. /\ pending' = pending /\ presses' = presses
        /\ \E h \in {"online", "none"} : handler' = [handler EXCEPT ![t] = h]
        /\ handler[t] # "none"
    BY <1>5 DEF Recovery, OnlineLock, OnlineMachine
  <2>2. \A u \in Threads : handler[u] = "none" => handler'[u] = "none"
    BY <2>1 DEF TypeOK
  <2> QED
    BY <2>1, <2>2 DEF FirstHandlerInMain, Threads
<1>6. CASE UNCHANGED vars
  BY <1>1, <1>6 DEF vars
<1> QED
  BY <1>1, <1>2, <1>3, <1>4, <1>5, <1>6 DEF Next

-----------------------------------------------------------------------------
(* The lists *)

\* Only the two critical sections that move machines change the lists.
LEMMA ListChange ==
  [Next]_vars => \/ \E w \in Workers : OfflineMachine(w)
                 \/ \E t \in Threads : OnlineMachine(t)
                 \/ UNCHANGED lists
BY DEF Next, vars, lists, Work, SelectLeastLoaded, Post, TakeOffline, Recovery,
       Judge, SelectLock, SelectNone, ScanNext, SelectDone, Send, PostOk, PostRefused,
       PostFailed, Finish, Retry, OfflineLock, ShowLock, ShowMachines, CtrlC, Deliver,
       OnlineLock

\* Both need the mutex, which a scanning worker holds.
LEMMA ListsStable ==
  TypeOK /\ MutexOwner /\ [Next]_vars
    => \A w \in Workers : pc[w] = "scan" => UNCHANGED lists
<1> SUFFICES ASSUME TypeOK, MutexOwner, [Next]_vars,
                    NEW w \in Workers, pc[w] = "scan"
             PROVE  UNCHANGED lists
  OBVIOUS
<1>1. mtx = w
  BY DEF MutexOwner, HoldsLock, InSection, Threads
<1>2. ASSUME NEW v \in Workers, OfflineMachine(v) PROVE FALSE
  <2>1. pc[v] = "offlining"
    BY <1>2 DEF OfflineMachine, At
  <2>2. mtx = v
    BY <2>1 DEF MutexOwner, HoldsLock, InSection, Threads
  <2> QED
    BY <1>1, <2>1, <2>2
<1>3. ASSUME NEW t \in Threads, OnlineMachine(t) PROVE FALSE
  <2>1. mtx = t /\ ~InSection(t)
    BY <1>3 DEF MutexOwner, HoldsLock, OnlineMachine
  <2> QED
    BY <1>1, <2>1 DEF InSection
<1> QED
  BY <1>2, <1>3, ListChange

\* A machine moves from one list to the other, never twice.
LEMMA PartitionStep ==
  TypeOK /\ MachinesPartitioned /\ [Next]_vars => MachinesPartitioned'
<1> SUFFICES ASSUME TypeOK, MachinesPartitioned, [Next]_vars
             PROVE  MachinesPartitioned'
  OBVIOUS
<1>1. online \in Seq(Machine) /\ offline \in Seq(Machine)
  BY DEF TypeOK
<1>2. ASSUME NEW w \in Workers, OfflineMachine(w), Contains(online, machine[w])
      PROVE  MachinesPartitioned'
  <2>1. /\ online' = RemoveFirst(online, machine[w])
        /\ offline' = Append(offline, machine[w])
    BY <1>2 DEF OfflineMachine
  <2>2. machine[w] \in ToSet(online)
    BY <1>1, <1>2 DEF Contains, ToSet
  <2>3. machine[w] \in Machine /\ machine[w] \notin ToSet(offline)
    BY <2>2 DEF MachinesPartitioned
  <2>4. IsInjective(online') /\ ToSet(online') = ToSet(online) \ {machine[w]}
    BY <1>1, <1>2, <2>1, RemoveFirstInjective DEF MachinesPartitioned
  <2>5. IsInjective(offline') /\ ToSet(offline') = ToSet(offline) \cup {machine[w]}
    BY <1>1, <2>1, <2>3, ExtendInjective DEF MachinesPartitioned
  <2> QED
    BY <2>2, <2>3, <2>4, <2>5 DEF MachinesPartitioned
<1>3. ASSUME NEW t \in Threads, OnlineMachine(t)
      PROVE  MachinesPartitioned'
  <2>1. online' = online \o offline /\ offline' = << >>
    BY <1>3 DEF OnlineMachine
  <2>2. IsInjective(online') /\ ToSet(online') = ToSet(online) \cup ToSet(offline)
    BY <1>1, <2>1, ConcatInjective DEF MachinesPartitioned
  <2>3. IsInjective(offline') /\ ToSet(offline') = {}
    BY <2>1 DEF IsInjective, ToSet
  <2> QED
    BY <2>2, <2>3 DEF MachinesPartitioned
<1>4. CASE UNCHANGED lists
  BY <1>4 DEF MachinesPartitioned, lists
<1>5. ASSUME NEW w \in Workers, OfflineMachine(w), ~Contains(online, machine[w])
      PROVE  UNCHANGED lists
  BY <1>5 DEF OfflineMachine
<1> QED
  BY <1>2, <1>3, <1>4, <1>5, ListChange

-----------------------------------------------------------------------------
(* The scan *)

\* Only a worker itself changes the locals of its SelectLeastLoaded.
LEMMA ScanChange ==
  ASSUME TypeOK, [Next]_vars, NEW v \in Workers
  PROVE  \/ SelectLock(v) \/ SelectNone(v) \/ ScanNext(v) \/ SelectDone(v)
         \/ /\ UNCHANGED <<machine[v], minLoad[v], seen[v]>>
            /\ pc'[v] = "scan" <=> pc[v] = "scan"
<1> DEFINE Same == /\ UNCHANGED <<machine[v], minLoad[v], seen[v]>>
                   /\ pc'[v] = "scan" <=> pc[v] = "scan"
<1>1. ASSUME NEW w \in Workers, SelectLeastLoaded(w), w # v PROVE Same
  <2>1. CASE SelectLock(w)
    BY <1>1, <2>1 DEF TypeOK, SelectLock, Goto
  <2>2. CASE SelectNone(w)
    BY <1>1, <2>2 DEF TypeOK, SelectNone, Goto, locals
  <2>3. CASE ScanNext(w)
    BY <1>1, <2>3 DEF TypeOK, ScanNext
  <2>4. CASE SelectDone(w)
    BY <1>1, <2>4 DEF TypeOK, SelectDone, Goto
  <2> QED
    BY <1>1, <2>1, <2>2, <2>3, <2>4 DEF SelectLeastLoaded
<1>2. ASSUME NEW w \in Workers, Judge(w) \/ Send(w) \/ Finish(w) \/ Retry(w) PROVE Same
  BY <1>2 DEF TypeOK, Judge, Send, Finish, Retry, At, Goto, locals
<1>3. ASSUME NEW w \in Workers, Post(w) PROVE Same
  BY <1>3 DEF TypeOK, Post, PostOk, PostRefused, PostFailed, At, Goto, locals
<1>4. ASSUME NEW w \in Workers, TakeOffline(w) PROVE Same
  BY <1>4 DEF TypeOK, TakeOffline, OfflineLock, OfflineMachine, ShowLock, ShowMachines,
              At, Goto, locals
<1>5. ASSUME NEW t \in Threads, Deliver(t) \/ Recovery(t) PROVE Same
  BY <1>5 DEF Deliver, Recovery, OnlineLock, OnlineMachine, locals
<1>6. CASE CtrlC \/ UNCHANGED vars
  BY <1>6 DEF CtrlC, vars, locals
<1> QED
  BY <1>1, <1>2, <1>3, <1>4, <1>5, <1>6 DEF Next, Work, SelectLeastLoaded

\* One more load read, whether or not it is a new minimum.
LEMMA ScanNextKeepsLeast ==
  ASSUME TypeOK, ScanInRange, ScanKeepsLeast, NEW v \in Workers, ScanNext(v)
  PROVE  /\ Len(seen'[v]) <= Len(online)
         /\ \E i \in DOMAIN seen'[v] :
              /\ machine'[v] = online[i] /\ minLoad'[v] = seen'[v][i]
              /\ \A j \in DOMAIN seen'[v] :
                   seen'[v][j] >= seen'[v][i] /\ (j < i => seen'[v][j] > seen'[v][i])
<1> DEFINE k == Len(seen[v])
           x == load[online[k + 1]]
           s == seen[v]
           r == seen'[v]
<1>1. /\ s \in Seq(0 .. LoadMod - 1) /\ k \in Nat /\ DOMAIN s = 1 .. k
      /\ \A j \in 1 .. k : s[j] \in 0 .. LoadMod - 1
  <2>1. seen \in [Workers -> Seq(0 .. LoadMod - 1)]
    BY DEF TypeOK
  <2>2. s \in Seq(0 .. LoadMod - 1)
    BY <2>1
  <2> QED
    BY <2>2, LenProperties, ElementOfSeq
<1>2. k + 1 \in 1 .. Len(online)
  BY <1>1 DEF ScanNext, TypeOK
<1>3. x \in 0 .. LoadMod - 1
  <2>1. online[k + 1] \in Machine
    BY <1>2 DEF TypeOK
  <2> QED
    BY <2>1 DEF TypeOK
<1>4. r = Append(s, x)
  BY DEF ScanNext, TypeOK
<1>5. /\ Len(r) = k + 1 /\ DOMAIN r = 1 .. k + 1 /\ r[k + 1] = x
      /\ \A j \in 1 .. k : r[j] = s[j]
  BY <1>1, <1>3, <1>4, AppendProperties
<1>6. Len(r) <= Len(online)
  BY <1>2, <1>5 DEF TypeOK
<1>7. s # << >> =>
        \E i \in 1 .. k : /\ machine[v] = online[i] /\ minLoad[v] = s[i]
                          /\ \A j \in 1 .. k : s[j] >= s[i] /\ (j < i => s[j] > s[i])
  BY <1>1 DEF ScanKeepsLeast, ScanNext, At
<1>8. CASE s = << >> \/ minLoad[v] > x
  <2>1. machine'[v] = online[k + 1] /\ minLoad'[v] = x
    BY <1>8 DEF ScanNext, TypeOK
  <2>2. \A j \in 1 .. k : s[j] > x
    <3>1. CASE s = << >>
      BY <3>1, <1>1
    <3>2. CASE s # << >>
      BY <3>2, <1>1, <1>3, <1>7, <1>8
    <3> QED
      BY <3>1, <3>2
  <2>3. \A j \in 1 .. k + 1 : r[j] >= x /\ (j < k + 1 => r[j] > x)
    <3> SUFFICES ASSUME NEW j \in 1 .. k + 1
                 PROVE  r[j] >= x /\ (j < k + 1 => r[j] > x)
      OBVIOUS
    <3>1. CASE j = k + 1
      BY <3>1, <1>1, <1>3, <1>5
    <3>2. CASE j # k + 1
      <4>1. j \in 1 .. k
        BY <3>2, <1>1
      <4>2. r[j] = s[j] /\ s[j] > x /\ s[j] \in 0 .. LoadMod - 1
        BY <4>1, <1>1, <1>5, <2>2
      <4> QED
        BY <4>2, <1>3
    <3> QED
      BY <3>1, <3>2
  <2>4. k + 1 \in DOMAIN r
    BY <1>1, <1>5
  <2> HIDE DEF k, x, s, r
  <2> QED
    BY <1>5, <1>6, <2>1, <2>3, <2>4 DEF r
<1>9. CASE s # << >> /\ ~(minLoad[v] > x)
  <2>1. machine'[v] = machine[v] /\ minLoad'[v] = minLoad[v]
    BY <1>9 DEF ScanNext, TypeOK
  <2>2. PICK i \in 1 .. k :
          /\ machine[v] = online[i] /\ minLoad[v] = s[i]
          /\ \A j \in 1 .. k : s[j] >= s[i] /\ (j < i => s[j] > s[i])
    BY <1>7, <1>9
  <2>3. x >= s[i]
    BY <1>1, <1>3, <1>9, <2>2
  <2>4. \A j \in 1 .. k + 1 : r[j] >= r[i] /\ (j < i => r[j] > r[i])
    <3> SUFFICES ASSUME NEW j \in 1 .. k + 1
                 PROVE  r[j] >= r[i] /\ (j < i => r[j] > r[i])
      OBVIOUS
    <3>1. r[i] = s[i] /\ i < k + 1
      BY <1>1, <1>5, <2>2
    <3>2. CASE j = k + 1
      BY <3>1, <3>2, <1>1, <1>5, <2>3
    <3>3. CASE j # k + 1
      <4>1. j \in 1 .. k
        BY <3>3, <1>1
      <4> QED
        BY <4>1, <3>1, <1>5, <2>2
    <3> QED
      BY <3>2, <3>3
  <2>5. i \in DOMAIN r /\ r[i] = s[i]
    BY <1>1, <1>5, <2>2
  <2> HIDE DEF k, x, s, r
  <2> QED
    BY <1>5, <1>6, <2>1, <2>2, <2>4, <2>5 DEF r
<1> QED
  BY <1>8, <1>9

\* A scan keeps the first least load it has read, while other threads change
\* the loads (SelectLeastLoaded).
LEMMA ScanStep ==
  TypeOK /\ MutexOwner /\ ScanInRange /\ ScanKeepsLeast /\ [Next]_vars
    => ScanInRange' /\ ScanKeepsLeast'
<1> SUFFICES ASSUME TypeOK, MutexOwner, ScanInRange, ScanKeepsLeast, [Next]_vars,
                    NEW v \in Workers
             PROVE  /\ pc'[v] = "scan" => Len(seen'[v]) <= Len(online')
                    /\ pc'[v] # "scan" => seen'[v] = << >>
                    /\ pc'[v] = "scan" /\ seen'[v] # << >> =>
                         /\ Len(seen'[v]) <= Len(online')
                         /\ \E i \in DOMAIN seen'[v] :
                              /\ machine'[v] = online'[i] /\ minLoad'[v] = seen'[v][i]
                              /\ \A j \in DOMAIN seen'[v] :
                                   /\ seen'[v][j] >= seen'[v][i]
                                   /\ j < i => seen'[v][j] > seen'[v][i]
  BY DEF ScanInRange, ScanKeepsLeast
<1>1. CASE SelectLock(v)
  <2>1. seen'[v] = << >> /\ pc'[v] = "scan" /\ online' = online
    BY <1>1 DEF TypeOK, ScanInRange, SelectLock, At, Goto, lists
  <2> QED
    BY <2>1 DEF TypeOK
<1>2. CASE SelectNone(v)
  <2>1. seen[v] = << >>
    BY <1>2 DEF TypeOK, ScanInRange, SelectNone, At
  <2>2. seen'[v] = << >> /\ pc'[v] = "idle"
    BY <1>2, <2>1 DEF TypeOK, SelectNone, Goto, locals
  <2> QED
    BY <2>2
<1>3. CASE ScanNext(v)
  <2>1. online' = online /\ pc'[v] = "scan"
    BY <1>3 DEF ScanNext, At, lists
  <2> QED
    BY <1>3, <2>1, ScanNextKeepsLeast
<1>4. CASE SelectDone(v)
  <2>1. seen'[v] = << >> /\ pc'[v] = "inc"
    BY <1>4 DEF TypeOK, SelectDone, Goto
  <2> QED
    BY <2>1
<1>5. CASE /\ UNCHANGED <<machine[v], minLoad[v], seen[v]>>
           /\ pc'[v] = "scan" <=> pc[v] = "scan"
  <2>1. CASE pc[v] = "scan"
    <3>1. online' = online
      BY <2>1, ListsStable DEF lists
    <3> QED
      BY <1>5, <2>1, <3>1 DEF ScanInRange, ScanKeepsLeast
  <2>2. CASE pc[v] # "scan"
    BY <1>5, <2>2 DEF ScanInRange
  <2> QED
    BY <2>1, <2>2
<1> QED
  BY <1>1, <1>2, <1>3, <1>4, <1>5, ScanChange

-----------------------------------------------------------------------------
(* The machines that failed *)

\* Every machine that was ever taken off the online list is remembered as such.
LEMMA RememberedStep ==
  TypeOK /\ MachinesPartitioned /\ OfflineRemembered /\ [Next]_vars => OfflineRemembered'
<1> SUFFICES ASSUME TypeOK, MachinesPartitioned, OfflineRemembered, [Next]_vars
             PROVE  OfflineRemembered'
  OBVIOUS
<1>1. ASSUME NEW w \in Workers, OfflineMachine(w), Contains(online, machine[w])
      PROVE  OfflineRemembered'
  <2>1. machine[w] \in ToSet(online)
    BY <1>1 DEF Contains, ToSet, TypeOK
  <2>2. machine[w] \in Machine /\ machine[w] \notin ToSet(offline)
    BY <2>1 DEF MachinesPartitioned
  <2>3. ToSet(offline') = ToSet(offline) \cup {machine[w]}
    <3>1. offline' = Append(offline, machine[w])
      BY <1>1 DEF OfflineMachine
    <3>2. offline \in Seq(Machine) /\ IsInjective(offline)
      BY DEF TypeOK, MachinesPartitioned
    <3> QED
      BY <2>2, <3>1, <3>2, ExtendInjective
  <2>4. everOffline' = everOffline \cup {machine[w]}
    BY <1>1 DEF OfflineMachine
  <2> QED
    BY <2>3, <2>4 DEF OfflineRemembered
<1>2. ASSUME NEW w \in Workers, OfflineMachine(w), ~Contains(online, machine[w])
      PROVE  OfflineRemembered'
  BY <1>2 DEF OfflineMachine, OfflineRemembered, lists
<1>3. ASSUME NEW t \in Threads, OnlineMachine(t)
      PROVE  OfflineRemembered'
  <2>1. offline' = << >>
    BY <1>3 DEF OnlineMachine
  <2> QED
    BY <2>1 DEF OfflineRemembered, ToSet
<1>4. CASE UNCHANGED <<lists, everOffline>>
  BY <1>4 DEF OfflineRemembered, lists
<1>5. (\A w \in Workers : ~OfflineMachine(w)) => UNCHANGED everOffline
  BY DEF Next, vars, history, Work, SelectLeastLoaded, Post, TakeOffline, Recovery,
         Judge, SelectLock, SelectNone, ScanNext, SelectDone, Send, PostOk, PostRefused,
         PostFailed, Finish, Retry, OfflineLock, ShowLock, ShowMachines, CtrlC, Deliver,
         OnlineLock, OnlineMachine
<1> QED
  BY <1>1, <1>2, <1>3, <1>4, <1>5, ListChange

\* A failure is remembered by Judge when OfflineMachine releases the mutex: by
\* then the machine is offline, whoever moved it, and it stays there until
\* OnlineMachine empties the offline list and the memory with it.
LEMMA FailedStep ==
  TypeOK /\ Selected /\ MachinesPartitioned /\ FailedIsOffline /\ [Next]_vars
    => FailedIsOffline'
<1> SUFFICES ASSUME TypeOK, Selected, MachinesPartitioned, FailedIsOffline, [Next]_vars
             PROVE  FailedIsOffline'
  OBVIOUS
<1>1. ASSUME NEW w \in Workers, OfflineMachine(w) PROVE FailedIsOffline'
  <2>1. machine[w] \in Machine
    BY <1>1 DEF Selected, Given, OfflineMachine, At
  <2>2. ToSet(offline') = ToSet(offline) \cup {machine[w]}
    <3>1. CASE Contains(online, machine[w])
      <4>1. machine[w] \in ToSet(online)
        BY <3>1 DEF Contains, ToSet, TypeOK
      <4>2. machine[w] \notin ToSet(offline)
        BY <4>1 DEF MachinesPartitioned
      <4>3. offline' = Append(offline, machine[w])
        BY <1>1, <3>1 DEF OfflineMachine
      <4>4. offline \in Seq(Machine) /\ IsInjective(offline)
        BY DEF TypeOK, MachinesPartitioned
      <4>5. ToSet(Append(offline, machine[w])) = ToSet(offline) \cup {machine[w]}
        BY <2>1, <4>2, <4>4, ExtendInjective
      <4> QED
        BY <4>3, <4>5, Zenon
    <3>2. CASE ~Contains(online, machine[w])
      <4>1. machine[w] \notin ToSet(online)
        <5>1. online \in Seq(Machine)
          BY DEF TypeOK
        <5>2. DOMAIN online = 1 .. Len(online)
          BY <5>1
        <5> QED
          BY <3>2, <5>2, Zenon DEF Contains, ToSet
      <4>2. machine[w] \in ToSet(offline)
        BY <2>1, <4>1 DEF MachinesPartitioned
      <4>3. offline' = offline
        BY <1>1, <3>2 DEF OfflineMachine, lists
      <4> QED
        BY <4>2, <4>3, Zenon
    <3> QED
      BY <3>1, <3>2
  <2>3. /\ failed'[w] = failed[w] \cup {machine[w]}
        /\ \A v \in Workers : v # w => failed'[v] = failed[v]
    BY <1>1 DEF OfflineMachine, TypeOK
  <2> QED
    BY <2>2, <2>3 DEF FailedIsOffline
<1>2. ASSUME NEW t \in Threads, OnlineMachine(t) PROVE FailedIsOffline'
  BY <1>2 DEF OnlineMachine, FailedIsOffline
<1>3. ASSUME NEW w \in Workers, Judge(w) PROVE FailedIsOffline'
  BY <1>3 DEF Judge, FailedIsOffline, TypeOK, lists
<1>4. CASE UNCHANGED <<lists, failed>>
  BY <1>4 DEF FailedIsOffline, lists
<1> QED
  <2>1. \/ \E w \in Workers : OfflineMachine(w) \/ Judge(w)
        \/ \E t \in Threads : OnlineMachine(t)
        \/ UNCHANGED <<lists, failed>>
    BY DEF Next, vars, history, Work, SelectLeastLoaded, Post, TakeOffline, Recovery,
           SelectLock, SelectNone, ScanNext, SelectDone, Send, PostOk, PostRefused,
           PostFailed, Finish, Retry, OfflineLock, ShowLock, ShowMachines, CtrlC, Deliver,
           OnlineLock
  <2> QED
    BY <2>1, <1>1, <1>2, <1>3, <1>4

\* A scan selects from the online list, where no machine of failed[w] is.
LEMMA NoRetryStep ==
  TypeOK /\ MachinesPartitioned /\ ScanKeepsLeast /\ FailedIsOffline /\ NoRetryOnFailed
    /\ [Next]_vars => NoRetryOnFailed'
<1> SUFFICES ASSUME TypeOK, MachinesPartitioned, ScanKeepsLeast, FailedIsOffline,
                    NoRetryOnFailed, [Next]_vars, NEW v \in Workers,
                    pc'[v] \in {"inc", "post"}
             PROVE  machine'[v] \notin failed'[v]
  BY DEF NoRetryOnFailed
<1>1. CASE SelectDone(v)
  <2>1. pc[v] = "scan" /\ seen[v] # << >>
    BY <1>1 DEF TypeOK, SelectDone, At
  <2>2. PICK i \in DOMAIN seen[v] : machine[v] = online[i]
    BY <2>1 DEF ScanKeepsLeast
  <2>3. i \in DOMAIN online
    BY <1>1 DEF TypeOK, SelectDone
  <2>4. machine[v] \in ToSet(online)
    BY <2>2, <2>3 DEF ToSet
  <2> QED
    BY <1>1, <2>4 DEF SelectDone, history, MachinesPartitioned, FailedIsOffline
<1>2. CASE pc[v] \in {"inc", "post"} /\ UNCHANGED machine[v] /\ failed'[v] \subseteq failed[v]
  BY <1>2 DEF NoRetryOnFailed
<1>3. SelectDone(v) \/ (/\ pc[v] \in {"inc", "post"} /\ UNCHANGED machine[v]
                        /\ failed'[v] \subseteq failed[v])
  <2> DEFINE Same == /\ pc[v] \in {"inc", "post"} /\ UNCHANGED machine[v]
                     /\ failed'[v] \subseteq failed[v]
  <2>1. ASSUME NEW w \in Workers, SelectLock(w) \/ SelectNone(w) \/ ScanNext(w) PROVE Same
    BY <2>1 DEF TypeOK, SelectLock, SelectNone, ScanNext, At, Goto, locals, history
  <2>2. ASSUME NEW w \in Workers, SelectDone(w), w # v PROVE Same
    BY <2>2 DEF TypeOK, SelectDone, Goto, history
  <2>3. ASSUME NEW w \in Workers, Judge(w) \/ Send(w) PROVE Same
    BY <2>3 DEF TypeOK, Judge, Send, At, Goto, locals, history
  <2>4. ASSUME NEW w \in Workers, Post(w) \/ Finish(w) \/ Retry(w) PROVE Same
    BY <2>4 DEF TypeOK, Post, PostOk, PostRefused, PostFailed, Finish, Retry, Goto,
                locals, history
  <2>5. ASSUME NEW w \in Workers, TakeOffline(w) PROVE Same
    BY <2>5 DEF TypeOK, TakeOffline, OfflineLock, OfflineMachine, ShowLock, ShowMachines,
                Goto, locals, history
  <2>6. ASSUME NEW t \in Threads, Deliver(t) \/ Recovery(t) PROVE Same
    BY <2>6 DEF Deliver, Recovery, OnlineLock, OnlineMachine, locals, history
  <2>7. CASE CtrlC \/ UNCHANGED vars
    BY <2>7 DEF CtrlC, vars, locals, history
  <2> QED
    BY <2>1, <2>2, <2>3, <2>4, <2>5, <2>6, <2>7 DEF Next, Work, SelectLeastLoaded
<1> QED
  BY <1>1, <1>2, <1>3

-----------------------------------------------------------------------------
(* The loads *)

FlightPCs == {"post", "ok", "refused", "offline", "offlining"}

\* What a step does to the load of a machine and to its submissions in flight,
\* as long as the machine was never taken offline.
LEMMA FlightChange ==
  ASSUME TypeOK, Selected, MachinesPartitioned, OfflineRemembered, [Next]_vars,
         NEW m \in Machine, m \notin everOffline'
  PROVE  \/ load'[m] = load[m] /\ InFlight(m)' = InFlight(m)
         \/ \E w \in Workers \ InFlight(m) :
              load'[m] = (load[m] + 1) % LoadMod /\ InFlight(m)' = InFlight(m) \cup {w}
         \/ \E w \in InFlight(m) :
              /\ load'[m] = (load[m] + LoadMod - 1) % LoadMod
              /\ InFlight(m)' = InFlight(m) \ {w}
<1> DEFINE Same == load'[m] = load[m] /\ InFlight(m)' = InFlight(m)
           More == \E w \in Workers \ InFlight(m) :
                      /\ load'[m] = (load[m] + 1) % LoadMod
                      /\ InFlight(m)' = InFlight(m) \cup {w}
           Less == \E w \in InFlight(m) :
                      /\ load'[m] = (load[m] + LoadMod - 1) % LoadMod
                      /\ InFlight(m)' = InFlight(m) \ {w}
<1> USE DEF InFlight
<1>1. ASSUME NEW w \in Workers, Judge(w) PROVE Same
  BY <1>1 DEF TypeOK, Judge, At, Goto, locals
<1>2. ASSUME NEW w \in Workers, SelectLeastLoaded(w) PROVE Same
  <2>1. /\ load' = load
        /\ pc[w] \notin FlightPCs /\ pc'[w] \notin FlightPCs
        /\ \A v \in Workers : v # w => pc'[v] = pc[v] /\ machine'[v] = machine[v]
    <3>1. CASE SelectLock(w)
      BY <3>1 DEF TypeOK, FlightPCs, SelectLock, At, Goto
    <3>2. CASE SelectNone(w)
      BY <3>2 DEF TypeOK, FlightPCs, SelectNone, At, Goto, locals
    <3>3. CASE ScanNext(w)
      BY <3>3 DEF TypeOK, FlightPCs, ScanNext, At
    <3>4. CASE SelectDone(w)
      BY <3>4 DEF TypeOK, FlightPCs, SelectDone, At, Goto
    <3> QED
      BY <1>2, <3>1, <3>2, <3>3, <3>4 DEF SelectLeastLoaded
  <2> QED
    BY <2>1 DEF FlightPCs
<1>3. ASSUME NEW w \in Workers, Send(w) PROVE Same \/ More
  <2>1. /\ pc[w] = "inc" /\ pc'[w] = "post" /\ machine' = machine
        /\ \A v \in Workers : v # w => pc'[v] = pc[v]
    BY <1>3 DEF TypeOK, Send, At, Goto, locals
  <2>2. load' = [load EXCEPT ![machine[w]] = (load[machine[w]] + 1) % LoadMod]
    BY <1>3 DEF Send, IncLoad
  <2>3. CASE machine[w] = m
    <3>1. w \in Workers \ InFlight(m) /\ InFlight(m)' = InFlight(m) \cup {w}
      BY <2>1, <2>3
    <3>2. load'[m] = (load[m] + 1) % LoadMod
      BY <2>2, <2>3 DEF TypeOK
    <3> QED
      BY <3>1, <3>2
  <2>4. CASE machine[w] # m
    <3>1. InFlight(m)' = InFlight(m)
      BY <2>1, <2>4
    <3>2. load'[m] = load[m]
      BY <2>2, <2>4 DEF TypeOK
    <3> QED
      BY <3>1, <3>2
  <2> QED
    BY <2>3, <2>4
<1>4. ASSUME NEW w \in Workers, Post(w) PROVE Same
  BY <1>4 DEF TypeOK, Post, PostOk, PostRefused, PostFailed, At, Goto, locals
<1>5. ASSUME NEW w \in Workers, Finish(w) \/ Retry(w) PROVE Same \/ Less
  <2>1. /\ pc[w] \in FlightPCs /\ pc'[w] \notin FlightPCs /\ machine' = machine
        /\ \A v \in Workers : v # w => pc'[v] = pc[v]
    BY <1>5 DEF TypeOK, FlightPCs, Finish, Retry, At, Goto, locals
  <2>2. load' = [load EXCEPT ![machine[w]] = (load[machine[w]] + LoadMod - 1) % LoadMod]
    BY <1>5 DEF Finish, Retry, DecLoad
  <2>3. CASE machine[w] = m
    <3>1. w \in InFlight(m) /\ InFlight(m)' = InFlight(m) \ {w}
      BY <2>1, <2>3 DEF FlightPCs
    <3>2. load'[m] = (load[m] + LoadMod - 1) % LoadMod
      BY <2>2, <2>3 DEF TypeOK
    <3> QED
      BY <3>1, <3>2
  <2>4. CASE machine[w] # m
    <3>1. InFlight(m)' = InFlight(m)
      BY <2>1, <2>4 DEF FlightPCs
    <3>2. load'[m] = load[m]
      BY <2>2, <2>4 DEF TypeOK
    <3> QED
      BY <3>1, <3>2
  <2> QED
    BY <2>3, <2>4
<1>6. ASSUME NEW w \in Workers, OfflineLock(w) \/ ShowLock(w) \/ ShowMachines(w) PROVE Same
  BY <1>6 DEF TypeOK, OfflineLock, ShowLock, ShowMachines, At, Goto, locals
<1>7. ASSUME NEW w \in Workers, OfflineMachine(w) PROVE Same
  <2>1. machine[w] \in Machine
    BY <1>7 DEF Selected, Given, OfflineMachine, At
  <2>2. machine[w] # m
    <3>1. CASE Contains(online, machine[w])
      <4>1. everOffline' = everOffline \cup {machine[w]}
        BY <1>7, <3>1 DEF OfflineMachine
      <4> QED
        BY <4>1
    <3>2. CASE ~Contains(online, machine[w])
      <4>1. machine[w] \notin ToSet(online)
        BY <3>2, ContainsIsMember DEF TypeOK
      <4>2. machine[w] \in everOffline
        BY <2>1, <4>1 DEF MachinesPartitioned, OfflineRemembered
      <4> QED
        BY <1>7, <3>2, <4>2 DEF OfflineMachine
    <3> QED
      BY <3>1, <3>2
  <2>3. /\ pc'[w] = "show" /\ machine' = machine
        /\ \A v \in Workers : v # w => pc'[v] = pc[v]
    BY <1>7 DEF TypeOK, OfflineMachine, Goto, locals
  <2>4. load'[m] = load[m]
    BY <1>7, <2>2 DEF TypeOK, OfflineMachine, ResetLoad
  <2> QED
    BY <2>2, <2>3, <2>4
<1>8. ASSUME NEW t \in Threads, Deliver(t) \/ Recovery(t) PROVE Same
  BY <1>8 DEF Deliver, Recovery, OnlineLock, OnlineMachine, locals
<1>9. CASE CtrlC \/ UNCHANGED vars
  BY <1>9 DEF CtrlC, vars, locals
<1>10. Same \/ More \/ Less
  <2>1. ASSUME NEW w \in Workers, Work(w) PROVE Same \/ More \/ Less
    BY <2>1, <1>2, <1>3, <1>4, <1>5, <1>6, <1>7 DEF Work, TakeOffline
  <2> QED
    BY <2>1, <1>1, <1>8, <1>9 DEF Next
<1> QED
  BY <1>10

\* A load never wraps: a machine has at most one submission per worker.
LEMMA LoadStep ==
  TypeOK /\ Selected /\ MachinesPartitioned /\ OfflineRemembered /\ LoadExact /\ [Next]_vars
    => LoadExact'
<1> SUFFICES ASSUME TypeOK, Selected, MachinesPartitioned, OfflineRemembered, LoadExact,
                    [Next]_vars, NEW m \in Machine, m \notin everOffline'
             PROVE  load'[m] = Cardinality(InFlight(m)')
  BY DEF LoadExact
<1>1. m \notin everOffline
  <2>1. everOffline \subseteq everOffline'
    BY DEF Next, vars, history, Work, SelectLeastLoaded, Post, TakeOffline, Recovery,
           Judge, SelectLock, SelectNone, ScanNext, SelectDone, Send, PostOk, PostRefused,
           PostFailed, Finish, Retry, OfflineLock, OfflineMachine, ShowLock, ShowMachines,
           CtrlC, Deliver, OnlineLock, OnlineMachine
  <2> QED
    BY <2>1
<1>2. load[m] = Cardinality(InFlight(m)) /\ load[m] \in 0 .. LoadMod - 1
  BY <1>1 DEF LoadExact, TypeOK
<1>3. \A F \in SUBSET Workers : /\ IsFiniteSet(F) /\ Cardinality(F) \in Nat
                               /\ Cardinality(F) < LoadMod
  <2> SUFFICES ASSUME NEW F \in SUBSET Workers
               PROVE  /\ IsFiniteSet(F) /\ Cardinality(F) \in Nat
                      /\ Cardinality(F) < LoadMod
    OBVIOUS
  <2>1. IsFiniteSet(F) /\ Cardinality(F) <= Cardinality(Workers)
    BY ThreadsAssumption, FS_Subset
  <2>2. Cardinality(F) \in Nat
    BY <2>1, FS_CardinalityType
  <2> QED
    BY <2>1, <2>2, LoadModPositive, LoadAssumption
<1>4. InFlight(m) \in SUBSET Workers /\ InFlight(m)' \in SUBSET Workers
  BY DEF InFlight
<1>5. \A x \in 0 .. LoadMod - 1 : x % LoadMod = x
  BY LoadModPositive
<1>6. CASE load'[m] = load[m] /\ InFlight(m)' = InFlight(m)
  BY <1>2, <1>6
<1>7. ASSUME NEW w \in Workers \ InFlight(m),
             load'[m] = (load[m] + 1) % LoadMod, InFlight(m)' = InFlight(m) \cup {w}
      PROVE  load'[m] = Cardinality(InFlight(m)')
  <2>1. Cardinality(InFlight(m)') = Cardinality(InFlight(m)) + 1
    BY <1>3, <1>4, <1>7, FS_AddElement
  <2>2. load[m] + 1 \in 0 .. LoadMod - 1
    BY <1>2, <1>3, <1>4, <2>1, LoadModPositive
  <2> QED
    BY <1>2, <1>5, <1>7, <2>1, <2>2
<1>8. ASSUME NEW w \in InFlight(m),
             load'[m] = (load[m] + LoadMod - 1) % LoadMod, InFlight(m)' = InFlight(m) \ {w}
      PROVE  load'[m] = Cardinality(InFlight(m)')
  <2>1. Cardinality(InFlight(m)') = Cardinality(InFlight(m)) - 1
    BY <1>3, <1>4, <1>8, FS_RemoveElement
  <2>2. load[m] - 1 \in 0 .. LoadMod - 1
    BY <1>2, <1>3, <1>4, <2>1, LoadModPositive
  <2>3. \A x \in 0 .. LoadMod - 1 : (x + LoadMod) % LoadMod = x
    BY LoadModPositive
  <2>4. (load[m] + LoadMod - 1) = (load[m] - 1) + LoadMod
    BY <1>2, LoadModPositive
  <2>5. (load[m] + LoadMod - 1) % LoadMod = load[m] - 1
    BY <2>2, <2>3, <2>4
  <2> QED
    BY <1>2, <1>8, <2>1, <2>5
<1> QED
  BY <1>6, <1>7, <1>8, FlightChange

-----------------------------------------------------------------------------
(* The answers *)

\* Only PostOk writes an answer, and Judge clears it.
LEMMA AnswerStep == TypeOK /\ AnswerKnown /\ [Next]_vars => AnswerKnown'
<1> SUFFICES ASSUME TypeOK, AnswerKnown, [Next]_vars PROVE AnswerKnown'
  OBVIOUS
<1>1. ASSUME NEW w \in Workers, Judge(w) \/ PostOk(w) PROVE AnswerKnown'
  <2>1. CASE Judge(w)
    BY <2>1 DEF TypeOK, AnswerKnown, Judge, At, Goto, locals
  <2>2. CASE PostOk(w)
    BY <2>2 DEF TypeOK, AnswerKnown, PostOk, At, Goto, locals
  <2> QED
    BY <1>1, <2>1, <2>2
<1>2. ASSUME NEW w \in Workers, SelectLeastLoaded(w) PROVE AnswerKnown'
  <2>1. /\ pc[w] \in {"select", "scan"} /\ outJson' = outJson
        /\ pc'[w] # "ok"
        /\ \A v \in Workers : v # w => pc'[v] = pc[v] /\ machine'[v] = machine[v]
    <3>1. CASE SelectLock(w)
      BY <3>1 DEF TypeOK, SelectLock, At, Goto
    <3>2. CASE SelectNone(w)
      BY <3>2 DEF TypeOK, SelectNone, At, Goto, locals
    <3>3. CASE ScanNext(w)
      BY <3>3 DEF TypeOK, ScanNext, At
    <3>4. CASE SelectDone(w)
      BY <3>4 DEF TypeOK, SelectDone, At, Goto
    <3> QED
      BY <1>2, <3>1, <3>2, <3>3, <3>4 DEF SelectLeastLoaded
  <2> QED
    BY <2>1 DEF AnswerKnown
<1>3. ASSUME NEW w \in Workers, Send(w) \/ PostRefused(w) \/ PostFailed(w) PROVE AnswerKnown'
  BY <1>3 DEF TypeOK, AnswerKnown, Send, PostRefused, PostFailed, At, Goto, locals
<1>4. ASSUME NEW w \in Workers, Finish(w) \/ Retry(w) PROVE AnswerKnown'
  BY <1>4 DEF TypeOK, AnswerKnown, Finish, Retry, At, Goto, locals
<1>5. ASSUME NEW w \in Workers, TakeOffline(w) PROVE AnswerKnown'
  <2>1. /\ pc[w] \in {"offline", "offlining", "show", "showing"}
        /\ pc'[w] # "ok" /\ UNCHANGED <<outJson, machine>>
        /\ \A v \in Workers : v # w => pc'[v] = pc[v]
    BY <1>5 DEF TypeOK, TakeOffline, OfflineLock, OfflineMachine, ShowLock, ShowMachines,
                At, Goto, locals
  <2> QED
    BY <2>1 DEF AnswerKnown
<1>6. ASSUME NEW t \in Threads, Deliver(t) \/ Recovery(t) PROVE AnswerKnown'
  BY <1>6 DEF AnswerKnown, Deliver, Recovery, OnlineLock, OnlineMachine, locals
<1>7. CASE CtrlC \/ UNCHANGED vars
  BY <1>7 DEF AnswerKnown, CtrlC, vars, locals
<1> QED
  BY <1>1, <1>2, <1>3, <1>4, <1>5, <1>6, <1>7 DEF Next, Work, Post

-----------------------------------------------------------------------------
(* The theorems *)

\* IInv is inductive.
THEOREM Invariance == Spec => []IInv
<1>1. IInv /\ [Next]_vars => IInv'
  BY TypeStep, FirstHandlerStep, SelectedStep, AnswerStep, MutexStep, PartitionStep,
     ScanStep, RememberedStep, FailedStep, NoRetryStep, LoadStep DEF IInv
<1> QED
  BY InitInv, <1>1, PTL DEF Spec

\* Every variable keeps its type, for any number of threads and machines.
THEOREM TypeCorrect == Spec => []TypeOK
BY Invariance, PTL DEF IInv

\* No interleaving of OfflineMachine and OnlineMachine loses a machine or has it
\* twice in the lists.
THEOREM PartitionCorrect == Spec => []MachinesPartitioned
BY Invariance, PTL DEF IInv

\* A machine that was never offline has a load equal to its submissions.
THEOREM LoadCorrect == Spec => []LoadExact
BY Invariance, PTL DEF IInv

\* The scan knows the first least load among those it read.
THEOREM ScanCorrect == Spec => []ScanKeepsLeast
BY Invariance, PTL DEF IInv

\* A submission does not return to a machine that failed it before a recovery.
THEOREM RetryCorrect == Spec => []NoRetryOnFailed
BY Invariance, PTL DEF IInv

\* Until ctrl-C is pressed again no thread waits for a mutex that it has itself.
THEOREM FirstPressCorrect == Spec => []FirstPressBlocksNobody
<1>1. IInv => FirstPressBlocksNobody
  <2> SUFFICES ASSUME IInv, presses <= 1, mtx # NoThread, handler[mtx] = "lock"
               PROVE  FALSE
    BY DEF FirstPressBlocksNobody
  <2>1. mtx \in Threads /\ HoldsLock(mtx)
    BY DEF IInv, TypeOK, MutexOwner
  <2>2. mtx \in Workers
    BY <2>1 DEF HoldsLock, InSection
  <2> QED
    BY <2>2 DEF IInv, FirstHandlerInMain
<1> QED
  BY <1>1, Invariance, PTL

\* Neither a worker nor the signal handler changes the lists under a scan.
THEOREM ListsStableCorrect == Spec => ListsStableDuringScan
<1>1. IInv /\ [Next]_vars
        => [\A w \in Workers : pc[w] = "scan" => UNCHANGED lists]_vars
  BY ListsStable DEF IInv
<1> QED
  BY Invariance, <1>1, PTL DEF Spec, ListsStableDuringScan

=============================================================================
