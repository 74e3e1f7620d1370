----------------------------- MODULE LoadBalance -----------------------------
(***************************************************************************)
(* The judging core of oj_server (oj_server/oj_control.hpp and the SIGINT  *)
(* handler of oj_server/oj_server.cc).  Every HTTP worker thread runs      *)
(* Control::Judge: it picks the least loaded online compile server, posts  *)
(* the submission to it, and on failure takes the server offline and tries *)
(* again.  Ctrl-C puts every offline server back online, from a signal     *)
(* handler that takes the same non-recursive mutex as the workers.         *)
(*                                                                         *)
(* One critical section of LoadBalance::_mtx is a lock step followed by    *)
(* one step per read of a shared load, because Machine::_load has a mutex  *)
(* of its own and changes while _mtx is held by another thread.            *)
(***************************************************************************)
EXTENDS Naturals, SequencesExt

CONSTANTS
  Workers,      \* the threads of the HTTP server's pool, each may run Judge
  Main,         \* the thread in Server::listen: it runs no Judge
  NoThread,     \* the owner of a free mutex
  NumMachines,  \* how many lines of service_machine.conf are valid
  LoadMod,      \* number of values of the uint64_t _load (2^64 in the build)
  MayRefuse,    \* machines that may answer with a status other than 200
  MaxPresses,   \* bound: how often the operator presses ctrl-C
  Empty         \* the out_json of a Judge that found no machine online

Machine == 0 .. NumMachines - 1
Threads == Workers \cup {Main}

ASSUME ThreadsAssumption ==
  /\ IsFiniteSet(Workers)
  /\ Main \notin Workers
  /\ NoThread \notin Threads
ASSUME MachinesAssumption ==
  /\ NumMachines \in Nat
  /\ MayRefuse \subseteq Machine
  /\ Empty \notin Machine
\* 2^64 values are more than there are threads to increment a load.
ASSUME LoadAssumption == LoadMod \in Nat /\ Cardinality(Workers) < LoadMod
ASSUME PressesAssumption == MaxPresses \in Nat

VARIABLES
  load,       \* Machine::_load of every machine
  online,     \* LoadBalance::_online
  offline,    \* LoadBalance::_offline
  mtx,        \* owner of LoadBalance::_mtx, or NoThread
  pc,         \* where a worker is in Judge
  machine,    \* the local machine_id of a worker's Judge
  minLoad,    \* the local min_load of its SelectLeastLoaded
  seen,       \* the loads that scan has read; its length is the loop index
  outJson,    \* what Judge hands to the HTTP response: the machine that answered
  handler,    \* where a thread is in the SIGINT handler
  pending,    \* a SIGINT is pending for the process (standard signals do not queue)
  presses,    \* how often ctrl-C was pressed
  everOffline, \* history: machines OfflineMachine has ever taken off the list
  failed      \* history: machines this Judge saw fail since the last recovery

lists  == <<online, offline>>
locals == <<machine, minLoad, seen>>
signals == <<handler, pending, presses>>
history == <<everOffline, failed>>
vars == <<load, lists, mtx, pc, locals, outJson, signals, history>>

-----------------------------------------------------------------------------
(* Initial state *)

\* LoadConf appends the index of every valid line of the configuration.
LoadConf == [i \in 1 .. NumMachines |-> i - 1]

Init ==
  /\ load = [m \in Machine |-> 0]
  /\ online = LoadConf
  /\ offline = << >>
  /\ mtx = NoThread
  /\ pc = [w \in Workers |-> "idle"]
  /\ machine = [w \in Workers |-> 0]
  /\ minLoad = [w \in Workers |-> 0]
  /\ seen = [w \in Workers |-> << >>]
  /\ outJson = [w \in Workers |-> Empty]
  /\ handler = [t \in Threads |-> "none"]
  /\ pending = FALSE
  /\ presses = 0
  /\ everOffline = {}
  /\ failed = [w \in Workers |-> {}]

-----------------------------------------------------------------------------
(* Machine: each operation is atomic under the machine's own mutex.  The
   arithmetic is that of an unsigned integer with LoadMod values. *)

IncLoad(m) == load' = [load EXCEPT ![m] = (@ + 1) % LoadMod]
\* Mutant: the load as a signed integer.
DecLoadSigned(m) == load' = [load EXCEPT ![m] = @ - 1]
DecLoad(m) == load' = [load EXCEPT ![m] = (@ + LoadMod - 1) % LoadMod]
ResetLoad(m) == load' = [load EXCEPT ![m] = 0]

\* The worker is at l and no signal handler runs on top of it.
At(w, l) == pc[w] = l /\ handler[w] = "none"
Goto(w, l) == pc' = [pc EXCEPT ![w] = l]
Lock(t) == mtx = NoThread /\ mtx' = t
Unlock == mtx' = NoThread

-----------------------------------------------------------------------------
(* Control::Judge *)

\* A request for /judge/<id> reaches a worker, which enters the while loop.
Judge(w) ==
  /\ At(w, "idle")
  /\ Goto(w, "select")
  /\ outJson' = [outJson EXCEPT ![w] = Empty]
  /\ failed' = [failed EXCEPT ![w] = {}]
  /\ UNCHANGED <<load, lists, mtx, locals, signals, everOffline>>

\* SelectLeastLoaded takes _mtx; machine_id is 0 in a new round of the loop.
SelectLock(w) ==
  /\ At(w, "select")
  /\ Lock(w)
  /\ Goto(w, "scan")
  /\ machine' = [machine EXCEPT ![w] = 0]
  /\ minLoad' = [minLoad EXCEPT ![w] = 0]
  /\ UNCHANGED <<load, lists, seen, outJson, signals, history>>

\* No machine is online: SelectLeastLoaded returns false and Judge breaks out
\* of its loop with out_json still empty.
SelectNone(w) ==
  /\ At(w, "scan")
  /\ online = << >>
  /\ Unlock
  /\ Goto(w, "idle")
  /\ UNCHANGED <<load, lists, locals, outJson, signals, history>>

\* Mutant: the new minimum is not remembered.
ScanNextKeepsMin(w) ==
  /\ At(w, "scan")
  /\ Len(seen[w]) < Len(online)
  /\ LET candidate == online[Len(seen[w]) + 1]
     IN  /\ seen' = [seen EXCEPT ![w] = Append(@, load[candidate])]
         /\ IF seen[w] = << >> \/ minLoad[w] > load[candidate]
            THEN machine' = [machine EXCEPT ![w] = candidate]
            ELSE UNCHANGED machine
         /\ minLoad' = IF seen[w] = << >> THEN [minLoad EXCEPT ![w] = load[candidate]]
                       ELSE minLoad
  /\ UNCHANGED <<load, lists, mtx, pc, outJson, signals, history>>

\* The load of one more online machine is read and compared with min_load.
ScanNext(w) ==
  /\ At(w, "scan")
  /\ Len(seen[w]) < Len(online)
  /\ LET candidate == online[Len(seen[w]) + 1]
     IN  /\ seen' = [seen EXCEPT ![w] = Append(@, load[candidate])]
         /\ IF seen[w] = << >> \/ minLoad[w] > load[candidate]
            THEN /\ machine' = [machine EXCEPT ![w] = candidate]
                 /\ minLoad' = [minLoad EXCEPT ![w] = load[candidate]]
            ELSE UNCHANGED <<machine, minLoad>>
  /\ UNCHANGED <<load, lists, mtx, pc, outJson, signals, history>>

\* The scan is over: _mtx is released, and the load is not yet incremented.
SelectDone(w) ==
  /\ At(w, "scan")
  /\ online # << >>
  /\ Len(seen[w]) = Len(online)
  /\ Unlock
  /\ Goto(w, "inc")
  /\ seen' = [seen EXCEPT ![w] = << >>]
  /\ UNCHANGED <<load, lists, machine, minLoad, outJson, signals, history>>

\* machine->IncLoad(), then the request is on its way.
Send(w) ==
  /\ At(w, "inc")
  /\ IncLoad(machine[w])
  /\ Goto(w, "post")
  /\ UNCHANGED <<lists, mtx, locals, outJson, signals, history>>

\* cli.Post returns a response with status 200; its body is the answer.  That Post
\* or the copy of the body throws, and Judge is left without DecLoad, is not modelled.
PostOk(w) ==
  /\ At(w, "post")
  /\ outJson' = [outJson EXCEPT ![w] = machine[w]]
  /\ Goto(w, "ok")
  /\ UNCHANGED <<load, lists, mtx, locals, signals, history>>

\* cli.Post returns a response with another status.
PostRefused(w) ==
  /\ At(w, "post")
  /\ machine[w] \in MayRefuse
  /\ Goto(w, "refused")
  /\ UNCHANGED <<load, lists, mtx, locals, outJson, signals, history>>

\* cli.Post returns no response: connection refused, reset, or timed out.
PostFailed(w) ==
  /\ At(w, "post")
  /\ Goto(w, "offline")
  /\ UNCHANGED <<load, lists, mtx, locals, outJson, signals, history>>

\* DecLoad after an answer ends Judge.
Finish(w) ==
  /\ At(w, "ok")
  /\ DecLoad(machine[w])
  /\ Goto(w, "idle")
  /\ UNCHANGED <<lists, mtx, locals, outJson, signals, history>>

\* Mutant: only an answer undoes the increment.
RetryWithoutDecLoad(w) ==
  /\ At(w, "refused")
  /\ Goto(w, "select")
  /\ UNCHANGED <<load, lists, mtx, locals, outJson, signals, history>>

\* DecLoad after a refusal, and another round of the loop.
Retry(w) ==
  /\ At(w, "refused")
  /\ DecLoad(machine[w])
  /\ Goto(w, "select")
  /\ UNCHANGED <<lists, mtx, locals, outJson, signals, history>>

-----------------------------------------------------------------------------
(* LoadBalance::OfflineMachine and ShowMachines, after a failed Post *)

OfflineLock(w) ==
  /\ At(w, "offline")
  /\ Lock(w)
  /\ Goto(w, "offlining")
  /\ UNCHANGED <<load, lists, locals, outJson, signals, history>>

\* Mutant: the machine is moved although it is not on the online list any more.
OfflineMachineUnchecked(w) ==
  /\ At(w, "offlining")
  /\ ResetLoad(machine[w])
  /\ online' = RemoveFirst(online, machine[w])
  /\ offline' = Append(offline, machine[w])
  /\ everOffline' = everOffline \cup {machine[w]}
  /\ failed' = [failed EXCEPT ![w] = @ \cup {machine[w]}]
  /\ Unlock
  /\ Goto(w, "show")
  /\ UNCHANGED <<locals, outJson, signals>>

\* Mutant: the load is reset and the machine stays online.
OfflineMachineResetOnly(w) ==
  /\ At(w, "offlining")
  /\ ResetLoad(machine[w])
  /\ everOffline' = everOffline \cup {machine[w]}
  /\ failed' = [failed EXCEPT ![w] = @ \cup {machine[w]}]
  /\ Unlock
  /\ Goto(w, "show")
  /\ UNCHANGED <<lists, locals, outJson, signals>>

\* The machine is moved to the offline list, unless another thread did so
\* since it was selected: then nothing changes, the load included.
OfflineMachine(w) ==
  /\ At(w, "offlining")
  /\ IF Contains(online, machine[w])
     THEN /\ ResetLoad(machine[w])
          /\ online' = RemoveFirst(online, machine[w])
          /\ offline' = Append(offline, machine[w])
          /\ everOffline' = everOffline \cup {machine[w]}
     ELSE UNCHANGED <<load, lists, everOffline>>
  /\ failed' = [failed EXCEPT ![w] = @ \cup {machine[w]}]
  /\ Unlock
  /\ Goto(w, "show")
  /\ UNCHANGED <<locals, outJson, signals>>

ShowLock(w) ==
  /\ At(w, "show")
  /\ Lock(w)
  /\ Goto(w, "showing")
  /\ UNCHANGED <<load, lists, locals, outJson, signals, history>>

\* The lists are printed with _mtx held; then another round of the loop.
ShowMachines(w) ==
  /\ At(w, "showing")
  /\ Unlock
  /\ Goto(w, "select")
  /\ UNCHANGED <<load, lists, locals, outJson, signals, history>>

-----------------------------------------------------------------------------
(* SIGINT: Recovery, Control::RecoveryMachine, LoadBalance::OnlineMachine *)

CtrlC ==
  /\ presses < MaxPresses
  /\ presses' = presses + 1
  /\ pending' = TRUE
  /\ UNCHANGED <<load, lists, mtx, pc, locals, outJson, handler, history>>

\* Mutant: any thread may be interrupted.
DeliverAnywhere(t) ==
  /\ pending
  /\ handler[t] = "none"
  /\ pending' = FALSE
  /\ handler' = [handler EXCEPT ![t] = "lock"]
  /\ UNCHANGED <<load, lists, mtx, pc, locals, outJson, presses, history>>

\* The kernel prefers the main thread.  SIGINT is blocked in a thread that is
\* already in the handler, and then another thread is interrupted wherever it
\* is, a critical section of _mtx included.
Deliver(t) ==
  /\ pending
  /\ handler[t] = "none"
  /\ t # Main => handler[Main] # "none"
  /\ pending' = FALSE
  /\ handler' = [handler EXCEPT ![t] = "lock"]
  /\ UNCHANGED <<load, lists, mtx, pc, locals, outJson, presses, history>>

\* Mutant: the handler does not take the mutex.
OnlineLockIgnored(t) ==
  /\ handler[t] = "lock"
  /\ handler' = [handler EXCEPT ![t] = "online"]
  /\ UNCHANGED <<load, lists, mtx, pc, locals, outJson, pending, presses, history>>

\* The handler blocks while _mtx is taken, by the thread it interrupted too.
OnlineLock(t) ==
  /\ handler[t] = "lock"
  /\ Lock(t)
  /\ handler' = [handler EXCEPT ![t] = "online"]
  /\ UNCHANGED <<load, lists, pc, locals, outJson, pending, presses, history>>

\* Mutant: the offline list is not cleared.
OnlineMachineKeepsOffline(t) ==
  /\ handler[t] = "online"
  /\ online' = online \o offline
  /\ failed' = [w \in Workers |-> {}]
  /\ Unlock
  /\ handler' = [handler EXCEPT ![t] = "none"]
  /\ UNCHANGED <<load, offline, pc, locals, outJson, pending, presses, everOffline>>

\* Mutant: the online list is replaced by the offline one, not extended.
OnlineMachineReplaces(t) ==
  /\ handler[t] = "online"
  /\ online' = offline
  /\ offline' = << >>
  /\ failed' = [w \in Workers |-> {}]
  /\ Unlock
  /\ handler' = [handler EXCEPT ![t] = "none"]
  /\ UNCHANGED <<load, pc, locals, outJson, pending, presses, everOffline>>

\* The offline machines are appended to the online list.
OnlineMachine(t) ==
  /\ handler[t] = "online"
  /\ online' = online \o offline
  /\ offline' = << >>
  /\ failed' = [w \in Workers |-> {}]
  /\ Unlock
  /\ handler' = [handler EXCEPT ![t] = "none"]
  /\ UNCHANGED <<load, pc, locals, outJson, pending, presses, everOffline>>

-----------------------------------------------------------------------------

SelectLeastLoaded(w) ==
  SelectLock(w) \/ SelectNone(w) \/ ScanNext(w) \/ SelectDone(w)
Post(w) == PostOk(w) \/ PostRefused(w) \/ PostFailed(w)
TakeOffline(w) ==
  OfflineLock(w) \/ OfflineMachine(w) \/ ShowLock(w) \/ ShowMachines(w)

\* What a worker does once it has a request to judge.
Work(w) ==
  SelectLeastLoaded(w) \/ Send(w) \/ Post(w) \/ Finish(w) \/ Retry(w)
  \/ TakeOffline(w)
Recovery(t) == OnlineLock(t) \/ OnlineMachine(t)

Next ==
  \/ \E w \in Workers : Judge(w) \/ Work(w)
  \/ CtrlC
  \/ \E t \in Threads : Deliver(t) \/ Recovery(t)

Spec == Init /\ [][Next]_vars

\* A thread that can always again get the mutex gets it in the end, Post
\* returns (the client's timeouts see to it), and signals are delivered.
\* Nobody has to submit a request or to press ctrl-C.
Fairness ==
  /\ \A w \in Workers : SF_vars(Work(w))
  /\ \A t \in Threads : SF_vars(Recovery(t)) /\ WF_vars(Deliver(t))

FairSpec == Spec /\ Fairness

-----------------------------------------------------------------------------
(* Properties *)

PCs == {"idle", "select", "scan", "inc", "post", "ok", "refused",
        "offline", "offlining", "show", "showing"}

\* The type invariant of the core: loads stay below LoadMod, lists hold ids.
TypeOK ==
  /\ load \in [Machine -> 0 .. LoadMod - 1]
  /\ online \in Seq(Machine) /\ offline \in Seq(Machine)
  /\ mtx \in Threads \cup {NoThread}
  /\ pc \in [Workers -> PCs]
  /\ machine \in [Workers -> Nat]
  /\ minLoad \in [Workers -> 0 .. LoadMod - 1]
  /\ seen \in [Workers -> Seq(0 .. LoadMod - 1)]
  /\ outJson \in [Workers -> Machine \cup {Empty}]
  /\ handler \in [Threads -> {"none", "lock", "online"}]
  /\ pending \in BOOLEAN
  /\ presses \in 0 .. MaxPresses
  /\ everOffline \in SUBSET Machine
  /\ failed \in [Workers -> SUBSET Machine]

\* However failures of the same machine, retries and recoveries interleave,
\* every machine is in exactly one of _online and _offline, exactly once:
\* OfflineMachine of two workers and OnlineMachine neither lose nor duplicate.
MachinesPartitioned ==
  /\ IsInjective(online) /\ IsInjective(offline)
  /\ ToSet(online) \cap ToSet(offline) = {}
  /\ ToSet(online) \cup ToSet(offline) = Machine

\* The workers whose IncLoad of machine m is not yet undone.
InFlight(m) ==
  {w \in Workers : /\ machine[w] = m
                   /\ pc[w] \in {"post", "ok", "refused", "offline", "offlining"}}

\* The load of a machine that was never taken offline is the number of
\* submissions it has: every path through Judge pairs IncLoad with DecLoad.
LoadExact ==
  \A m \in Machine \ everOffline : load[m] = Cardinality(InFlight(m))

\* SelectLeastLoaded returns the first machine of the least load among the
\* loads it read, although each of them may have changed since it was read.
ScanKeepsLeast ==
  \A w \in Workers : pc[w] = "scan" /\ seen[w] # << >> =>
    /\ Len(seen[w]) <= Len(online)
    /\ \E i \in DOMAIN seen[w] :
         /\ machine[w] = online[i] /\ minLoad[w] = seen[w][i]
         /\ \A j \in DOMAIN seen[w] :
              seen[w][j] >= seen[w][i] /\ (j < i => seen[w][j] > seen[w][i])

\* A Judge never sends its submission again to a machine that failed it,
\* unless the machines were recovered in between.
NoRetryOnFailed ==
  \A w \in Workers : pc[w] \in {"inc", "post"} => machine[w] \notin failed[w]

\* Nobody changes the lists under a running scan, which holds no copy of them:
\* neither another worker nor the signal handler.
ListsStableDuringScan ==
  [][\A w \in Workers : pc[w] = "scan" => UNCHANGED lists]_vars

\* The handler takes a mutex that the thread it interrupts may hold.  The first
\* ctrl-C is safe all the same: it runs in the main thread, which never judges, so
\* whoever has _mtx can go on and give it back.
FirstPressBlocksNobody ==
  presses <= 1 /\ mtx # NoThread => handler[mtx] # "lock"

\* Every submission that is not refused for ever is answered or given up:
\* failures cannot go on, because each takes a machine off the online list.
JudgeReturns ==
  \A w \in Workers :
    <>[][~Retry(w)]_vars => (pc[w] = "select" ~> pc[w] = "idle")

\* Pressing ctrl-C brings every machine back online at least once.
RecoveryWorks == pending ~> offline = << >>

-----------------------------------------------------------------------------
(* Refinement of JudgeDispatch.  A submission is given to a machine when
   SelectLeastLoaded releases _mtx, and given back when Judge loops. *)

Given == {"inc", "post", "ok", "refused", "offline", "offlining"}

PhaseOf(w) == CASE pc[w] = "idle" -> "done"
                [] pc[w] \in Given -> "given"
                [] OTHER -> "waiting"

Dispatch == INSTANCE JudgeDispatch WITH
  up <- ToSet(online),
  phase <- [w \in Workers |-> PhaseOf(w)],
  givenTo <- [w \in Workers |-> IF pc[w] \in Given THEN machine[w] ELSE Empty],
  answer <- [w \in Workers |-> IF pc[w] = "idle" THEN outJson[w] ELSE Empty]

\* The mutexes, the lists and the loads implement the promise of JudgeDispatch.
ImplementsDispatch == Dispatch!Spec

-----------------------------------------------------------------------------
(* What the comments and the documentation claim, refuted by a run each *)

\* docs:2002: the load is the number of tasks a host is processing, so it is
\* zero when no submission is being judged.
IdleLoadsZero ==
  (\A w \in Workers : pc[w] = "idle") => \A m \in Machine : load[m] = 0

\* oj_control.hpp:334 and docs:2381: after a refusal another host is chosen.  So
\* with another one online, a refused submission gets there in the end, unless
\* the machine that refused it answers after all or is the last one online.
RefusalTriesAnother ==
  \A w \in Workers, m \in Machine :
    pc[w] = "refused" /\ machine[w] = m /\ Len(online) > 1
      ~> \/ pc[w] = "post" /\ machine[w] # m
         \/ pc[w] = "idle"
         \/ Len(online) <= 1

=============================================================================
