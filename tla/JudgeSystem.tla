----------------------------- MODULE JudgeSystem -----------------------------
(***************************************************************************)
(* A submission's whole way: the page of a problem (submitCode in          *)
(* one_problem.html), Control::Judge in a thread of oj_server, the HTTP    *)
(* client, the compile servers, and back to the page (showResult).         *)
(*                                                                         *)
(* The dispatcher is JudgeDispatch, which LoadBalance implements: its      *)
(* actions are conjuncts of those below.  Of a compile server there are    *)
(* the connections it has, whether they wait for one of its threads or are *)
(* served (HttpServer); that Start is done with one (CompileServer) is a   *)
(* step, which need not come: a program that sleeps is not stopped by its  *)
(* CPU limit, and may keep every thread.                                   *)
(*                                                                         *)
(* The client waits for an answer as long as its timeouts let it: it may   *)
(* give up at any moment, and the server it gave up works on.              *)
(***************************************************************************)
EXTENDS Naturals, FiniteSets

CONSTANTS
  MaxClicks,    \* bound: how often the page submits
  Machine,      \* the compile servers
  Empty,        \* the result of a submission no machine took
  Statuses,     \* of the responses: 500 is httplib's for an exception in Start
  Ports,        \* the local ports of a submission's connections
  NoPort,       \* the port of a submission that is not connected
  MaxPresses,   \* bound: how often the operator presses ctrl-C
  MayCrash,     \* bound: the compile servers that are killed
  MaxCrashes    \* bound: how often that happens

Subs == 1 .. MaxClicks

ASSUME SystemAssumption ==
  /\ MaxClicks \in Nat /\ MaxPresses \in Nat /\ MaxCrashes \in Nat
  /\ IsFiniteSet(Machine) /\ Empty \notin Machine
  /\ MayCrash \subseteq Machine
  /\ IsFiniteSet(Ports) /\ NoPort \notin Ports
  /\ Statuses \subseteq {200, 500}

VARIABLES
  click,    \* where a submission is between the page and oj_server
  finished, \* history: the submissions that were back on the page at its click
  shown,    \* the submission whose result the page shows, or 0
  up, phase, givenTo, answer,  \* the dispatcher, as in JudgeDispatch
  port,     \* the connection on which its Post waits, or NoPort
  failed,   \* the submissions whose Post returned no response
  alive,    \* the compile servers that run
  work,     \* the connections each has, queued or served by one of its threads
  sent,     \* the responses that were sent and not read, with their status
  presses, crashes

D == INSTANCE JudgeDispatch WITH Workers <- Subs

page == <<click, finished, shown>>
dispatcher == <<up, phase, givenTo, answer>>
client == <<port, failed>>
servers == <<alive, work, sent>>
faults == <<presses, crashes>>
vars == <<page, dispatcher, client, servers, faults>>

\* A connection is a submission and a port.
Conn == Subs \X Ports
Taken(s) ==
  {k \in Ports : \/ \E m \in Machine : <<s, k>> \in work[m]
                 \/ \E r \in sent : r[1] = <<s, k>>}

Init ==
  /\ click = [s \in Subs |-> "none"]
  /\ finished = [s \in Subs |-> {}]
  /\ shown = 0
  /\ D!Init
  /\ port = [s \in Subs |-> NoPort]
  /\ failed = {}
  /\ alive = Machine
  /\ work = [m \in Machine |-> {}]
  /\ sent = {}
  /\ presses = 0 /\ crashes = 0

-----------------------------------------------------------------------------
(* The page *)

Back == {s \in Subs : click[s] = "back"}

\* submitCode: nothing stops the user from clicking while others are on their way.
submitCode(s) ==
  /\ click[s] = "none" /\ \A t \in Subs : t < s => click[t] # "none"
  /\ click' = [click EXCEPT ![s] = "sent"]
  /\ finished' = [finished EXCEPT ![s] = Back]
  /\ UNCHANGED <<shown, dispatcher, client, servers, faults>>

\* Mutant: the first result stays.
showFirst(s) ==
  /\ click[s] = "answered"
  /\ click' = [click EXCEPT ![s] = "back"]
  /\ shown' = IF answer[s] # Empty /\ shown = 0 THEN s ELSE shown
  /\ UNCHANGED <<finished, dispatcher, client, servers, faults>>

\* The response arrives.  An empty one is no JSON: success is not called, and
\* what was shown stays.
showResult(s) ==
  /\ click[s] = "answered"
  /\ click' = [click EXCEPT ![s] = "back"]
  /\ shown' = IF answer[s] # Empty THEN s ELSE shown
  /\ UNCHANGED <<finished, dispatcher, client, servers, faults>>

-----------------------------------------------------------------------------
(* Control::Judge *)

\* The request reaches a thread of oj_server; requests overtake each other.
Judge(s) ==
  /\ click[s] = "sent"
  /\ click' = [click EXCEPT ![s] = "judging"]
  /\ D!Submit(s)
  /\ UNCHANGED <<finished, shown, client, servers, faults>>

\* Mutant: the result of SelectLeastLoaded is not looked at.
SendNowhere(s) ==
  /\ phase[s] = "waiting" /\ up = {}
  /\ phase' = [phase EXCEPT ![s] = "given"]
  /\ failed' = failed \cup {s}
  /\ UNCHANGED <<page, up, givenTo, answer, port, servers, faults>>

\* SelectLeastLoaded finds no machine: the result stays empty.
SendAway(s) ==
  /\ click[s] = "judging"
  /\ D!SendAway(s)
  /\ click' = [click EXCEPT ![s] = "answered"]
  /\ UNCHANGED <<finished, shown, client, servers, faults>>

\* It finds m, whose kernel takes the connection and the request: Post waits.
Post(s, m) ==
  /\ click[s] = "judging"
  /\ D!Give(s, m)
  /\ m \in alive
  /\ Taken(s) # Ports
  /\ LET k == CHOOSE free \in Ports \ Taken(s) : TRUE
     IN  /\ port' = [port EXCEPT ![s] = k]
         /\ work' = [work EXCEPT ![m] = @ \cup {<<s, k>>}]
  /\ UNCHANGED <<page, failed, alive, sent, faults>>

\* Nobody listens at m: Post returns no response.
PostUnconnected(s, m) ==
  /\ click[s] = "judging"
  /\ D!Give(s, m)
  /\ m \notin alive
  /\ failed' = failed \cup {s}
  /\ UNCHANGED <<page, port, servers, faults>>

\* The Client of a round goes with its connection: what comes on it is not read.
Disconnect(s) ==
  /\ port' = [port EXCEPT ![s] = NoPort]
  /\ sent' = {r \in sent : r[1] # <<s, port[s]>>}

Response(s, status) == port[s] # NoPort /\ <<<<s, port[s]>>, status>> \in sent

\* Status 200: the body is the result, and Judge ends.
ReceiveResult(s) ==
  /\ Response(s, 200)
  /\ D!Answer(s)
  /\ Disconnect(s)
  /\ click' = [click EXCEPT ![s] = "answered"]
  /\ UNCHANGED <<finished, shown, failed, alive, work, faults>>

\* Another status: the loop goes on, and the machine stays online.
ReceiveRefusal(s) ==
  /\ Response(s, 500)
  /\ UNCHANGED up /\ D!GiveBack(s)
  /\ Disconnect(s)
  /\ UNCHANGED <<page, failed, alive, work, faults>>

\* Mutant: the client waits for as long as it takes.
NoTimeout(s) == FALSE /\ UNCHANGED vars

\* The read timeout, or the connection breaks: Post returns no response, also if
\* one is just coming.
PostFails(s) ==
  /\ port[s] # NoPort
  /\ Disconnect(s)
  /\ failed' = failed \cup {s}
  /\ UNCHANGED <<page, dispatcher, alive, work, faults>>

\* Mutant: the machine stays online.
TryAgain(s) ==
  /\ s \in failed
  /\ UNCHANGED up /\ D!GiveBack(s)
  /\ failed' = failed \ {s}
  /\ UNCHANGED <<page, port, servers, faults>>

OfflineMachine(s) ==
  /\ s \in failed
  /\ up' = up \ {givenTo[s]} /\ D!GiveBack(s)
  /\ failed' = failed \ {s}
  /\ UNCHANGED <<page, port, servers, faults>>

Recover ==
  /\ presses < MaxPresses
  /\ presses' = presses + 1
  /\ D!Recover
  /\ UNCHANGED <<page, client, servers, crashes>>

-----------------------------------------------------------------------------
(* A compile server *)

\* Start ends or throws.  The response of a client that has gone is lost.
Serve(m, c) ==
  /\ work' = [work EXCEPT ![m] = @ \ {c}]
  /\ IF port[c[1]] = c[2] THEN \E status \in Statuses : sent' = sent \cup {<<c, status>>}
     ELSE UNCHANGED sent
  /\ UNCHANGED <<page, dispatcher, client, alive, faults>>

\* The process is killed, and what it has in hand is lost.
Crash(m) ==
  /\ crashes < MaxCrashes
  /\ m \in alive \cap MayCrash
  /\ crashes' = crashes + 1
  /\ alive' = alive \ {m}
  /\ work' = [work EXCEPT ![m] = {}]
  /\ UNCHANGED <<page, dispatcher, client, sent, presses>>

Restart(m) ==
  /\ m \notin alive
  /\ alive' = alive \cup {m}
  /\ UNCHANGED <<page, dispatcher, client, work, sent, faults>>

-----------------------------------------------------------------------------

Receive(s) == ReceiveResult(s) \/ ReceiveRefusal(s)
Dispatching(s) ==
  \/ Judge(s) \/ SendAway(s) \/ Receive(s) \/ PostFails(s) \/ OfflineMachine(s)
  \/ \E m \in Machine : Post(s, m) \/ PostUnconnected(s, m)

Next ==
  \/ \E s \in Subs :
       submitCode(s) \/ Dispatching(s) \/ showResult(s)
  \/ \E m \in Machine : Crash(m) \/ Restart(m) \/ \E c \in work[m] : Serve(m, c)
  \/ Recover

Spec == Init /\ [][Next]_vars

\* oj_server runs, its client gives up in the end, and responses arrive.  No
\* compile server needs to work, or to be restarted.
Fairness == \A s \in Subs : WF_vars(Dispatching(s) \/ showResult(s))

FairSpec == Spec /\ Fairness

-----------------------------------------------------------------------------
(* Properties *)

\* The type invariant of the system; who is given away is given to a machine.
TypeOK ==
  /\ click \in [Subs -> {"none", "sent", "judging", "answered", "back"}]
  /\ finished \in [Subs -> SUBSET Subs]
  /\ shown \in Subs \cup {0}
  /\ up \in SUBSET Machine
  /\ phase \in [Subs -> {"done", "waiting", "given"}]
  /\ givenTo \in [Subs -> Machine \cup {Empty}]
  /\ \A s \in Subs : phase[s] = "given" <=> givenTo[s] # Empty
  /\ answer \in [Subs -> Machine \cup {Empty}]
  /\ port \in [Subs -> Ports \cup {NoPort}]
  /\ failed \in SUBSET Subs
  /\ alive \in SUBSET Machine
  /\ work \in [Machine -> SUBSET Conn]
  /\ sent \in SUBSET (Conn \X {200, 500})
  /\ presses \in 0 .. MaxPresses /\ crashes \in 0 .. MaxCrashes

\* The runs of s that m has in hand.
RunsOf(s, m) == {c \in work[m] : c[1] = s}

\* Post is at-least-once: who times out is sent to the next machine while the
\* first works on.  But a machine has a submission only once, however many
\* submissions fail, crash and come back, and once more for each recovery: a
\* program that hangs holds no more than that many of its workers.
OncePerMachine ==
  \A s \in Subs, m \in Machine : Cardinality(RunsOf(s, m)) <= 1 + presses

\* The client waits on connection c.
AwaitedFrom(c, m) ==
  port[c[1]] = c[2] /\ givenTo[c[1]] = m /\ phase[c[1]] = "given"

\* Until the first recovery, a machine that is online works for nobody in vain:
\* on each of its connections a client waits, or its failure is on its way to
\* take the machine offline.
WorksForSomebody ==
  presses = 0 =>
    \A m \in up : \A c \in work[m] :
      AwaitedFrom(c, m) \/ (c[1] \in failed /\ givenTo[c[1]] = m)

\* The page shows an older result than it has got only if it was clicked while
\* the older one was on its way: a result that was there at a click is replaced
\* by that of the click, whenever there is one.
OldResultsReplaced ==
  \A s \in Back : answer[s] # Empty => shown # 0 /\ shown \notin finished[s]

\* Every click comes back, with a result or without one, whether programs hang,
\* servers crash or none is left, unless programs are refused for ever.
ClicksComeBack ==
  \A s \in Subs :
    <>[][~ReceiveRefusal(s)]_vars => (click[s] = "sent" ~> click[s] = "back")

=============================================================================
