-------------------------- MODULE JudgeSystemProofs --------------------------
(***************************************************************************)
(* What JudgeSystem keeps for any number of submissions, compile servers,  *)
(* recoveries and crashes.                                                 *)
(***************************************************************************)
EXTENDS JudgeSystem, FiniteSetTheorems, TLAPS

\* A submission that is given to a machine waits on a connection or has failed.
Posting ==
  \A s \in Subs :
    /\ phase[s] = "given" <=> port[s] # NoPort \/ s \in failed
    /\ ~(port[s] # NoPort /\ s \in failed)

\* The dispatcher has a submission while its Judge runs.
JudgingPhase == \A s \in Subs : phase[s] # "done" => click[s] = "judging"

\* A connection with a response waiting is the one its client waits on, and the
\* server is done with it.
SentAwaited ==
  \A r \in sent : /\ port[r[1][1]] = r[1][2]
                  /\ \A m \in Machine : r[1] \notin work[m]

\* The connection a client waits on is one of the machine it was given to.
AwaitedThere ==
  \A m \in Machine : \A c \in work[m] : port[c[1]] = c[2] => givenTo[c[1]] = m

\* What was on the page at a click is still there.
FinishedBack == \A s \in Subs : finished[s] \subseteq Back

\* The connections m works on for s in vain.
Orphans(s, m) == {c \in work[m] : c[1] = s /\ port[s] # c[2]}

\* s has failed at m, and m is about to be taken offline for it.
Failing(s, m) == s \in failed /\ givenTo[s] = m
Waits(s, m) == port[s] # NoPort /\ givenTo[s] = m

\* m may get s, or has it: m was recovered since s failed there.
MayHave(s, m) == (m \in up /\ ~Failing(s, m)) \/ Waits(s, m)

\* A machine gets s only when online, and each failure of s takes it offline: so
\* it has one orphan for each time it was recovered, and one while offline.
FewOrphans ==
  \A s \in Subs, m \in Machine :
    /\ Cardinality(Orphans(s, m)) <= presses + 1
    /\ MayHave(s, m) => Cardinality(Orphans(s, m)) <= presses

\* The inductive invariant.
IInv ==
  /\ TypeOK
  /\ Posting
  /\ JudgingPhase
  /\ SentAwaited
  /\ AwaitedThere
  /\ FinishedBack
  /\ OldResultsReplaced
  /\ FewOrphans

USE SystemAssumption

-----------------------------------------------------------------------------

\* The steps of Next; those of the page, of the dispatcher, of the machines.
LEMMA NextCases ==
  ASSUME Next
  PROVE  \/ \E s \in Subs :
              \/ submitCode(s) \/ showResult(s) \/ Judge(s) \/ SendAway(s)
              \/ ReceiveResult(s) \/ ReceiveRefusal(s) \/ PostFails(s)
              \/ OfflineMachine(s)
         \/ \E s \in Subs, m \in Machine : Post(s, m) \/ PostUnconnected(s, m)
         \/ \E m \in Machine : Crash(m) \/ Restart(m)
         \/ \E m \in Machine : \E c \in work[m] : Serve(m, c)
         \/ Recover
BY DEF Next, Dispatching, Receive

\* The port of a new connection is one no connection of s has.
LEMMA PortFree ==
  ASSUME NEW s \in Subs, NEW m \in Machine, Post(s, m)
  PROVE  \E k \in Ports \ Taken(s) :
           /\ port' = [port EXCEPT ![s] = k]
           /\ work' = [work EXCEPT ![m] = @ \cup {<<s, k>>}]
<1> DEFINE k == CHOOSE free \in Ports \ Taken(s) : TRUE
<1>1. Taken(s) \subseteq Ports /\ Taken(s) # Ports
  BY DEF Taken, Post
<1>2. k \in Ports \ Taken(s)
  BY <1>1
<1> QED
  BY <1>2 DEF Post

\* Submissions are not 0, and a connection is its submission and its port.
LEMMA Connections ==
  /\ 0 \notin Subs
  /\ \A c \in Conn : c[1] \in Subs /\ c[2] \in Ports /\ c = <<c[1], c[2]>>
BY DEF Subs, Conn

\* The first n numbers are n.
LEMMA FirstNumbers ==
  ASSUME NEW n \in Nat
  PROVE  IsFiniteSet(1 .. n) /\ Cardinality(1 .. n) = n
<1>1. /\ IsFiniteSet(1 .. n)
      /\ Cardinality(1 .. n) = IF 1 > n THEN 0 ELSE n - 1 + 1
  BY FS_Interval
<1> QED
  BY ONLY <1>1, n \in Nat

\* One element more is at most one more.
LEMMA AddOne ==
  ASSUME NEW S, IsFiniteSet(S), NEW x
  PROVE  IsFiniteSet(S \cup {x}) /\ Cardinality(S \cup {x}) <= Cardinality(S) + 1
<1>1. PICK n \in Nat : n = Cardinality(S)
  BY FS_CardinalityType
<1>2. n <= n + 1 /\ n + 1 <= n + 1
  OBVIOUS
<1>3. /\ IsFiniteSet(S \cup {x})
      /\ Cardinality(S \cup {x}) = IF x \in S THEN n ELSE n + 1
  BY <1>1, FS_AddElement
<1> QED
  BY <1>1, <1>2, <1>3

\* The orphans of a submission are finitely many.
LEMMA OrphansFinite ==
  ASSUME TypeOK, NEW s \in Subs, NEW m \in Machine
  PROVE  IsFiniteSet(Orphans(s, m)) /\ Cardinality(Orphans(s, m)) \in Nat
<1>1. Orphans(s, m) \subseteq Conn
  BY DEF Orphans, TypeOK
<1>2. IsFiniteSet(Subs)
  BY FS_Interval DEF Subs
<1>3. IsFiniteSet(Conn)
  BY <1>2, FS_Product DEF Conn
<1> QED
  BY <1>1, <1>3, FS_Subset, FS_CardinalityType

\* Nobody has submitted anything at first.
LEMMA InitInv == Init => IInv
<1> SUFFICES ASSUME Init PROVE IInv
  OBVIOUS
<1> USE DEF Init, D!Init
<1>1. TypeOK
  BY DEF TypeOK
<1>2. Posting /\ JudgingPhase /\ SentAwaited /\ AwaitedThere
  BY DEF Posting, JudgingPhase, SentAwaited, AwaitedThere
<1>3. FinishedBack /\ OldResultsReplaced
  BY DEF FinishedBack, OldResultsReplaced, Back
<1>4. FewOrphans
  <2>1. \A s \in Subs, m \in Machine : Orphans(s, m) = {}
    BY DEF Orphans
  <2>2. Cardinality({}) = 0
    BY FS_EmptySet
  <2> QED
    BY <2>1, <2>2 DEF FewOrphans
<1> QED
  BY <1>1, <1>2, <1>3, <1>4 DEF IInv

-----------------------------------------------------------------------------

\* Every step keeps the types.
LEMMA TypeStep == IInv /\ Next => TypeOK'
<1> SUFFICES ASSUME TypeOK, Posting, JudgingPhase, Next PROVE TypeOK'
  BY DEF IInv
<1> USE DEF TypeOK, page, dispatcher, client, servers, faults
<1>1. ASSUME NEW s \in Subs, submitCode(s) \/ showResult(s) PROVE TypeOK'
  BY <1>1 DEF submitCode, showResult, Back
<1>2. ASSUME NEW s \in Subs, Judge(s) \/ SendAway(s) PROVE TypeOK'
  BY <1>2 DEF Judge, SendAway, D!Submit, D!SendAway
<1>3. ASSUME NEW s \in Subs, ReceiveResult(s) \/ ReceiveRefusal(s) PROVE TypeOK'
  BY <1>3 DEF ReceiveResult, ReceiveRefusal, Disconnect, Response, D!Answer, D!GiveBack
<1>4. ASSUME NEW s \in Subs, PostFails(s) \/ OfflineMachine(s) PROVE TypeOK'
  BY <1>4 DEF PostFails, OfflineMachine, Disconnect, D!GiveBack
<1>5. ASSUME NEW s \in Subs, NEW m \in Machine, Post(s, m) PROVE TypeOK'
  <2>1. PICK k \in Ports : /\ port' = [port EXCEPT ![s] = k]
                           /\ work' = [work EXCEPT ![m] = @ \cup {<<s, k>>}]
    BY <1>5, PortFree
  <2>2. <<s, k>> \in Conn
    BY DEF Conn
  <2>3. work' \in [Machine -> SUBSET Conn] /\ port' \in [Subs -> Ports \cup {NoPort}]
    BY <2>1, <2>2
  <2> QED
    BY <1>5, <2>3 DEF Post, D!Give
<1>6. ASSUME NEW s \in Subs, NEW m \in Machine, PostUnconnected(s, m) PROVE TypeOK'
  BY <1>6 DEF PostUnconnected, D!Give
<1>7. ASSUME NEW m \in Machine, Crash(m) \/ Restart(m) PROVE TypeOK'
  BY <1>7 DEF Crash, Restart
<1>8. ASSUME NEW m \in Machine, NEW c \in work[m], Serve(m, c) PROVE TypeOK'
  <2>1. c \in Conn
    OBVIOUS
  <2>2. sent' \in SUBSET (Conn \X {200, 500})
    BY <1>8, <2>1 DEF Serve
  <2>3. work' \in [Machine -> SUBSET Conn]
    BY <1>8 DEF Serve
  <2> QED
    BY <1>8, <2>2, <2>3 DEF Serve
<1>9. CASE Recover
  BY <1>9 DEF Recover, D!Recover
<1> QED
  BY NextCases, <1>1, <1>2, <1>3, <1>4, <1>5, <1>6, <1>7, <1>8, <1>9

\* Every step keeps what the dispatcher, the client and the page have in common.
LEMMA PhaseStep == IInv /\ Next => Posting' /\ JudgingPhase'
<1> SUFFICES ASSUME TypeOK, Posting, JudgingPhase, Next PROVE Posting' /\ JudgingPhase'
  BY DEF IInv
<1> USE DEF TypeOK, Posting, JudgingPhase, page, dispatcher, client, servers, faults
<1>1. ASSUME NEW s \in Subs, submitCode(s) \/ showResult(s)
      PROVE  Posting' /\ JudgingPhase'
  BY <1>1 DEF submitCode, showResult
<1>2. ASSUME NEW s \in Subs, Judge(s) \/ SendAway(s) PROVE Posting' /\ JudgingPhase'
  BY <1>2 DEF Judge, SendAway, D!Submit, D!SendAway
<1>3. ASSUME NEW s \in Subs, ReceiveResult(s) \/ ReceiveRefusal(s)
      PROVE  Posting' /\ JudgingPhase'
  BY <1>3 DEF ReceiveResult, ReceiveRefusal, Disconnect, Response, D!Answer, D!GiveBack
<1>4. ASSUME NEW s \in Subs, PostFails(s) \/ OfflineMachine(s)
      PROVE  Posting' /\ JudgingPhase'
  BY <1>4 DEF PostFails, OfflineMachine, Disconnect, D!GiveBack
<1>5. ASSUME NEW s \in Subs, NEW m \in Machine, Post(s, m) PROVE Posting' /\ JudgingPhase'
  <2>1. PICK k \in Ports : port' = [port EXCEPT ![s] = k]
    BY <1>5, PortFree
  <2>2. /\ phase[s] = "waiting" /\ phase' = [phase EXCEPT ![s] = "given"]
        /\ failed' = failed /\ click' = click
    BY <1>5 DEF Post, D!Give
  <2> QED
    BY <2>1, <2>2
<1>6. ASSUME NEW s \in Subs, NEW m \in Machine, PostUnconnected(s, m)
      PROVE  Posting' /\ JudgingPhase'
  BY <1>6 DEF PostUnconnected, D!Give
<1>7. ASSUME NEW m \in Machine,
             Crash(m) \/ Restart(m) \/ \E c \in work[m] : Serve(m, c)
      PROVE  Posting' /\ JudgingPhase'
  BY <1>7 DEF Crash, Restart, Serve
<1>9. CASE Recover
  BY <1>9 DEF Recover, D!Recover
<1> QED
  BY NextCases, <1>1, <1>2, <1>3, <1>4, <1>5, <1>6, <1>7, <1>9

\* Every step keeps an older result from staying where a newer one came.
LEMMA PageStep == IInv /\ Next => FinishedBack' /\ OldResultsReplaced'
<1> SUFFICES ASSUME TypeOK, JudgingPhase, FinishedBack, OldResultsReplaced, Next
             PROVE  FinishedBack' /\ OldResultsReplaced'
  BY DEF IInv
<1> USE DEF TypeOK, FinishedBack, OldResultsReplaced, Back, page, dispatcher
<1>1. ASSUME NEW s \in Subs, submitCode(s) PROVE FinishedBack' /\ OldResultsReplaced'
  BY <1>1 DEF submitCode
<1>2. ASSUME NEW s \in Subs, showResult(s) PROVE FinishedBack' /\ OldResultsReplaced'
  <2>1. Back' = Back \cup {s} /\ s \notin Back
    BY <1>2 DEF showResult
  <2>2. finished' = finished /\ answer' = answer
    BY <1>2 DEF showResult
  <2>3. CASE answer[s] # Empty
    <3>1. shown' = s
      BY <1>2, <2>3 DEF showResult
    <3>2. \A t \in Subs : s \notin finished[t]
      BY <2>1
    <3> QED
      BY <2>1, <2>2, <3>1, <3>2, Connections
  <2>4. CASE answer[s] = Empty
    <3>1. shown' = shown
      BY <1>2, <2>4 DEF showResult
    <3> QED
      BY <2>1, <2>2, <2>4, <3>1
  <2> QED
    BY <2>3, <2>4
<1>3. ASSUME NEW s \in Subs, Judge(s) \/ SendAway(s) \/ ReceiveResult(s)
      PROVE  FinishedBack' /\ OldResultsReplaced'
  <2>1. click[s] \in {"sent", "judging"} /\ click'[s] # "back"
    BY <1>3 DEF Judge, SendAway, ReceiveResult, D!Answer, JudgingPhase
  <2>2. \A t \in Subs : t # s => click'[t] = click[t] /\ answer'[t] = answer[t]
    BY <1>3 DEF Judge, SendAway, ReceiveResult, D!Submit, D!SendAway, D!Answer
  <2>3. shown' = shown /\ finished' = finished
    BY <1>3 DEF Judge, SendAway, ReceiveResult
  <2>4. Back' = Back
    BY <2>1, <2>2
  <2> QED
    BY <2>1, <2>2, <2>3, <2>4
<1>4. ASSUME UNCHANGED <<page, answer>> PROVE FinishedBack' /\ OldResultsReplaced'
  BY <1>4
<1>5. ASSUME NEW s \in Subs, ReceiveRefusal(s) \/ PostFails(s) \/ OfflineMachine(s)
      PROVE  UNCHANGED <<page, answer>>
  BY <1>5 DEF ReceiveRefusal, PostFails, OfflineMachine, D!GiveBack
<1>6. ASSUME NEW s \in Subs, NEW m \in Machine, Post(s, m) \/ PostUnconnected(s, m)
      PROVE  UNCHANGED <<page, answer>>
  BY <1>6 DEF Post, PostUnconnected, D!Give
<1>7. ASSUME NEW m \in Machine,
             Crash(m) \/ Restart(m) \/ \E c \in work[m] : Serve(m, c)
      PROVE  UNCHANGED <<page, answer>>
  BY <1>7 DEF Crash, Restart, Serve
<1>8. CASE Recover
  BY <1>4, <1>8 DEF Recover, D!Recover
<1> QED
  BY NextCases, <1>1, <1>2, <1>3, <1>4, <1>5, <1>6, <1>7, <1>8

-----------------------------------------------------------------------------

\* Every step keeps what is known of the connections with a waiting client.
LEMMA ConnStep == IInv /\ Next => SentAwaited' /\ AwaitedThere'
<1> SUFFICES ASSUME TypeOK, Posting, SentAwaited, AwaitedThere, Next
             PROVE  SentAwaited' /\ AwaitedThere'
  BY DEF IInv
<1> USE DEF TypeOK, SentAwaited, AwaitedThere, page, dispatcher, client, servers
<1>1. ASSUME UNCHANGED <<sent, work, port>>,
             \A s \in Subs : port[s] # NoPort => givenTo'[s] = givenTo[s]
      PROVE  SentAwaited' /\ AwaitedThere'
  <2>1. SentAwaited'
    BY <1>1
  <2>2. ASSUME NEW m \in Machine, NEW c \in work[m], port[c[1]] = c[2]
        PROVE  givenTo'[c[1]] = m
    <3>1. c[1] \in Subs /\ c[2] \in Ports
      BY Connections
    <3> QED
      BY <1>1, <2>2, <3>1
  <2> QED
    BY <1>1, <2>1, <2>2
<1>2. ASSUME NEW s \in Subs, submitCode(s) \/ showResult(s) \/ Judge(s) \/ SendAway(s)
      PROVE  SentAwaited' /\ AwaitedThere'
  BY <1>1, <1>2 DEF submitCode, showResult, Judge, SendAway, D!Submit, D!SendAway
<1>3. ASSUME NEW s \in Subs, OfflineMachine(s) PROVE SentAwaited' /\ AwaitedThere'
  BY <1>1, <1>3 DEF OfflineMachine, D!GiveBack, Posting
<1>4. ASSUME NEW s \in Subs, NEW m \in Machine, PostUnconnected(s, m)
      PROVE  SentAwaited' /\ AwaitedThere'
  BY <1>1, <1>4 DEF PostUnconnected, D!Give, Posting
<1>5. CASE Recover
  BY <1>1, <1>5 DEF Recover, D!Recover
<1>6. ASSUME NEW s \in Subs, ReceiveResult(s) \/ ReceiveRefusal(s) \/ PostFails(s)
      PROVE  SentAwaited' /\ AwaitedThere'
  <2>1. /\ port' = [port EXCEPT ![s] = NoPort] /\ work' = work
        /\ sent' = {r \in sent : r[1] # <<s, port[s]>>}
    BY <1>6 DEF ReceiveResult, ReceiveRefusal, PostFails, Disconnect
  <2>2. \A t \in Subs : t # s => givenTo'[t] = givenTo[t]
    BY <1>6 DEF ReceiveResult, ReceiveRefusal, PostFails, D!Answer, D!GiveBack
  <2>3. ASSUME NEW r \in sent'
        PROVE  port'[r[1][1]] = r[1][2] /\ \A m \in Machine : r[1] \notin work'[m]
    <3>1. r \in sent /\ r[1] \in Conn /\ r[1] # <<s, port[s]>>
      BY <2>1
    <3>2. r[1] = <<r[1][1], r[1][2]>> /\ r[1][1] \in Subs /\ port[r[1][1]] = r[1][2]
      BY <3>1, Connections
    <3>3. r[1][1] # s
      BY <3>1, <3>2
    <3> QED
      BY <2>1, <3>1, <3>2, <3>3
  <2>4. ASSUME NEW m \in Machine, NEW c \in work[m], port'[c[1]] = c[2]
        PROVE  givenTo'[c[1]] = m
    <3>1. c[1] \in Subs /\ c[2] \in Ports
      BY Connections
    <3>2. c[1] # s
      BY <2>1, <2>4, <3>1
    <3> QED
      BY <2>1, <2>2, <2>4, <3>1, <3>2
  <2> QED
    BY <2>1, <2>3, <2>4
<1>7. ASSUME NEW s \in Subs, NEW m \in Machine, Post(s, m)
      PROVE  SentAwaited' /\ AwaitedThere'
  <2>1. PICK k \in Ports \ Taken(s) :
          /\ port' = [port EXCEPT ![s] = k]
          /\ work' = [work EXCEPT ![m] = @ \cup {<<s, k>>}]
    BY <1>7, PortFree
  <2>2. sent' = sent /\ givenTo' = [givenTo EXCEPT ![s] = m] /\ port[s] = NoPort
    BY <1>7 DEF Post, D!Give, Posting
  <2>3. /\ \A n \in Machine : <<s, k>> \notin work[n]
        /\ \A r \in sent : r[1] # <<s, k>>
    BY <2>1 DEF Taken
  <2>4. ASSUME NEW r \in sent
        PROVE  port'[r[1][1]] = r[1][2] /\ \A n \in Machine : r[1] \notin work'[n]
    <3>1. r[1] \in Conn /\ r[1][1] \in Subs /\ r[1][2] \in Ports /\ port[r[1][1]] = r[1][2]
      BY Connections
    <3>2. r[1][1] # s
      BY <2>2, <3>1
    <3> QED
      BY <2>1, <2>3, <3>1, <3>2
  <2>5. ASSUME NEW n \in Machine, NEW c \in work'[n], port'[c[1]] = c[2]
        PROVE  givenTo'[c[1]] = n
    <3>1. CASE c \in work[n]
      <4>1. c \in Conn /\ c[1] \in Subs /\ c[2] \in Ports /\ c = <<c[1], c[2]>>
        BY <3>1, Connections
      <4>2. c[1] # s
        BY <2>1, <2>3, <2>5, <3>1, <4>1
      <4> QED
        BY <2>1, <2>2, <2>5, <3>1, <4>1, <4>2
    <3>2. CASE c \notin work[n]
      BY <2>1, <2>2, <3>2
    <3> QED
      BY <3>1, <3>2
  <2> QED
    BY <2>2, <2>4, <2>5
<1>8. ASSUME NEW m \in Machine, Crash(m) \/ Restart(m)
      PROVE  SentAwaited' /\ AwaitedThere'
  <2>1. /\ UNCHANGED <<sent, port, givenTo>>
        /\ \A n \in Machine : work'[n] \subseteq work[n]
    BY <1>8 DEF Crash, Restart
  <2> QED
    BY <2>1
<1>9. ASSUME NEW m \in Machine, NEW c \in work[m], Serve(m, c)
      PROVE  SentAwaited' /\ AwaitedThere'
  <2>1. /\ UNCHANGED <<port, givenTo>> /\ work' = [work EXCEPT ![m] = @ \ {c}]
    BY <1>9 DEF Serve
  <2>2. AwaitedThere'
    BY <2>1
  <2>3. CASE port[c[1]] # c[2]
    BY <1>9, <2>1, <2>2, <2>3 DEF Serve
  <2>4. CASE port[c[1]] = c[2]
    <3>1. PICK status \in Statuses : sent' = sent \cup {<<c, status>>}
      BY <1>9, <2>4 DEF Serve
    <3>2. \A n \in Machine : c \notin work'[n]
      BY <2>1, <2>4
    <3> QED
      BY <2>1, <2>2, <2>4, <3>1, <3>2
  <2> QED
    BY <2>3, <2>4
<1> QED
  BY NextCases, <1>2, <1>3, <1>4, <1>5, <1>6, <1>7, <1>8, <1>9

-----------------------------------------------------------------------------

\* A step that brings no orphan, and makes no machine one that may have s.
LEMMA NoNewOrphan ==
  ASSUME TypeOK, TypeOK', FewOrphans, presses' = presses,
         NEW s \in Subs, NEW m \in Machine,
         Orphans(s, m)' \subseteq Orphans(s, m), MayHave(s, m)' => MayHave(s, m)
  PROVE  /\ Cardinality(Orphans(s, m)') <= presses' + 1
         /\ MayHave(s, m)' => Cardinality(Orphans(s, m)') <= presses'
<1>1. /\ IsFiniteSet(Orphans(s, m)) /\ Cardinality(Orphans(s, m)) \in Nat
      /\ IsFiniteSet(Orphans(s, m)')
  BY OrphansFinite, FS_Subset
<1>2. /\ Cardinality(Orphans(s, m)') \in Nat
      /\ Cardinality(Orphans(s, m)') <= Cardinality(Orphans(s, m))
  BY <1>1, FS_Subset, FS_CardinalityType
<1>3. presses \in Nat
  BY DEF TypeOK
<1> QED
  BY <1>1, <1>2, <1>3 DEF FewOrphans

\* Every step leaves few orphans.
LEMMA OrphanStep == IInv /\ Next => FewOrphans'
<1> SUFFICES ASSUME TypeOK, TypeOK', Posting, SentAwaited, AwaitedThere, FewOrphans, Next
             PROVE  FewOrphans'
  BY TypeStep DEF IInv
<1> USE DEF page, dispatcher, client, servers, faults
<1>1. ASSUME presses' = presses,
             \A s \in Subs, m \in Machine :
               /\ Orphans(s, m)' \subseteq Orphans(s, m)
               /\ MayHave(s, m)' => MayHave(s, m)
      PROVE  FewOrphans'
  BY <1>1, NoNewOrphan DEF FewOrphans
<1>2. ASSUME NEW s \in Subs, submitCode(s) \/ showResult(s) \/ Judge(s) \/ SendAway(s)
      PROVE  FewOrphans'
  <2>1. UNCHANGED <<presses, work, port, up, failed, givenTo>>
    BY <1>2 DEF submitCode, showResult, Judge, SendAway, D!Submit, D!SendAway
  <2> QED
    BY <1>1, <2>1 DEF Orphans, MayHave, Failing, Waits
<1>3. ASSUME NEW s \in Subs, ReceiveResult(s) \/ ReceiveRefusal(s) PROVE FewOrphans'
  <2>1. /\ UNCHANGED <<presses, work, up, failed>> /\ port' = [port EXCEPT ![s] = NoPort]
        /\ port[s] # NoPort
    BY <1>3 DEF ReceiveResult, ReceiveRefusal, Disconnect, Response, D!Answer, D!GiveBack
  <2>2. \A t \in Subs : t # s => givenTo'[t] = givenTo[t]
    BY <1>3 DEF ReceiveResult, ReceiveRefusal, D!Answer, D!GiveBack, TypeOK
  <2>3. \A m \in Machine : <<s, port[s]>> \notin work[m]
    BY <1>3 DEF ReceiveResult, ReceiveRefusal, Response, SentAwaited
  <2>4. ASSUME NEW t \in Subs, NEW m \in Machine
        PROVE  /\ Orphans(t, m)' \subseteq Orphans(t, m)
               /\ MayHave(t, m)' => MayHave(t, m)
    <3>1. CASE t = s
      <4>1. ASSUME NEW c \in work[m], c[1] = s PROVE port[s] # c[2]
        <5>1. c = <<c[1], c[2]>>
          BY Connections DEF TypeOK
        <5> QED
          BY <2>3, <4>1, <5>1
      <4>2. s \notin failed /\ port'[s] = NoPort
        BY <2>1 DEF Posting, TypeOK
      <4> QED
        BY <2>1, <3>1, <4>1, <4>2 DEF Orphans, MayHave, Failing, Waits
    <3>2. CASE t # s
      BY <2>1, <2>2, <3>2 DEF Orphans, MayHave, Failing, Waits, TypeOK
    <3> QED
      BY <3>1, <3>2
  <2> QED
    BY <1>1, <2>1, <2>4
<1>4. ASSUME NEW s \in Subs, PostFails(s) PROVE FewOrphans'
  <2>1. /\ UNCHANGED <<presses, work, up, givenTo>> /\ port' = [port EXCEPT ![s] = NoPort]
        /\ failed' = failed \cup {s} /\ port[s] # NoPort /\ s \notin failed
    BY <1>4 DEF PostFails, Disconnect, Posting
  <2>2. port'[s] = NoPort /\ \A t \in Subs : t # s => port'[t] = port[t]
    BY <2>1 DEF TypeOK
  <2>3. ASSUME NEW m \in Machine, NEW c \in work[m]
        PROVE  c = <<c[1], c[2]>> /\ c[1] \in Subs /\ c[2] \in Ports
    BY Connections DEF TypeOK
  <2>4. ASSUME NEW t \in Subs, NEW m \in Machine, t # s \/ givenTo[s] # m
        PROVE  /\ Cardinality(Orphans(t, m)') <= presses' + 1
               /\ MayHave(t, m)' => Cardinality(Orphans(t, m)') <= presses'
    <3>1. Orphans(t, m)' \subseteq Orphans(t, m)
      BY <2>1, <2>2, <2>3, <2>4 DEF Orphans, AwaitedThere
    <3>2. MayHave(t, m)' => MayHave(t, m)
      BY <2>1, <2>2, <2>4 DEF MayHave, Failing, Waits
    <3> QED
      BY <2>1, <3>1, <3>2, NoNewOrphan
  <2>5. ASSUME NEW m \in Machine, givenTo[s] = m
        PROVE  /\ Cardinality(Orphans(s, m)') <= presses' + 1
               /\ ~MayHave(s, m)'
    <3>1. Orphans(s, m)' \subseteq Orphans(s, m) \cup {<<s, port[s]>>}
      BY <2>1, <2>2, <2>3 DEF Orphans
    <3>2. IsFiniteSet(Orphans(s, m)) /\ Cardinality(Orphans(s, m)) \in Nat
      BY OrphansFinite
    <3>3. /\ IsFiniteSet(Orphans(s, m) \cup {<<s, port[s]>>})
          /\ Cardinality(Orphans(s, m) \cup {<<s, port[s]>>}) <= Cardinality(Orphans(s, m)) + 1
      BY <3>2, AddOne
    <3>4. Cardinality(Orphans(s, m)) <= presses
      BY <2>1, <2>5 DEF FewOrphans, MayHave, Waits
    <3>5. Cardinality(Orphans(s, m) \cup {<<s, port[s]>>}) \in Nat
      BY <3>3, FS_CardinalityType
    <3>6. /\ Cardinality(Orphans(s, m)') \in Nat
          /\ Cardinality(Orphans(s, m)') <= Cardinality(Orphans(s, m) \cup {<<s, port[s]>>})
      BY <3>1, <3>3, FS_Subset, FS_CardinalityType
    <3>7. presses' = presses /\ presses \in Nat
      BY <2>1 DEF TypeOK
    <3>8. ~MayHave(s, m)'
      BY <2>1, <2>2, <2>5 DEF MayHave, Failing, Waits
    <3> QED
      BY <3>2, <3>3, <3>4, <3>5, <3>6, <3>7, <3>8
  <2> QED
    BY <2>4, <2>5 DEF FewOrphans
<1>5. ASSUME NEW s \in Subs, OfflineMachine(s) PROVE FewOrphans'
  <2>1. /\ UNCHANGED <<presses, work, port>> /\ up' = up \ {givenTo[s]}
        /\ s \in failed /\ failed' = failed \ {s}
        /\ \A t \in Subs : t # s => givenTo'[t] = givenTo[t]
        /\ port[s] = NoPort
    BY <1>5 DEF OfflineMachine, D!GiveBack, Posting, TypeOK
  <2> QED
    BY <1>1, <2>1 DEF Orphans, MayHave, Failing, Waits
<1>6. ASSUME NEW s \in Subs, NEW m \in Machine, Post(s, m) PROVE FewOrphans'
  <2>1. PICK k \in Ports \ Taken(s) :
          /\ port' = [port EXCEPT ![s] = k]
          /\ work' = [work EXCEPT ![m] = @ \cup {<<s, k>>}]
    BY <1>6, PortFree
  <2>2. /\ UNCHANGED <<presses, up, failed>> /\ givenTo' = [givenTo EXCEPT ![s] = m]
        /\ m \in up /\ port[s] = NoPort /\ s \notin failed
    BY <1>6 DEF Post, D!Give, Posting
  <2>3. /\ givenTo'[s] = m /\ port'[s] = k
        /\ \A t \in Subs : t # s => givenTo'[t] = givenTo[t] /\ port'[t] = port[t]
        /\ \A n \in Machine : work'[n] \subseteq work[n] \cup {<<s, k>>}
    BY <2>1, <2>2 DEF TypeOK
  <2>4. ASSUME NEW t \in Subs, NEW n \in Machine
        PROVE  /\ Orphans(t, n)' \subseteq Orphans(t, n)
               /\ MayHave(t, n)' => MayHave(t, n)
    <3>1. MayHave(t, n)' => MayHave(t, n)
      BY <2>2, <2>3 DEF MayHave, Failing, Waits
    <3>2. ASSUME NEW c \in work'[n], c[1] = t, port'[t] # c[2]
          PROVE  c \in work[n] /\ port[t] # c[2]
      <4>1. c # <<s, k>>
        BY <2>3, <3>2
      <4>2. c \in work[n] /\ c[2] \in Ports
        BY <2>3, <4>1, Connections DEF TypeOK
      <4> QED
        BY <2>2, <2>3, <3>2, <4>2
    <3> QED
      BY <3>1, <3>2 DEF Orphans
  <2> QED
    BY <1>1, <2>2, <2>4
<1>7. ASSUME NEW s \in Subs, NEW m \in Machine, PostUnconnected(s, m) PROVE FewOrphans'
  <2>1. /\ UNCHANGED <<presses, up, work, port>> /\ givenTo' = [givenTo EXCEPT ![s] = m]
        /\ failed' = failed \cup {s} /\ port[s] = NoPort /\ s \notin failed
    BY <1>7 DEF PostUnconnected, D!Give, Posting
  <2>2. \A t \in Subs : t # s => givenTo'[t] = givenTo[t]
    BY <2>1 DEF TypeOK
  <2> QED
    BY <1>1, <2>1, <2>2 DEF Orphans, MayHave, Failing, Waits
<1>8. ASSUME NEW m \in Machine,
             Crash(m) \/ Restart(m) \/ \E c \in work[m] : Serve(m, c)
      PROVE  FewOrphans'
  <2>1. /\ UNCHANGED <<presses, up, port, failed, givenTo>>
        /\ \A n \in Machine : work'[n] \subseteq work[n]
    BY <1>8 DEF Crash, Restart, Serve, TypeOK
  <2> QED
    BY <1>1, <2>1 DEF Orphans, MayHave, Failing, Waits
<1>9. CASE Recover
  <2>1. presses' = presses + 1 /\ UNCHANGED <<work, port>> /\ presses \in Nat
    BY <1>9 DEF Recover, TypeOK
  <2>2. ASSUME NEW s \in Subs, NEW m \in Machine
        PROVE  /\ Cardinality(Orphans(s, m)') <= presses' + 1
               /\ Cardinality(Orphans(s, m)') <= presses'
    <3>1. Orphans(s, m)' = Orphans(s, m)
      BY <2>1 DEF Orphans
    <3>2. Cardinality(Orphans(s, m)) \in Nat /\ Cardinality(Orphans(s, m)) <= presses + 1
      BY OrphansFinite DEF FewOrphans
    <3> QED
      BY <2>1, <3>1, <3>2
  <2> QED
    BY <2>2 DEF FewOrphans
<1> QED
  BY NextCases, <1>2, <1>3, <1>4, <1>5, <1>6, <1>7, <1>8, <1>9

-----------------------------------------------------------------------------

\* IInv is inductive.
THEOREM SystemInvariance == Spec => []IInv
<1>1. IInv /\ [Next]_vars => IInv'
  <2>1. CASE Next
    BY <2>1, TypeStep, PhaseStep, PageStep, ConnStep, OrphanStep DEF IInv
  <2>2. CASE UNCHANGED vars
    BY <2>2 DEF vars, page, dispatcher, client, servers, faults, IInv, TypeOK, Posting,
                JudgingPhase, SentAwaited, AwaitedThere, FinishedBack, OldResultsReplaced,
                FewOrphans, Back, Orphans, MayHave, Failing, Waits
  <2> QED
    BY <2>1, <2>2
<1> QED
  BY InitInv, <1>1, PTL DEF Spec

\* Pages, dispatcher, connections and servers keep their types, and nobody is
\* given to a machine that does not exist.
THEOREM SystemTypeCorrect == Spec => []TypeOK
<1>1. IInv => TypeOK
  BY DEF IInv
<1> QED
  BY <1>1, SystemInvariance, PTL

\* However many submissions, failures and crashes there are, a machine has a
\* submission at most once, and once more for each recovery.
THEOREM SystemOncePerMachine == Spec => []OncePerMachine
<1>1. IInv => OncePerMachine
  <2> SUFFICES ASSUME IInv, NEW s \in Subs, NEW m \in Machine
               PROVE  Cardinality(RunsOf(s, m)) <= 1 + presses
    BY DEF OncePerMachine
  <2> USE DEF IInv
  <2>1. /\ IsFiniteSet(Orphans(s, m)) /\ Cardinality(Orphans(s, m)) \in Nat
        /\ presses \in Nat
    BY OrphansFinite DEF TypeOK
  <2>2. ASSUME NEW c \in work[m]
        PROVE  c = <<c[1], c[2]>> /\ c[1] \in Subs /\ c[2] \in Ports
    BY Connections DEF TypeOK
  <2>3. CASE Waits(s, m)
    <3>1. RunsOf(s, m) \subseteq Orphans(s, m) \cup {<<s, port[s]>>}
      BY <2>2 DEF RunsOf, Orphans
    <3>2. Cardinality(Orphans(s, m)) <= presses
      BY <2>3 DEF FewOrphans, MayHave
    <3>3. /\ IsFiniteSet(Orphans(s, m) \cup {<<s, port[s]>>})
          /\ Cardinality(Orphans(s, m) \cup {<<s, port[s]>>}) <= Cardinality(Orphans(s, m)) + 1
      BY <2>1, AddOne
    <3>4. Cardinality(Orphans(s, m) \cup {<<s, port[s]>>}) \in Nat
      BY <3>3, FS_CardinalityType
    <3>5. /\ Cardinality(RunsOf(s, m)) \in Nat
          /\ Cardinality(RunsOf(s, m)) <= Cardinality(Orphans(s, m) \cup {<<s, port[s]>>})
      BY <3>1, <3>3, FS_Subset, FS_CardinalityType
    <3> QED
      BY <2>1, <3>2, <3>3, <3>4, <3>5
  <2>4. CASE ~Waits(s, m)
    <3>1. RunsOf(s, m) = Orphans(s, m)
      BY <2>2, <2>4 DEF RunsOf, Orphans, Waits, AwaitedThere
    <3>2. Cardinality(Orphans(s, m)) <= presses + 1
      BY DEF FewOrphans
    <3> QED
      BY <2>1, <3>1, <3>2
  <2> QED
    BY <2>3, <2>4
<1> QED
  BY <1>1, SystemInvariance, PTL

\* A machine that is online, and was never recovered, works for those who wait.
THEOREM SystemWorksForSomebody == Spec => []WorksForSomebody
<1>1. IInv => WorksForSomebody
  <2> SUFFICES ASSUME IInv, presses = 0, NEW m \in up, NEW c \in work[m],
                      ~AwaitedFrom(c, m)
               PROVE  Failing(c[1], m)
    BY DEF WorksForSomebody, Failing
  <2> USE DEF IInv
  <2>1. /\ m \in Machine /\ c[1] \in Subs /\ c[2] \in Ports
    BY Connections DEF TypeOK
  <2>2. port[c[1]] # c[2]
    <3>1. port[c[1]] = c[2] => givenTo[c[1]] = m /\ phase[c[1]] = "given"
      BY <2>1 DEF AwaitedThere, Posting
    <3> QED
      BY <3>1 DEF AwaitedFrom
  <2>3. c \in Orphans(c[1], m)
    BY <2>2 DEF Orphans
  <2>4. Cardinality(Orphans(c[1], m)) # 0
    BY <2>1, <2>3, OrphansFinite, FS_EmptySet
  <2>5. ~MayHave(c[1], m)
    <3>1. Cardinality(Orphans(c[1], m)) \in Nat
      BY <2>1, OrphansFinite
    <3> QED
      BY <2>1, <2>4, <3>1 DEF FewOrphans
  <2> QED
    BY <2>5 DEF MayHave
<1> QED
  BY <1>1, SystemInvariance, PTL

\* So a submission that waits while a machine is online can be sent there: the
\* copies of it that hung and still run have not used up its ports, which are as
\* many as the machines for each recovery and for the beginning.  The ports of a
\* submission are a bound of this model, and this says that it cuts nothing off.
PortLeft ==
  \A s \in Subs : phase[s] = "waiting" /\ up # {} => Taken(s) # Ports

\* The copies of a waiting submission leave it a port while a machine is online:
\* that machine has one copy less than it may have.
THEOREM SystemPortLeft ==
  ASSUME Cardinality(Ports) >= Cardinality(Machine) * (MaxPresses + 1)
  PROVE  Spec => []PortLeft
<1>1. IInv => PortLeft
  <2> SUFFICES ASSUME IInv, NEW s \in Subs, phase[s] = "waiting", NEW m0 \in up,
                      Taken(s) = Ports
               PROVE  FALSE
    BY DEF PortLeft
  <2> USE DEF IInv
  <2> DEFINE N == 1 .. MaxPresses + 1
             count(m) == Cardinality(Orphans(s, m))
             nth(m) == CHOOSE f : f \in Bijection(1 .. count(m), Orphans(s, m))
             Copies == {c \in Machine \X N : c[2] <= count(c[1])}
             portOf == [c \in Copies |-> nth(c[1])[c[2]][2]]
  <2>1. port[s] = NoPort /\ s \notin failed /\ m0 \in Machine
    BY DEF Posting, TypeOK
  <2>2. \A m \in Machine : count(m) \in Nat /\ count(m) <= MaxPresses + 1
    <3>1. presses \in Nat /\ presses <= MaxPresses
      BY DEF TypeOK
    <3> QED
      BY <3>1, OrphansFinite DEF FewOrphans
  <2>3. count(m0) <= MaxPresses
    <3>1. presses \in Nat /\ presses <= MaxPresses
      BY DEF TypeOK
    <3>2. count(m0) \in Nat /\ count(m0) <= presses
      BY <2>1, OrphansFinite DEF FewOrphans, MayHave, Failing
    <3> QED
      BY <3>1, <3>2
  <2>4. \A m \in Machine : nth(m) \in Bijection(1 .. count(m), Orphans(s, m))
    BY OrphansFinite, FS_CardinalityType DEF ExistsBijection
  <2>5. \A k \in Ports : \E m \in Machine : <<s, k>> \in Orphans(s, m)
    <3> TAKE k \in Ports
    <3>1. \A r \in sent : r[1] # <<s, k>>
      BY <2>1 DEF SentAwaited
    <3>2. PICK m \in Machine : <<s, k>> \in work[m]
      BY <3>1 DEF Taken
    <3> QED
      BY <2>1, <3>2 DEF Orphans
  <2> HIDE DEF nth
  <2>6. portOf \in Surjection(Copies, Ports)
    <3>1. ASSUME NEW c \in Copies PROVE portOf[c] \in Ports
      <4>1. c[1] \in Machine /\ c[2] \in 1 .. count(c[1])
        BY <2>2
      <4>2. nth(c[1])[c[2]] \in Orphans(s, c[1])
        <5>1. nth(c[1]) \in [1 .. count(c[1]) -> Orphans(s, c[1])]
          BY <2>4, <4>1 DEF Bijection, Injection
        <5> HIDE DEF count
        <5> QED
          BY ONLY <4>1, <5>1
      <4>3. Orphans(s, c[1]) \subseteq Conn
        <5>1. work[c[1]] \in SUBSET Conn
          BY <4>1 DEF TypeOK
        <5> QED
          BY <5>1 DEF Orphans
      <4>4. nth(c[1])[c[2]][2] \in Ports
        BY <4>2, <4>3, Connections
      <4> QED
        BY <4>4
    <3>2. ASSUME NEW k \in Ports PROVE \E c \in Copies : portOf[c] = k
      <4>1. PICK m \in Machine : <<s, k>> \in Orphans(s, m)
        BY <2>5
      <4>2. PICK i \in 1 .. count(m) : nth(m)[i] = <<s, k>>
        BY <2>4, <4>1 DEF Bijection, Surjection
      <4>3. <<m, i>> \in Copies
        BY <2>2
      <4> QED
        BY <4>2, <4>3
    <3> QED
      BY <3>1, <3>2 DEF Surjection
  <2>7. /\ IsFiniteSet(Machine \X N)
        /\ Cardinality(Machine \X N) = Cardinality(Machine) * (MaxPresses + 1)
    <3>1. IsFiniteSet(N) /\ Cardinality(N) = MaxPresses + 1
      <4>1. MaxPresses + 1 \in Nat
        OBVIOUS
      <4>2. PICK n \in Nat : n = MaxPresses + 1
        BY <4>1
      <4>3. IsFiniteSet(1 .. n) /\ Cardinality(1 .. n) = n
        BY FirstNumbers
      <4> QED
        BY ONLY <4>2, <4>3
    <3>2. /\ IsFiniteSet(Machine \X N)
          /\ Cardinality(Machine \X N) = Cardinality(Machine) * Cardinality(N)
      <4> HIDE DEF N
      <4> QED
        BY <3>1, FS_Product
    <3> QED
      BY <3>1, <3>2
  <2>8. Copies \subseteq Machine \X N /\ <<m0, MaxPresses + 1>> \in (Machine \X N) \ Copies
    BY <2>1, <2>2, <2>3
  <2>9. /\ IsFiniteSet(Copies)
        /\ Cardinality(Copies) <= Cardinality(Machine \X N)
        /\ Cardinality(Copies) # Cardinality(Machine \X N)
    BY <2>7, <2>8, FS_Subset
  <2>10. Cardinality(Ports) <= Cardinality(Copies)
    BY <2>6, <2>9, FS_Surjection
  <2>11. /\ Cardinality(Ports) \in Nat /\ Cardinality(Copies) \in Nat
         /\ Cardinality(Machine \X N) \in Nat
    BY <2>7, <2>9, FS_CardinalityType
  <2> QED
    BY <2>7, <2>9, <2>10, <2>11
<1> QED
  BY <1>1, SystemInvariance, PTL

\* A result that was on the page at a click gives way to the result of that click.
THEOREM SystemOldResultsReplaced == Spec => []OldResultsReplaced
<1>1. IInv => OldResultsReplaced
  BY DEF IInv
<1> QED
  BY <1>1, SystemInvariance, PTL

=============================================================================
