------------------------- MODULE CompileServerProofs -------------------------
(***************************************************************************)
(* What CompileServer keeps for any number of submissions, of servers that *)
(* share ./temp/ and of values of the clock.                               *)
(***************************************************************************)
EXTENDS CompileServer, FiniteSetTheorems, TLAPS

\* A submission is named from ReadId on; one without code never is.
Phases ==
  \A j \in Jobs :
    /\ pc[j] \in {"new", "id", "ms", "name"} => ~Named(j)
    /\ pc[j] \in {"write", "compile", "compiled", "open", "fork", "running", "ended"}
         => Named(j)
    /\ pc[j] \in {"reply", "clean", "done"} /\ ~Named(j) => status[j] = -1
    /\ pc[j] \in {"new", "id"} => earlier[j] = {}
    /\ ~Named(j) => ran[j] = Blank /\ out[j] = Blank

\* The submissions that have incremented the counter of server s.
Incremented(s) ==
  {j \in Jobs : server[j] = s /\ (Named(j) \/ pc[j] \in {"ms", "name"})}

\* The counter never wraps around.
CounterCounts == \A s \in Servers : counter[s] = Cardinality(Incremented(s))

\* No number is larger than the counter it was read from.
NumBound == \A j \in Jobs : num[j] <= counter[server[j]]

\* Whoever was named before has a smaller number.
EarlierLess ==
  \A j \in Jobs : \A k \in earlier[j] :
    /\ Named(k) /\ server[k] = server[j]
    /\ num[k] < IF Named(j) THEN num[j] ELSE counter[server[j]]

USE JobsAssumption, ClockAssumption, IdAssumption, SignalsAssumption

-----------------------------------------------------------------------------
(* The steps of one submission *)

JobStep(j) ==
  \/ Start(j) \/ IncrementId(j) \/ GetTimeMs(j) \/ ReadId(j) \/ WriteFile(j)
  \/ Gpp(j) \/ CompileBreaks(j) \/ Compiled(j) \/ OpenStdFiles(j) \/ RunBreaks(j)
  \/ Exec(j) \/ ProgramEnds(j) \/ Wait(j) \/ Reply(j) \/ RemoveTempFile(j)

\* A step of Next other than the clock's is the step of one submission.
LEMMA NextCases ==
  ASSUME Next
  PROVE  Tick \/ \E j \in Jobs : JobStep(j)
BY DEF Next, JobStep, UniqFileName, Compile, Run

\* A step of one submission leaves the program counters, names, statuses and
\* answers of the others alone.
LEMMA OthersKept ==
  ASSUME TypeOK, NEW j \in Jobs, JobStep(j), NEW k \in Jobs, k # j
  PROVE  /\ pc'[k] = pc[k] /\ server'[k] = server[k]
         /\ ms'[k] = ms[k] /\ num'[k] = num[k]
         /\ status'[k] = status[k] /\ wstatus'[k] = wstatus[k]
         /\ ran'[k] = ran[k] /\ out'[k] = out[k] /\ earlier'[k] = earlier[k]
<1> USE DEF TypeOK, Step, Fail
<1>1. CASE Start(j) \/ IncrementId(j) \/ GetTimeMs(j) \/ ReadId(j)
  BY <1>1 DEF Start, IncrementId, GetTimeMs, ReadId
<1>2. CASE WriteFile(j) \/ Gpp(j) \/ CompileBreaks(j) \/ Compiled(j)
  BY <1>2 DEF WriteFile, Gpp, CompileBreaks, Compiled
<1>3. CASE OpenStdFiles(j) \/ RunBreaks(j) \/ Exec(j)
  BY <1>3 DEF OpenStdFiles, RunBreaks, Exec
<1>4. CASE ProgramEnds(j) \/ Wait(j) \/ Reply(j) \/ RemoveTempFile(j)
  BY <1>4 DEF ProgramEnds, Wait, Reply, RemoveTempFile
<1> QED
  BY <1>1, <1>2, <1>3, <1>4 DEF JobStep

\* The naming of a submission changes in its first steps only.
LEMMA NamesKept ==
  ASSUME NEW j \in Jobs, JobStep(j), ~IncrementId(j), ~GetTimeMs(j), ~ReadId(j)
  PROVE  UNCHANGED <<clock, counter, server, ms, num, earlier>>
BY DEF JobStep, Start, WriteFile, Gpp, CompileBreaks, Compiled, OpenStdFiles, RunBreaks,
       Exec, ProgramEnds, Wait, Reply, RemoveTempFile

-----------------------------------------------------------------------------
(* Types *)

FileNames == ((0 .. MaxMs) \X (1 .. IdMod - 1)) \X Kinds

\* What TypeOK says of ./temp/.
TempOK ==
  DOMAIN temp \subseteq FileNames /\ \A f \in DOMAIN temp : temp[f] \in Jobs \cup {Blank}

\* A named submission's files have names of the directory's type.
LEMMA FileIsName ==
  ASSUME TypeOK, NEW j \in Jobs, Named(j), NEW kind \in Kinds
  PROVE  File(j, kind) \in FileNames
<1>1. ms[j] \in 0 .. MaxMs /\ num[j] \in 0 .. IdMod - 1 /\ num[j] # 0
  BY DEF TypeOK, Named
<1>2. num[j] \in 1 .. IdMod - 1
  BY <1>1
<1> QED
  BY <1>1, <1>2 DEF File, Name, FileNames

\* Opening files to be written leaves ./temp/ well typed (Runner::Run).
LEMMA CreateFiles ==
  ASSUME TempOK, NEW files, files \subseteq FileNames, Create(files)
  PROVE  /\ TempOK'
         /\ DOMAIN temp' = DOMAIN temp \cup files
         /\ \A f \in DOMAIN temp : temp'[f] = temp[f]
         /\ \A f \in files \ DOMAIN temp : temp'[f] = Blank
<1>1. /\ DOMAIN temp' = DOMAIN temp \cup files
      /\ \A f \in DOMAIN temp' : temp'[f] = IF f \in DOMAIN temp THEN temp[f] ELSE Blank
  BY DEF Create, Opened
<1> QED
  BY <1>1 DEF TempOK

\* Writing a file leaves ./temp/ well typed (FileUtil::WriteFile).
LEMMA WriteToFile ==
  ASSUME TempOK, NEW file \in FileNames, NEW c \in Jobs \cup {Blank}, Write(file, c)
  PROVE  /\ TempOK'
         /\ DOMAIN temp' = DOMAIN temp \cup {file}
         /\ temp'[file] = c
         /\ \A f \in DOMAIN temp \ {file} : temp'[f] = temp[f]
<1>1. /\ DOMAIN temp' = DOMAIN temp \cup {file}
      /\ \A f \in DOMAIN temp' : temp'[f] = IF f = file THEN c ELSE temp[f]
  BY DEF Write, Written
<1> QED
  BY <1>1 DEF TempOK

\* g++ either wrote the program or did not.
LEMMA GppFiles ==
  ASSUME TypeOK, Phases, NEW j \in Jobs, Gpp(j)
  PROVE  LET cpp == File(j, "cpp")
             exe == File(j, "exe")
             err == File(j, "compile_error")
         IN  /\ TempOK'
             /\ DOMAIN temp \subseteq DOMAIN temp'
             /\ DOMAIN temp' \subseteq DOMAIN temp \cup {exe, err}
             /\ \A f \in DOMAIN temp \ {exe} : temp'[f] = temp[f]
             /\ err \in DOMAIN temp' \ DOMAIN temp => temp'[err] = Blank
             /\ exe \in DOMAIN temp' =>
                  \/ exe \in DOMAIN temp /\ temp'[exe] = temp[exe]
                  \/ cpp \in DOMAIN temp /\ temp'[exe] = temp[cpp]
<1> DEFINE cpp == File(j, "cpp")
           exe == File(j, "exe")
           err == File(j, "compile_error")
<1>1. Named(j)
  BY DEF Gpp, Step, Phases
<1>2. cpp \in FileNames /\ exe \in FileNames /\ err \in FileNames /\ exe # err
  BY <1>1, FileIsName DEF Kinds, File
<1>3. TempOK
  BY DEF TypeOK, TempOK, FileNames
<1>4. CASE /\ Exists(cpp)
           /\ temp' = Opened(Written(temp, exe, temp[cpp]), {err})
  <2>1. /\ DOMAIN temp' = DOMAIN temp \cup {exe, err}
        /\ \A f \in DOMAIN temp' : temp'[f] = IF f = exe THEN temp[cpp]
                                              ELSE IF f \in DOMAIN temp THEN temp[f] ELSE Blank
    <3> HIDE DEF cpp, exe, err
    <3> QED
      BY <1>2, <1>4 DEF Opened, Written
  <2> HIDE DEF cpp, exe, err
  <2>2. temp[cpp] \in Jobs \cup {Blank} /\ cpp \in DOMAIN temp
    BY <1>3, <1>4 DEF TempOK, Exists
  <2>3. TempOK'
    BY <1>2, <1>3, <2>1, <2>2 DEF TempOK
  <2>4. /\ DOMAIN temp \subseteq DOMAIN temp'
        /\ DOMAIN temp' \subseteq DOMAIN temp \cup {exe, err}
        /\ \A f \in DOMAIN temp \ {exe} : temp'[f] = temp[f]
        /\ err \in DOMAIN temp' \ DOMAIN temp => temp'[err] = Blank
        /\ exe \in DOMAIN temp' => cpp \in DOMAIN temp /\ temp'[exe] = temp[cpp]
    <3>1. /\ DOMAIN temp \subseteq DOMAIN temp'
          /\ DOMAIN temp' \subseteq DOMAIN temp \cup {exe, err}
      BY <2>1
    <3>2. \A f \in DOMAIN temp \ {exe} : temp'[f] = temp[f]
      BY <2>1
    <3>3. err \in DOMAIN temp' \ DOMAIN temp => temp'[err] = Blank
      BY <1>2, <2>1
    <3>4. exe \in DOMAIN temp' => cpp \in DOMAIN temp /\ temp'[exe] = temp[cpp]
      BY <2>1, <2>2
    <3> QED
      BY <3>1, <3>2, <3>3, <3>4
  <2> QED
    BY <2>3, <2>4, SMTT(30) DEF cpp, exe, err
<1>5. CASE Create({err})
  <2> HIDE DEF cpp, exe, err
  <2>1. /\ TempOK'
        /\ DOMAIN temp' = DOMAIN temp \cup {err}
        /\ \A f \in DOMAIN temp : temp'[f] = temp[f]
        /\ \A f \in {err} \ DOMAIN temp : temp'[f] = Blank
    <3>1. {err} \subseteq FileNames
      BY <1>2
    <3>2. DOMAIN temp' = DOMAIN temp \cup {err}
      BY <1>3, <1>5, <3>1, CreateFiles
    <3>3. /\ TempOK'
          /\ \A f \in DOMAIN temp : temp'[f] = temp[f]
          /\ \A f \in {err} \ DOMAIN temp : temp'[f] = Blank
      BY <1>3, <1>5, <3>1, CreateFiles, Zenon
    <3> QED
      BY <3>2, <3>3
  <2>2. /\ DOMAIN temp \subseteq DOMAIN temp'
        /\ DOMAIN temp' \subseteq DOMAIN temp \cup {exe, err}
        /\ \A f \in DOMAIN temp \ {exe} : temp'[f] = temp[f]
        /\ err \in DOMAIN temp' \ DOMAIN temp => temp'[err] = Blank
        /\ exe \in DOMAIN temp' => exe \in DOMAIN temp /\ temp'[exe] = temp[exe]
    BY <1>2, <2>1
  <2> QED
    BY <2>1, <2>2 DEF cpp, exe, err
<1>6. CASE UNCHANGED temp
  <2>1. TempOK'
    BY <1>3, <1>6 DEF TempOK
  <2> QED
    BY <1>6, <2>1
<1> QED
  BY <1>4, <1>5, <1>6 DEF Gpp

\* The counter has room for one more.
LEMMA CounterFits ==
  ASSUME TypeOK, Phases, CounterCounts, NEW j \in Jobs, pc[j] = "id"
  PROVE  counter[server[j]] + 1 <= Cardinality(Jobs)
<1> DEFINE I == Incremented(server[j])
<1>1. I \subseteq Jobs \ {j}
  BY DEF Incremented, Phases
<1>2. IsFiniteSet(Jobs \ {j}) /\ Cardinality(Jobs \ {j}) = Cardinality(Jobs) - 1
  BY FS_RemoveElement
<1>3. Cardinality(I) <= Cardinality(Jobs \ {j}) /\ Cardinality(I) \in Nat
  BY <1>1, <1>2, FS_Subset, FS_CardinalityType
<1>4. Cardinality(Jobs) \in Nat
  BY FS_CardinalityType
<1>5. counter[server[j]] = Cardinality(I)
  BY DEF CounterCounts, TypeOK
<1> QED
  BY <1>2, <1>3, <1>4, <1>5

\* id++ stays below IdMod: the new value is still at most the number of
\* submissions that have left their increment behind them.
LEMMA IncrementIdCounts ==
  ASSUME TypeOK, Phases, CounterCounts, NEW j \in Jobs, IncrementId(j)
  PROVE  /\ counter[server[j]] \in Nat
         /\ counter[server[j]] + 1 \in 1 .. IdMod - 1
         /\ counter' = [counter EXCEPT ![server[j]] = @ + 1]
<1> DEFINE c == counter[server[j]]
<1>1. c + 1 <= Cardinality(Jobs) /\ pc[j] = "id"
  BY CounterFits DEF IncrementId, Step
<1>2. c \in Nat /\ Cardinality(Jobs) \in Nat /\ server[j] \in Servers
  BY FS_CardinalityType DEF TypeOK
<1>3. c + 1 \in 1 .. IdMod - 1 /\ (c + 1) % IdMod = c + 1
  <2> HIDE DEF c
  <2> QED
    BY <1>1, <1>2
<1>4. counter' = [counter EXCEPT ![server[j]] = (c + 1) % IdMod]
  BY DEF IncrementId
<1> QED
  BY <1>2, <1>3, <1>4

\* Every handler step keeps the type invariant.
LEMMA TypeStep ==
  ASSUME TypeOK, Phases, CounterCounts, Next
  PROVE  TypeOK'
<1>1. TypeOK' <=> /\ clock' \in 0 .. MaxMs /\ counter' \in [Servers -> 0 .. IdMod - 1]
                  /\ TempOK'
                  /\ pc' \in [Jobs -> PCs]
                  /\ server' \in [Jobs -> Servers] /\ ms' \in [Jobs -> 0 .. MaxMs]
                  /\ num' \in [Jobs -> 0 .. IdMod - 1]
                  /\ wstatus' \in [Jobs -> WaitStatuses]
                  /\ ran' \in [Jobs -> Jobs \cup {Blank}] /\ linked' \in [Jobs -> BOOLEAN]
                  /\ status' \in [Jobs -> -3 .. 0 \cup Signals]
                  /\ out' \in [Jobs -> Jobs \cup {Blank, Unread}]
                  /\ earlier' \in [Jobs -> SUBSET Jobs]
  BY DEF TypeOK, TempOK, FileNames
<1>2. TempOK
  BY DEF TypeOK, TempOK, FileNames
<1>3. ASSUME UNCHANGED temp PROVE TempOK'
  BY <1>2, <1>3 DEF TempOK
<1>4. CASE Tick
  BY <1>1, <1>3, <1>4 DEF Tick, TypeOK, local
<1>5. ASSUME NEW j \in Jobs, JobStep(j) PROVE TypeOK'
  <2> USE DEF Step, Fail, PCs
  <2>1. CASE Start(j)
    BY <2>1, <1>1, <1>3 DEF Start, TypeOK
  <2>2. CASE IncrementId(j)
    <3>1. counter' \in [Servers -> 0 .. IdMod - 1]
      BY <2>2, IncrementIdCounts DEF TypeOK
    <3>2. earlier' \in [Jobs -> SUBSET Jobs]
      BY <2>2 DEF IncrementId, TypeOK, NamedBy
    <3> QED
      BY <2>2, <3>1, <3>2, <1>1, <1>3 DEF IncrementId, TypeOK
  <2>3. CASE GetTimeMs(j) \/ ReadId(j)
    BY <2>3, <1>1, <1>3 DEF GetTimeMs, ReadId, TypeOK
  <2>4. CASE WriteFile(j)
    <3>1. File(j, "cpp") \in FileNames
      BY <2>4, FileIsName DEF WriteFile, Phases, Kinds
    <3>2. TempOK'
      BY <2>4, <3>1, <1>2, <1>3, WriteToFile DEF WriteFile
    <3> QED
      BY <2>4, <3>2, <1>1 DEF WriteFile, TypeOK
  <2>5. CASE Gpp(j)
    <3>1. TempOK'
      BY <2>5, GppFiles
    <3> QED
      BY <2>5, <3>1, <1>1 DEF Gpp, TypeOK
  <2>6. CASE CompileBreaks(j) \/ Compiled(j)
    BY <2>6, <1>1, <1>3 DEF CompileBreaks, Compiled, TypeOK
  <2>7. CASE OpenStdFiles(j) \/ RunBreaks(j)
    <3>1. Named(j)
      BY <2>7 DEF OpenStdFiles, RunBreaks, Phases
    <3>2. StdFiles(j) \subseteq FileNames
      BY <3>1, FileIsName DEF StdFiles, Kinds
    <3>3. TempOK'
      <4>1. ASSUME NEW files \in SUBSET StdFiles(j), Create(files) PROVE TempOK'
        BY <4>1, <3>2, <1>2, CreateFiles
      <4> QED
        BY <2>7, <4>1, <1>3 DEF OpenStdFiles, RunBreaks
    <3>4. CASE OpenStdFiles(j)
      BY <3>3, <3>4, <1>1 DEF OpenStdFiles, TypeOK
    <3>5. CASE RunBreaks(j)
      <4>1. status' = [status EXCEPT ![j] = -2] /\ pc' = [pc EXCEPT ![j] = "reply"]
        BY <3>5 DEF RunBreaks
      <4> QED
        BY <3>3, <3>5, <4>1, <1>1 DEF RunBreaks, TypeOK
    <3> QED
      BY <2>7, <3>4, <3>5
  <2>8. CASE Exec(j)
    <3>1. Exists(File(j, "exe")) => temp[File(j, "exe")] \in Jobs \cup {Blank}
      BY <1>2 DEF Exists, TempOK
    <3> QED
      BY <2>8, <3>1, <1>1, <1>3, SMTT(30) DEF Exec, TypeOK, WaitStatuses
  <2>9. CASE ProgramEnds(j)
    <3>1. File(j, "stdout") \in FileNames
      BY <2>9, FileIsName DEF ProgramEnds, Phases, Kinds
    <3>2. ran[j] \in Jobs \cup {Blank}
      BY DEF TypeOK
    <3>3. TempOK'
      BY <2>9, <3>1, <3>2, <1>2, <1>3, WriteToFile DEF ProgramEnds
    <3> QED
      BY <2>9, <3>3, <1>1 DEF ProgramEnds, TypeOK
  <2>10. CASE Wait(j)
    <3>1. wstatus[j] \in WaitStatuses
      BY DEF TypeOK
    <3>2. wstatus[j] % 128 \in -3 .. 0 \cup Signals
      <4>1. CASE wstatus[j] \in Signals
        <5>1. wstatus[j] \in 1 .. 126
          BY <4>1
        <5>2. wstatus[j] % 128 = wstatus[j]
          BY <5>1
        <5> QED
          BY <4>1, <5>2
      <4>2. CASE wstatus[j] \in {0, 256}
        BY <4>2
      <4>3. CASE \E s \in Signals : wstatus[j] = s + 128
        <5>1. PICK s \in Signals : wstatus[j] = s + 128
          BY <4>3
        <5>2. s \in 1 .. 126
          BY <5>1
        <5>3. wstatus[j] % 128 = s
          BY <5>1, <5>2
        <5> QED
          BY <5>1, <5>3
      <4> QED
        BY <3>1, <4>1, <4>2, <4>3 DEF WaitStatuses
    <3> QED
      BY <2>10, <3>2, <1>1, <1>3 DEF Wait, TypeOK
  <2>11. CASE Reply(j)
    <3>1. ReadFile(File(j, "stdout")) \subseteq Jobs \cup {Blank, Unread}
      BY <1>2 DEF ReadFile, Contents, Exists, TempOK
    <3> QED
      BY <2>11, <3>1, <1>1, <1>3 DEF Reply, TypeOK
  <2>12. CASE RemoveTempFile(j)
    <3>1. TempOK'
      BY <2>12, <1>2 DEF RemoveTempFile, TempOK, Restrict
    <3>2. linked' \in [Jobs -> BOOLEAN]
      BY <2>12 DEF RemoveTempFile, TypeOK
    <3> QED
      BY <2>12, <3>1, <3>2, <1>1 DEF RemoveTempFile, TypeOK
  <2> QED
    BY <1>5, <2>1, <2>2, <2>3, <2>4, <2>5, <2>6, <2>7, <2>8, <2>9, <2>10, <2>11, <2>12
       DEF JobStep
<1> QED
  BY <1>4, <1>5, NextCases

-----------------------------------------------------------------------------
(* File names *)

\* What the file names depend on.
Naming == TypeOK /\ Phases /\ CounterCounts /\ NumBound /\ EarlierLess

\* ReadId alone makes a submission named.
LEMMA PhasesStep ==
  ASSUME Naming, NEW j \in Jobs, JobStep(j)
  PROVE  Phases'
<1> USE DEF Naming
<1> DEFINE P(k) ==
      /\ pc[k] \in {"new", "id", "ms", "name"} => ~Named(k)
      /\ pc[k] \in {"write", "compile", "compiled", "open", "fork", "running", "ended"}
           => Named(k)
      /\ pc[k] \in {"reply", "clean", "done"} /\ ~Named(k) => status[k] = -1
      /\ pc[k] \in {"new", "id"} => earlier[k] = {}
      /\ ~Named(k) => ran[k] = Blank /\ out[k] = Blank
<1>1. ASSUME NEW k \in Jobs, k # j PROVE P(k)'
  <2>1. P(k)
    BY DEF Phases
  <2>2. UNCHANGED <<pc[k], num[k], status[k], earlier[k], ran[k], out[k]>>
    BY <1>1, OthersKept
  <2> QED
    BY <2>1, <2>2 DEF Named
<1>2. P(j)'
  <2>1. P(j) /\ pc[j] \in PCs
    BY DEF Phases, TypeOK
  <2> USE DEF Step, Fail, TypeOK, Named
  <2>2. CASE Start(j)
    BY <2>1, <2>2 DEF Start
  <2>3. CASE IncrementId(j)
    BY <2>1, <2>3 DEF IncrementId
  <2>4. CASE GetTimeMs(j)
    BY <2>1, <2>4 DEF GetTimeMs
  <2>5. CASE ReadId(j)
    <3>1. counter[server[j]] # 0
      <4>1. j \in Incremented(server[j]) /\ Incremented(server[j]) \subseteq Jobs
        BY <2>5 DEF ReadId, Incremented
      <4>2. IsFiniteSet(Incremented(server[j]))
        BY <4>1, FS_Subset
      <4>3. Cardinality(Incremented(server[j])) # 0
        BY <4>1, <4>2, FS_EmptySet
      <4> QED
        BY <4>3 DEF CounterCounts
    <3> QED
      BY <2>1, <2>5, <3>1 DEF ReadId
  <2>6. CASE WriteFile(j)
    BY <2>1, <2>6 DEF WriteFile
  <2>7. CASE Gpp(j) \/ CompileBreaks(j) \/ Compiled(j)
    BY <2>1, <2>7 DEF Gpp, CompileBreaks, Compiled
  <2>8. CASE OpenStdFiles(j) \/ RunBreaks(j) \/ Exec(j)
    BY <2>1, <2>8 DEF OpenStdFiles, RunBreaks, Exec
  <2>9. CASE ProgramEnds(j) \/ Wait(j)
    BY <2>1, <2>9 DEF ProgramEnds, Wait
  <2>10. CASE Reply(j)
    BY <2>1, <2>10 DEF Reply
  <2>11. CASE RemoveTempFile(j)
    BY <2>1, <2>11 DEF RemoveTempFile
  <2> QED
    BY <2>2, <2>3, <2>4, <2>5, <2>6, <2>7, <2>8, <2>9, <2>10, <2>11 DEF JobStep
<1>3. \A k \in Jobs : P(k)'
  BY <1>1, <1>2
<1> QED
  BY <1>3 DEF Phases

\* Every step keeps the counter of a server at the number of increments its
\* submissions have made.
LEMMA CounterStep ==
  ASSUME Naming, NEW j \in Jobs, JobStep(j)
  PROVE  CounterCounts'
<1> USE DEF Naming
<1>1. pc[j] \in PCs /\ server[j] \in Servers
  BY DEF TypeOK
<1>2. CASE IncrementId(j)
  <2>1. counter' = [counter EXCEPT ![server[j]] = @ + 1]
    BY <1>2, IncrementIdCounts
  <2>2. SUFFICES ASSUME NEW s \in Servers
                 PROVE  counter'[s] = Cardinality(Incremented(s)')
    BY DEF CounterCounts
  <2>3. IsFiniteSet(Incremented(s)) /\ j \notin Incremented(s)
    <3>1. Incremented(s) \subseteq Jobs
      BY DEF Incremented
    <3> QED
      BY <1>2, <3>1, FS_Subset DEF IncrementId, Step, Incremented, Phases
  <2>4. counter[s] = Cardinality(Incremented(s))
    BY DEF CounterCounts
  <2>5. UNCHANGED <<num, server>> /\ pc' = [pc EXCEPT ![j] = "ms"]
    BY <1>2 DEF IncrementId, Step
  <2>6. CASE s = server[j]
    <3>1. Incremented(s)' = Incremented(s) \cup {j}
      BY <2>5, <2>6 DEF Incremented, Named, TypeOK
    <3>2. Cardinality(Incremented(s)') = Cardinality(Incremented(s)) + 1
      BY <2>3, <3>1, FS_AddElement
    <3> QED
      BY <2>1, <2>4, <2>6, <3>2 DEF TypeOK
  <2>7. CASE s # server[j]
    <3>1. Incremented(s)' = Incremented(s)
      BY <2>5, <2>7 DEF Incremented, Named, TypeOK
    <3> QED
      BY <2>1, <2>4, <2>7, <3>1 DEF TypeOK
  <2> QED
    BY <2>6, <2>7
<1>3. CASE ~IncrementId(j)
  <2>1. counter' = counter /\ server' = server
    BY <1>3 DEF JobStep, Start, GetTimeMs, ReadId, WriteFile, Gpp, CompileBreaks,
                Compiled, OpenStdFiles, RunBreaks, Exec, ProgramEnds, Wait, Reply,
                RemoveTempFile
  <2>2. \A k \in Jobs \ {j} : UNCHANGED <<pc[k], num[k]>>
    BY OthersKept
  <2>3. (Named(j) \/ pc[j] \in {"ms", "name"})' <=> (Named(j) \/ pc[j] \in {"ms", "name"})
    <3>1. CASE ReadId(j)
      BY <3>1, PhasesStep DEF ReadId, Step, Phases, TypeOK
    <3>2. CASE ~ReadId(j)
      <4>1. num' = num
        BY <1>3, <3>2 DEF JobStep, Start, GetTimeMs, WriteFile, Gpp, CompileBreaks,
                Compiled, OpenStdFiles, RunBreaks, Exec, ProgramEnds, Wait, Reply,
                RemoveTempFile
      <4>2. pc'[j] \in {"ms", "name"} <=> pc[j] \in {"ms", "name"}
        BY <1>3, <3>2 DEF JobStep, Start, GetTimeMs, WriteFile, Gpp, CompileBreaks,
                Compiled, OpenStdFiles, RunBreaks, Exec, ProgramEnds, Wait, Reply,
                RemoveTempFile, Step, Fail, TypeOK
      <4> QED
        BY <4>1, <4>2 DEF Named
    <3> QED
      BY <3>1, <3>2
  <2>4. \A s \in Servers : Incremented(s)' = Incremented(s)
    BY <2>1, <2>2, <2>3 DEF Incremented, Named
  <2> QED
    BY <2>1, <2>4 DEF CounterCounts
<1> QED
  BY <1>2, <1>3

\* No step makes a number exceed the counter it is read from, and a number is
\* larger than those of all submissions named before its increment.
LEMMA NumStep ==
  ASSUME Naming, NEW j \in Jobs, JobStep(j)
  PROVE  NumBound' /\ EarlierLess'
<1> USE DEF Naming
<1> DEFINE E(i) == \A k \in earlier[i] :
      /\ Named(k) /\ server[k] = server[i]
      /\ num[k] < IF Named(i) THEN num[i] ELSE counter[server[i]]
<1>1. /\ \A i \in Jobs : num[i] <= counter[server[i]] /\ E(i)
      /\ \A i \in Jobs : server[i] \in Servers /\ num[i] \in Nat /\ earlier[i] \subseteq Jobs
      /\ \A s \in Servers : counter[s] \in Nat
  BY DEF NumBound, EarlierLess, TypeOK
<1>2. SUFFICES \A i \in Jobs : num'[i] <= counter'[server'[i]] /\ E(i)'
  BY DEF NumBound, EarlierLess
<1>3. CASE IncrementId(j)
  <2>1. counter' = [counter EXCEPT ![server[j]] = @ + 1]
    BY <1>3, IncrementIdCounts
  <2>2. /\ UNCHANGED <<num, server>>
        /\ earlier' = [earlier EXCEPT ![j] = NamedBy(server[j])]
    BY <1>3 DEF IncrementId
  <2>3. \A s \in Servers : counter'[s] \in Nat /\ counter[s] <= counter'[s]
    BY <1>1, <2>1 DEF TypeOK
  <2>4. \A i \in Jobs : num'[i] <= counter'[server'[i]]
    BY <1>1, <2>2, <2>3
  <2>5. ASSUME NEW i \in Jobs, i # j PROVE E(i)'
    <3>1. earlier'[i] = earlier[i]
      BY <2>2, <2>5 DEF TypeOK
    <3> QED
      BY <1>1, <2>2, <2>3, <3>1 DEF Named
  <2>6. E(j)'
    <3>1. earlier'[j] = NamedBy(server[j]) /\ ~Named(j) /\ ~Named(j)'
      BY <1>3, <2>2 DEF TypeOK, IncrementId, Step, Phases, Named
    <3>2. counter'[server[j]] = counter[server[j]] + 1
      BY <1>1, <2>1 DEF TypeOK
    <3> QED
      BY <1>1, <2>2, <3>1, <3>2 DEF NamedBy, Named
  <2> QED
    BY <2>4, <2>5, <2>6
<1>4. CASE ReadId(j)
  <2>1. /\ UNCHANGED <<counter, server, earlier>>
        /\ num' = [num EXCEPT ![j] = counter[server[j]]]
        /\ ~Named(j)
    BY <1>4 DEF ReadId, Step, Phases
  <2>2. Named(j)'
    BY <1>4, PhasesStep DEF Phases, ReadId, Step, TypeOK
  <2>3. num'[j] = counter[server[j]] /\ \A k \in Jobs : k # j => num'[k] = num[k]
    BY <2>1 DEF TypeOK
  <2>4. \A i \in Jobs : num'[i] <= counter'[server'[i]]
    BY <1>1, <2>1, <2>3
  <2>5. \A i \in Jobs : E(i)'
    <3> SUFFICES ASSUME NEW i \in Jobs, NEW k \in earlier[i]
                 PROVE  /\ Named(k)' /\ server[k] = server[i]
                        /\ num'[k] < IF Named(i)' THEN num'[i] ELSE counter[server[i]]
      BY <2>1
    <3>1. /\ Named(k) /\ server[k] = server[i] /\ k \in Jobs /\ k # j
          /\ num[k] < IF Named(i) THEN num[i] ELSE counter[server[i]]
      BY <1>1, <2>1
    <3>2. num'[k] = num[k]
      BY <2>3, <3>1
    <3>3. CASE i = j
      BY <2>1, <2>2, <2>3, <3>1, <3>2, <3>3 DEF Named
    <3>4. CASE i # j
      BY <2>3, <3>1, <3>2, <3>4 DEF Named
    <3> QED
      BY <3>3, <3>4
  <2> QED
    BY <2>4, <2>5
<1>5. CASE ~IncrementId(j) /\ ~ReadId(j)
  <2>1. UNCHANGED <<counter, server, num, earlier>>
    <3>1. CASE GetTimeMs(j)
      BY <3>1 DEF GetTimeMs
    <3> QED
      BY <1>5, <3>1, NamesKept
  <2> QED
    BY <1>1, <2>1 DEF Named
<1> QED
  BY <1>3, <1>4, <1>5

\* No submission is named at the start.
LEMMA NamingInit == Init => Naming
<1> SUFFICES ASSUME Init PROVE Naming
  OBVIOUS
<1>1. TypeOK
  <2>1. Cardinality(Jobs) \in Nat
    BY FS_CardinalityType
  <2>2. 0 \in 0 .. IdMod - 1 /\ 0 \in 0 .. MaxMs
    BY <2>1
  <2> QED
    BY <2>2 DEF Init, TypeOK, PCs, WaitStatuses
<1>2. Phases /\ EarlierLess
  BY DEF Init, Phases, EarlierLess, Named
<1>3. NumBound
  BY DEF Init, NumBound
<1>4. \A s \in Servers : Incremented(s) = {}
  BY DEF Init, Incremented, Named
<1>5. CounterCounts
  BY <1>4, FS_EmptySet DEF CounterCounts, Init
<1> QED
  BY <1>1, <1>2, <1>3, <1>5 DEF Naming

\* The invariant about names is inductive.
LEMMA NamingStep == Naming /\ [Next]_vars => Naming'
<1> SUFFICES ASSUME Naming, [Next]_vars PROVE Naming'
  OBVIOUS
<1>1. CASE Next
  <2>1. TypeOK'
    BY <1>1, TypeStep DEF Naming
  <2>2. CASE Tick
    BY <2>1, <2>2 DEF Tick, local, Naming, Phases, CounterCounts, NumBound, EarlierLess,
                      Named, Incremented
  <2>3. ASSUME NEW j \in Jobs, JobStep(j) PROVE Naming'
    BY <2>1, <2>3, PhasesStep, CounterStep, NumStep DEF Naming
  <2> QED
    BY <1>1, <2>2, <2>3, NextCases
<1>2. CASE UNCHANGED vars
  BY <1>2 DEF vars, local, Naming, TypeOK, Phases, CounterCounts, NumBound, EarlierLess,
              Named, Incremented
<1> QED
  BY <1>1, <1>2

\* What file names depend on is inductive: phases, counters and numbers.
THEOREM NamingInvariance == Spec => []Naming
BY NamingInit, NamingStep, PTL DEF Spec

\* The servers' state keeps its types, and no counter wraps around.
THEOREM CompileTypeCorrect == Spec => []TypeOK
<1>1. Naming => TypeOK
  BY DEF Naming
<1> QED
  BY <1>1, NamingInvariance, PTL

\* Calls of UniqFileName of one server that do not overlap return different
\* names, whatever the clock does.
THEOREM NamesFresh == Spec => []FreshName
<1>1. Naming => FreshName
  BY DEF Naming, FreshName, EarlierLess, TypeOK, Name
<1> QED
  BY <1>1, NamingInvariance, PTL

-----------------------------------------------------------------------------
(* Files *)

\* Nobody else has the name of a submission.
Alone(j) == \A k \in Jobs : Named(j) /\ Name(k) = Name(j) => k = j

\* What a submission that is alone finds under its name, and makes of it.
Own(j) ==
  /\ \A kind \in Kinds : Contents(File(j, kind)) \in {j, Blank}
  /\ \A kind \in {"cpp", "exe"} : Exists(File(j, kind)) => Contents(File(j, kind)) = j
  /\ ran[j] \in {j, Blank} /\ out[j] \in {j, Blank, Unread}
  /\ pc[j] \in {"write", "compile", "compiled", "open", "fork"} => ran[j] = Blank
  /\ pc[j] \in {"fork", "running"} => linked[j]
  /\ pc[j] = "running" => ran[j] = j
  /\ pc[j] \in {"ended", "reply"} /\ ran[j] = j => Contents(File(j, "stdout")) = j
  /\ pc[j] \in {"clean", "done"} /\ ran[j] = j /\ status[j] = 0 => out[j] \in {j, Unread}

OwnFiles == \A j \in Jobs : Named(j) /\ Alone(j) => Own(j)

\* A step changes files of its submission only, and creates some only while
\* the submission is being judged.
LEMMA FilesOfOthers ==
  ASSUME Naming, NEW j \in Jobs, JobStep(j), NEW f, f[1] # Name(j)
  PROVE  /\ f \in DOMAIN temp' <=> f \in DOMAIN temp
         /\ f \in DOMAIN temp => temp'[f] = temp[f]
<1> USE DEF Naming
<1>1. TempOK
  BY DEF TypeOK, TempOK, FileNames
<1>2. \A kind : f # File(j, kind)
  BY DEF File
<1>3. CASE UNCHANGED temp
  BY <1>3
<1>4. CASE WriteFile(j) \/ ProgramEnds(j)
  <2>1. Named(j)
    BY <1>4 DEF WriteFile, ProgramEnds, Step, Fail, Phases
  <2>2. \A kind \in Kinds : File(j, kind) \in FileNames
    BY <2>1, FileIsName
  <2>3. j \in Jobs \cup {Blank} /\ ran[j] \in Jobs \cup {Blank}
    BY DEF TypeOK
  <2>4. ASSUME NEW kind \in Kinds, NEW c \in Jobs \cup {Blank}, Write(File(j, kind), c)
        PROVE  /\ f \in DOMAIN temp' <=> f \in DOMAIN temp
               /\ f \in DOMAIN temp => temp'[f] = temp[f]
    <3>1. PICK file \in FileNames : file = File(j, kind)
      BY <2>2
    <3>2. Write(file, c) /\ f # file
      BY <2>4, <3>1, <1>2
    <3>3. /\ DOMAIN temp' = DOMAIN temp \cup {file}
          /\ \A g \in DOMAIN temp \ {file} : temp'[g] = temp[g]
      BY <1>1, <3>2, WriteToFile
    <3> QED
      BY <3>2, <3>3
  <2>5. "cpp" \in Kinds /\ "stdout" \in Kinds
    BY DEF Kinds
  <2> QED
    BY <1>3, <1>4, <2>3, <2>4, <2>5 DEF WriteFile, ProgramEnds
<1>5. CASE Gpp(j)
  <2>1. /\ DOMAIN temp \subseteq DOMAIN temp'
        /\ DOMAIN temp' \subseteq DOMAIN temp \cup {File(j, "exe"), File(j, "compile_error")}
        /\ \A g \in DOMAIN temp \ {File(j, "exe")} : temp'[g] = temp[g]
    BY <1>5, GppFiles
  <2> QED
    BY <2>1, <1>2
<1>6. CASE OpenStdFiles(j) \/ RunBreaks(j)
  <2>1. Named(j)
    BY <1>6 DEF OpenStdFiles, RunBreaks, Step, Fail, Phases
  <2>2. StdFiles(j) \subseteq FileNames /\ f \notin StdFiles(j)
    BY <2>1, <1>2, FileIsName DEF StdFiles, Kinds
  <2>3. ASSUME NEW files \in SUBSET StdFiles(j), Create(files)
        PROVE  /\ f \in DOMAIN temp' <=> f \in DOMAIN temp
               /\ f \in DOMAIN temp => temp'[f] = temp[f]
    <3>1. files \in SUBSET FileNames /\ f \notin files
      BY <2>2, <2>3
    <3>2. /\ DOMAIN temp' = DOMAIN temp \cup files
          /\ \A g \in DOMAIN temp : temp'[g] = temp[g]
      BY <2>3, <3>1, <1>1, CreateFiles
    <3> QED
      BY <3>1, <3>2
  <2> QED
    BY <1>3, <1>6, <2>3 DEF OpenStdFiles, RunBreaks
<1>7. CASE RemoveTempFile(j)
  BY <1>7 DEF RemoveTempFile, Restrict
<1> QED
  BY <1>3, <1>4, <1>5, <1>6, <1>7
     DEF JobStep, Start, IncrementId, GetTimeMs, ReadId, CompileBreaks, Compiled, Exec,
         Wait, Reply

\* No step leaves a file in ./temp/ without a submission that will remove it.
LEMMA LeftOverStep ==
  ASSUME Naming, NothingLeftOver, NEW j \in Jobs, JobStep(j)
  PROVE  NothingLeftOver'
<1> USE DEF Naming
<1>1. SUFFICES ASSUME NEW f \in DOMAIN temp'
               PROVE  \E k \in Jobs : Busy(k)' /\ f[1] = Name(k)'
  BY DEF NothingLeftOver
<1>2. TempOK' /\ Phases'
  <2>1. Next
    BY DEF Next, JobStep, UniqFileName, Compile, Run
  <2>2. TypeOK'
    BY <2>1, TypeStep
  <2> QED
    BY <2>2, PhasesStep DEF TypeOK, TempOK, FileNames
<1>3. \A k \in Jobs \ {j} : Busy(k)' = Busy(k) /\ Name(k)' = Name(k)
  BY OthersKept DEF Busy, Named, Name
<1>4. CASE f[1] # Name(j)
  <2>1. f \in DOMAIN temp
    BY <1>4, FilesOfOthers
  <2>2. PICK k \in Jobs : Busy(k) /\ f[1] = Name(k)
    BY <2>1 DEF NothingLeftOver
  <2>3. k # j
    BY <2>2, <1>4
  <2> QED
    BY <2>2, <2>3, <1>3
<1>5. CASE f[1] = Name(j) /\ RemoveTempFile(j)
  BY <1>5 DEF RemoveTempFile, Restrict
<1>6. CASE f[1] = Name(j) /\ ~RemoveTempFile(j)
  <2>1. f[1] = <<ms[j], num[j]>>
    BY <1>6 DEF Name
  <2>2. num[j] # 0
    <3>1. f \in FileNames
      BY <1>2 DEF TempOK
    <3> QED
      BY <2>1, <3>1 DEF FileNames
  <2>3. pc'[j] # "done" \/ pc[j] = "done"
    BY <1>6 DEF JobStep, Start, IncrementId, GetTimeMs, ReadId, WriteFile, Gpp,
                CompileBreaks, Compiled, OpenStdFiles, RunBreaks, Exec, ProgramEnds,
                Wait, Reply, Step, Fail, TypeOK
  <2>4. pc[j] # "done" /\ ~IncrementId(j) /\ ~GetTimeMs(j) /\ ~ReadId(j)
    BY <2>2 DEF JobStep, Start, IncrementId, GetTimeMs, ReadId, WriteFile, Gpp,
                CompileBreaks, Compiled, OpenStdFiles, RunBreaks, Exec, ProgramEnds,
                Wait, Reply, RemoveTempFile, Step, Fail, Phases, Named
  <2>5. Name(j)' = Name(j) /\ num'[j] # 0
    BY <2>2, <2>4, NamesKept DEF Name
  <2> QED
    BY <1>6, <2>3, <2>4, <2>5 DEF Busy, Named
<1> QED
  BY <1>4, <1>5, <1>6

\* The steps of others do not touch what a submission that is alone finds.
LEMMA OwnKept ==
  ASSUME Naming, NEW j \in Jobs, NEW k \in Jobs, k # j, JobStep(k),
         Named(j), Alone(j), Own(j)
  PROVE  Own(j)'
<1> USE DEF Naming
<1>1. UNCHANGED <<pc[j], ms[j], num[j], status[j], ran[j], out[j]>>
  BY OthersKept
<1>2. Name(j) # Name(k)
  BY DEF Alone
<1>3. \A kind : File(j, kind)' = File(j, kind) /\ File(j, kind)[1] = Name(j)
  BY <1>1 DEF File, Name
<1>4. \A kind : /\ Exists(File(j, kind))' <=> Exists(File(j, kind))
                /\ Contents(File(j, kind))' = Contents(File(j, kind))
  <2> TAKE kind
  <2>1. PICK f : f = File(j, kind)
    OBVIOUS
  <2>2. f[1] # Name(k) /\ File(j, kind)' = f
    BY <1>2, <1>3, <2>1
  <2>3. /\ f \in DOMAIN temp' <=> f \in DOMAIN temp
        /\ f \in DOMAIN temp => temp'[f] = temp[f]
    BY <2>2, FilesOfOthers
  <2>4. /\ Exists(f)' <=> Exists(f)
        /\ Contents(f)' = Contents(f)
    BY <2>3 DEF Exists, Contents
  <2> QED
    BY <2>1, <2>2, <2>4 DEF Exists, Contents
<1>5. linked'[j] = linked[j]
  BY <1>2 DEF TypeOK, JobStep, Start, IncrementId, GetTimeMs, ReadId, WriteFile, Gpp,
              CompileBreaks, Compiled, OpenStdFiles, RunBreaks, Exec, ProgramEnds,
              Wait, Reply, RemoveTempFile
<1> QED
  BY <1>1, <1>4, <1>5 DEF Own

\* With ReadId a submission that is alone gets a name without files.
LEMMA OwnStart ==
  ASSUME Naming, NothingLeftOver, NEW j \in Jobs, ReadId(j), Alone(j)'
  PROVE  Own(j)'
<1> USE DEF Naming
<1>1. /\ UNCHANGED <<temp, ms, ran, out>>
      /\ pc'[j] = "write"
      /\ ~Named(j)
  BY DEF ReadId, Step, TypeOK, Phases
<1>2. ran[j] = Blank /\ out[j] = Blank
  BY <1>1 DEF Phases
<1>3. Named(j)'
  <2>1. JobStep(j)
    BY DEF JobStep
  <2> QED
    BY <1>1, <2>1, PhasesStep DEF Phases
<1>4. ASSUME NEW kind PROVE ~Exists(File(j, kind))'
  <2> SUFFICES ASSUME Exists(File(j, kind))' PROVE FALSE
    OBVIOUS
  <2>1. PICK f \in DOMAIN temp : f[1] = Name(j)'
    BY <1>1 DEF Exists, File
  <2>2. PICK k \in Jobs : Busy(k) /\ f[1] = Name(k)
    BY DEF NothingLeftOver
  <2>3. k # j
    BY <1>1, <2>2 DEF Busy
  <2>4. Name(k)' = Name(k)
    BY <2>3 DEF ReadId, Name, TypeOK
  <2> QED
    BY <1>3, <2>1, <2>2, <2>3, <2>4 DEF Alone
<1>5. \A kind : Contents(File(j, kind))' = Blank
  BY <1>4 DEF Contents, Exists
<1> QED
  BY <1>1, <1>2, <1>4, <1>5 DEF Own

\* A submission's own step keeps what it owns: the contents of its files and
\* what it read from them are its own.
LEMMA OwnNext ==
  ASSUME Naming, NEW j \in Jobs, JobStep(j), Named(j), Own(j)
  PROVE  Own(j)'
<1> USE DEF Naming
<1> DEFINE file(kind) == File(j, kind)
<1>1. TempOK /\ Blank \notin Jobs
  BY DEF TypeOK, TempOK, FileNames
<1>2. ~IncrementId(j) /\ ~GetTimeMs(j) /\ ~ReadId(j)
  BY DEF IncrementId, GetTimeMs, ReadId, Step, Phases
<1>3. \A kind : File(j, kind)' = File(j, kind)
  BY <1>2, NamesKept DEF File, Name
<1>4. \A kind \in Kinds : File(j, kind) \in FileNames
  BY FileIsName
<1>5. \A kind, other : File(j, kind) = File(j, other) => kind = other
  BY DEF File
<1> USE DEF Own, Step, Fail, TypeOK
<1>6. ASSUME UNCHANGED temp
      PROVE  \A kind : /\ Exists(File(j, kind))' <=> Exists(File(j, kind))
                       /\ Contents(File(j, kind))' = Contents(File(j, kind))
  BY <1>3, <1>6 DEF Exists, Contents
<1>7. CASE Start(j) \/ CompileBreaks(j)
  BY <1>6, <1>7 DEF Start, CompileBreaks, Phases
<1>8. CASE Compiled(j)
  BY <1>6, <1>8 DEF Compiled
<1>9. CASE Exec(j)
  BY <1>6, <1>9 DEF Exec, Contents, Kinds
<1>10. CASE Wait(j)
  BY <1>6, <1>10 DEF Wait
<1>11. CASE Reply(j)
  <2>1. /\ ReadFile(File(j, "stdout")) \subseteq {j, Blank, Unread}
        /\ ran[j] = j => ReadFile(File(j, "stdout")) \subseteq {j, Unread} \/ pc[j] # "reply"
    BY DEF ReadFile, Kinds
  <2> QED
    BY <1>6, <1>11, <2>1 DEF Reply
<1>12. CASE RemoveTempFile(j)
  <2>1. \A kind : ~Exists(File(j, kind))'
    BY <1>3, <1>12 DEF RemoveTempFile, Restrict, Exists, File
  <2>2. \A kind : Contents(File(j, kind))' = Blank
    BY <2>1 DEF Contents, Exists
  <2> QED
    BY <1>12, <2>1, <2>2 DEF RemoveTempFile
\* What writing one file, or opening some, does to those of j.
<1>13. ASSUME NEW kind \in Kinds, NEW c \in Jobs \cup {Blank}, Write(File(j, kind), c)
       PROVE  /\ Exists(File(j, kind))' /\ Contents(File(j, kind))' = c
              /\ \A other \in Kinds \ {kind} :
                   /\ Exists(File(j, other))' <=> Exists(File(j, other))
                   /\ Contents(File(j, other))' = Contents(File(j, other))
  <2>1. PICK f \in FileNames : f = File(j, kind)
    BY <1>4
  <2>2. /\ DOMAIN temp' = DOMAIN temp \cup {f}
        /\ temp'[f] = c
        /\ \A g \in DOMAIN temp \ {f} : temp'[g] = temp[g]
    BY <1>1, <1>13, <2>1, WriteToFile
  <2>3. \A other \in Kinds \ {kind} : File(j, other) # f
    BY <1>5, <2>1
  <2> QED
    BY <1>3, <2>1, <2>2, <2>3 DEF Exists, Contents
<1>14. ASSUME NEW files \in SUBSET StdFiles(j), Create(files)
       PROVE  /\ \A kind \in Kinds : Contents(File(j, kind))' = Contents(File(j, kind))
              /\ \A kind \in {"cpp", "exe"} :
                   Exists(File(j, kind))' <=> Exists(File(j, kind))
  <2>1. files \subseteq FileNames
    BY <1>4 DEF StdFiles, Kinds
  <2>2. /\ DOMAIN temp' = DOMAIN temp \cup files
        /\ \A f \in DOMAIN temp : temp'[f] = temp[f]
        /\ \A f \in files \ DOMAIN temp : temp'[f] = Blank
    BY <1>1, <1>14, <2>1, CreateFiles
  <2>3. \A kind \in {"cpp", "exe"} : File(j, kind) \notin files
    BY <1>5 DEF StdFiles
  <2>4. \A kind \in Kinds : Contents(File(j, kind))' = Contents(File(j, kind))
    <3> TAKE kind \in Kinds
    <3>1. PICK f : f = File(j, kind)
      OBVIOUS
    <3>2. Contents(f)' = Contents(f)
      BY <2>2 DEF Contents, Exists
    <3> QED
      BY <1>3, <3>1, <3>2 DEF Contents, Exists
  <2> QED
    BY <1>3, <2>2, <2>3, <2>4 DEF Exists
<1>15. CASE WriteFile(j)
  <2>1. CASE Write(File(j, "cpp"), j) /\ Step(j, "write", "compile") /\ UNCHANGED status
    <3>1. /\ Contents(File(j, "cpp"))' = j
          /\ \A other \in Kinds \ {"cpp"} :
               /\ Exists(File(j, other))' <=> Exists(File(j, other))
               /\ Contents(File(j, other))' = Contents(File(j, other))
      BY <1>13, <2>1 DEF Kinds
    <3>2. \A kind \in Kinds : Contents(File(j, kind))' \in {j, Blank}
      BY <3>1
    <3>3. \A kind \in {"cpp", "exe"} :
            Exists(File(j, kind))' => Contents(File(j, kind))' = j
      BY <3>1 DEF Kinds
    <3> QED
      BY <1>15, <2>1, <3>2, <3>3 DEF WriteFile
  <2>2. CASE UNCHANGED temp /\ Fail(j, "write", -2)
    BY <1>6, <1>15, <2>2 DEF WriteFile
  <2> QED
    BY <1>15, <2>1, <2>2 DEF WriteFile
<1>16. CASE Gpp(j)
  <2> DEFINE cpp == File(j, "cpp")
             exe == File(j, "exe")
             err == File(j, "compile_error")
  <2>1. /\ DOMAIN temp \subseteq DOMAIN temp'
        /\ DOMAIN temp' \subseteq DOMAIN temp \cup {exe, err}
        /\ \A f \in DOMAIN temp \ {exe} : temp'[f] = temp[f]
        /\ err \in DOMAIN temp' \ DOMAIN temp => temp'[err] = Blank
        /\ exe \in DOMAIN temp' =>
             \/ exe \in DOMAIN temp /\ temp'[exe] = temp[exe]
             \/ cpp \in DOMAIN temp /\ temp'[exe] = temp[cpp]
    BY <1>16, GppFiles
  <2>2. /\ cpp \in DOMAIN temp => temp[cpp] = j
        /\ exe \in DOMAIN temp => temp[exe] = j
    BY DEF Exists, Contents, Kinds
  <2>3. cpp # exe /\ cpp # err /\ exe # err
    BY <1>5
  <2>4. /\ exe \in DOMAIN temp' => temp'[exe] = j
        /\ cpp \in DOMAIN temp' => temp'[cpp] = j
        /\ \A f \in DOMAIN temp' : f # exe /\ f # err => f \in DOMAIN temp /\ temp'[f] = temp[f]
        /\ err \in DOMAIN temp' => temp'[err] = Blank
                                   \/ (err \in DOMAIN temp /\ temp'[err] = temp[err])
    <3> HIDE DEF cpp, exe, err
    <3> QED
      BY <2>1, <2>2, <2>3
  <2>5. \A kind \in {"cpp", "exe"} : Exists(File(j, kind))' => Contents(File(j, kind))' = j
    BY <1>3, <2>4 DEF Exists, Contents
  <2>6. \A kind \in Kinds : Contents(File(j, kind))' \in {j, Blank}
    <3> TAKE kind \in Kinds
    <3>1. PICK f : f = File(j, kind)
      OBVIOUS
    <3>2. f \in DOMAIN temp => temp[f] \in {j, Blank}
      BY <3>1 DEF Exists, Contents
    <3>3. f \in DOMAIN temp' => temp'[f] \in {j, Blank}
      BY <2>4, <3>2
    <3> QED
      BY <1>3, <3>1, <3>3 DEF Exists, Contents
  <2> QED
    BY <1>16, <2>5, <2>6 DEF Gpp
<1>17. CASE OpenStdFiles(j)
  <2>1. Create(StdFiles(j))
    BY <1>17 DEF OpenStdFiles
  <2>2. /\ \A kind \in Kinds : Contents(File(j, kind))' = Contents(File(j, kind))
        /\ \A kind \in {"cpp", "exe"} : Exists(File(j, kind))' <=> Exists(File(j, kind))
    BY <1>14, <2>1
  <2>3. {"cpp", "exe"} \subseteq Kinds
    BY DEF Kinds
  <2> QED
    BY <1>17, <2>2, <2>3 DEF OpenStdFiles
<1>18. CASE RunBreaks(j)
  <2>1. /\ \A kind \in Kinds : Contents(File(j, kind))' = Contents(File(j, kind))
        /\ \A kind \in {"cpp", "exe"} : Exists(File(j, kind))' <=> Exists(File(j, kind))
    BY <1>6, <1>14, <1>18 DEF RunBreaks
  <2>2. {"cpp", "exe"} \subseteq Kinds
    BY DEF Kinds
  <2> QED
    BY <1>18, <2>1, <2>2 DEF RunBreaks
<1>19. CASE ProgramEnds(j)
  <2>1. Write(File(j, "stdout"), j) /\ ran[j] = j
    BY <1>19 DEF ProgramEnds
  <2>2. "stdout" \in Kinds /\ "cpp" \in Kinds \ {"stdout"} /\ "exe" \in Kinds \ {"stdout"}
    BY DEF Kinds
  <2>3. /\ Contents(File(j, "stdout"))' = j
        /\ \A other \in Kinds \ {"stdout"} :
             /\ Exists(File(j, other))' <=> Exists(File(j, other))
             /\ Contents(File(j, other))' = Contents(File(j, other))
    BY <1>13, <2>1, <2>2
  <2>4. \A kind \in Kinds : Contents(File(j, kind))' \in {j, Blank}
    BY <2>3
  <2>5. \A kind \in {"cpp", "exe"} : Exists(File(j, kind))' => Contents(File(j, kind))' = j
    BY <2>2, <2>3
  <2> QED
    BY <1>19, <2>1, <2>3, <2>4, <2>5 DEF ProgramEnds
<1> QED
  BY <1>2, <1>7, <1>8, <1>9, <1>10, <1>11, <1>12, <1>15, <1>16, <1>17, <1>18, <1>19
     DEF JobStep

\* Of a submission alone with its name, the files and what was read from them
\* stay its own in every step of anybody.
LEMMA OwnFilesStep ==
  ASSUME Naming, NothingLeftOver, OwnFiles, NEW k \in Jobs, JobStep(k)
  PROVE  OwnFiles'
<1>1. SUFFICES ASSUME NEW j \in Jobs, Named(j)', Alone(j)' PROVE Own(j)'
  BY DEF OwnFiles
<1>2. CASE j = k /\ ReadId(j)
  BY <1>1, <1>2, OwnStart
<1>3. CASE j # k \/ ~ReadId(j)
  <2>1. Named(j) /\ Name(j)' = Name(j)
    <3>1. CASE j # k
      BY <1>1, <3>1, OthersKept DEF Naming, Named, Name
    <3>2. CASE j = k /\ ~ReadId(j)
      <4>1. Named(j)
        BY <1>1, <3>2 DEF JobStep, Start, IncrementId, GetTimeMs, WriteFile, Gpp,
                CompileBreaks, Compiled, OpenStdFiles, RunBreaks, Exec, ProgramEnds,
                Wait, Reply, RemoveTempFile, Named
      <4>2. ~IncrementId(j) /\ ~GetTimeMs(j)
        BY <4>1 DEF Naming, Phases, IncrementId, GetTimeMs, Step
      <4> QED
        BY <3>2, <4>1, <4>2, NamesKept DEF Name
    <3> QED
      BY <1>3, <3>1, <3>2
  <2>2. Alone(j)
    <3> SUFFICES ASSUME NEW i \in Jobs, Name(i) = Name(j) PROVE i = j
      BY DEF Alone
    <3>1. Named(i)
      BY <2>1 DEF Name, Named
    <3>2. Name(i)' = Name(i)
      <4>1. CASE i # k
        BY <4>1, OthersKept DEF Naming, Name
      <4>2. CASE i = k
        <5>1. ~IncrementId(i) /\ ~GetTimeMs(i) /\ ~ReadId(i)
          BY <3>1 DEF Naming, Phases, IncrementId, GetTimeMs, ReadId, Step
        <5> QED
          BY <4>2, <5>1, NamesKept DEF Name
      <4> QED
        BY <4>1, <4>2
    <3> QED
      BY <1>1, <2>1, <3>2 DEF Alone
  <2>3. Own(j)
    BY <2>1, <2>2 DEF OwnFiles
  <2> QED
    BY <1>3, <2>1, <2>2, <2>3, OwnKept, OwnNext
<1> QED
  BY <1>2, <1>3

\* So is what a submission finds in ./temp/, which needs the names.
THEOREM CompileInvariance == Spec => [](Naming /\ NothingLeftOver /\ OwnFiles)
<1>1. Init => NothingLeftOver /\ OwnFiles
  BY DEF Init, NothingLeftOver, OwnFiles, Named
<1>2. Naming /\ NothingLeftOver /\ OwnFiles /\ [Next]_vars
        => NothingLeftOver' /\ OwnFiles'
  <2> SUFFICES ASSUME Naming, NothingLeftOver, OwnFiles, [Next]_vars
               PROVE  NothingLeftOver' /\ OwnFiles'
    OBVIOUS
  <2>1. ASSUME NEW j \in Jobs, JobStep(j) PROVE NothingLeftOver' /\ OwnFiles'
    BY <2>1, LeftOverStep, OwnFilesStep
  <2>2. CASE Tick \/ UNCHANGED vars
    <3>1. UNCHANGED <<temp, local>>
      BY <2>2 DEF Tick, vars
    <3>2. NothingLeftOver'
      BY <3>1 DEF local, NothingLeftOver, Busy, Named, Name
    <3>3. OwnFiles'
      BY <3>1 DEF local, OwnFiles, Named, Name, Alone, Own, File, Exists, Contents
    <3> QED
      BY <3>2, <3>3
  <2> QED
    BY <2>1, <2>2, NextCases
<1> QED
  BY <1>1, <1>2, NamingInit, NamingStep, PTL DEF Spec

\* Every file in ./temp/ is of a submission that is being judged.
THEOREM TempClean == Spec => []NothingLeftOver
<1>1. Naming /\ NothingLeftOver /\ OwnFiles => NothingLeftOver
  OBVIOUS
<1> QED
  BY <1>1, CompileInvariance, PTL

\* A submission whose name is its own is judged by its own program and output.
THEOREM VerdictsOwn == Spec => []OwnVerdict
<1>1. Naming /\ NothingLeftOver /\ OwnFiles => OwnVerdict
  <2> SUFFICES ASSUME Naming, OwnFiles, NEW j \in Jobs, Alone(j)
               PROVE  /\ ran[j] \in {j, Blank}
                      /\ out[j] \in {j, Blank, Unread}
                      /\ pc[j] = "done" /\ status[j] = 0 /\ ran[j] = j
                           => out[j] \in {j, Unread}
    BY DEF OwnVerdict, Alone
  <2>1. CASE Named(j)
    BY <2>1 DEF OwnFiles, Own
  <2>2. CASE ~Named(j)
    BY <2>2 DEF Naming, Phases
  <2> QED
    BY <2>1, <2>2
<1> QED
  BY <1>1, CompileInvariance, PTL

-----------------------------------------------------------------------------
(* Status codes *)

\* A source and a program are those of a submission, whosever they are.
SourcesWritten == \A f \in DOMAIN temp : f[2] \in {"cpp", "exe"} => temp[f] \in Jobs

\* What is known of a submission before it is answered.
RunSoFar ==
  \A j \in Jobs :
    /\ pc[j] \notin {"running", "ended", "reply", "clean", "done", "thrown"} => ran[j] = Blank
    /\ pc[j] \notin {"reply", "clean", "done", "thrown"} => status[j] = 0
    /\ pc[j] \notin {"clean", "done"} => out[j] = Blank
    /\ pc[j] = "running" => ran[j] # Blank
    /\ pc[j] = "ended" => ran[j] # Blank \/ wstatus[j] = 256

SignsInv == Naming /\ SourcesWritten /\ RunSoFar /\ SignTells

\* The sources and programs in ./temp/ are written by WriteFile and g++, and the
\* latter writes what the source has.
LEMMA SourcesStep ==
  ASSUME Naming, SourcesWritten, NEW j \in Jobs, JobStep(j)
  PROVE  SourcesWritten'
<1> USE DEF Naming
<1>1. TempOK
  BY DEF TypeOK, TempOK, FileNames
<1>2. CASE UNCHANGED temp
  BY <1>2 DEF SourcesWritten
<1>3. CASE WriteFile(j) \/ ProgramEnds(j)
  <2>1. Named(j) /\ ran[j] \in Jobs \cup {Blank}
    BY <1>3 DEF WriteFile, ProgramEnds, Step, Fail, Phases, TypeOK
  <2>2. ASSUME NEW kind \in Kinds, NEW c \in Jobs \cup {Blank}, Write(File(j, kind), c),
               kind = "cpp" => c \in Jobs, kind # "exe"
        PROVE  SourcesWritten'
    <3>1. PICK file \in FileNames : file = File(j, kind)
      BY <2>1, FileIsName
    <3>2. /\ DOMAIN temp' = DOMAIN temp \cup {file}
          /\ temp'[file] = c
          /\ \A g \in DOMAIN temp \ {file} : temp'[g] = temp[g]
      BY <1>1, <2>2, <3>1, WriteToFile
    <3>3. file[2] = kind
      BY <3>1 DEF File
    <3> QED
      BY <2>2, <3>2, <3>3 DEF SourcesWritten
  <2>3. CASE WriteFile(j)
    <3>1. Write(File(j, "cpp"), j) \/ UNCHANGED temp
      BY <2>3 DEF WriteFile
    <3> QED
      BY <1>2, <2>2, <3>1 DEF Kinds
  <2>4. CASE ProgramEnds(j)
    <3>1. Write(File(j, "stdout"), ran[j]) \/ UNCHANGED temp
      BY <2>4 DEF ProgramEnds
    <3> QED
      BY <1>2, <2>1, <2>2, <3>1 DEF Kinds
  <2> QED
    BY <1>3, <2>3, <2>4
<1>4. CASE Gpp(j)
  <2> DEFINE cpp == File(j, "cpp")
             exe == File(j, "exe")
             err == File(j, "compile_error")
  <2>1. /\ DOMAIN temp' \subseteq DOMAIN temp \cup {exe, err}
        /\ \A f \in DOMAIN temp \ {exe} : temp'[f] = temp[f]
        /\ exe \in DOMAIN temp' =>
             \/ exe \in DOMAIN temp /\ temp'[exe] = temp[exe]
             \/ cpp \in DOMAIN temp /\ temp'[exe] = temp[cpp]
    BY <1>4, GppFiles
  <2>2. cpp[2] = "cpp" /\ exe[2] = "exe" /\ err[2] = "compile_error"
    BY DEF File
  <2> HIDE DEF cpp, exe, err
  <2> QED
    BY <2>1, <2>2 DEF SourcesWritten
<1>5. CASE OpenStdFiles(j) \/ RunBreaks(j)
  <2>1. Named(j)
    BY <1>5 DEF OpenStdFiles, RunBreaks, Step, Fail, Phases
  <2>2. /\ StdFiles(j) \subseteq FileNames
        /\ \A f \in StdFiles(j) : f[2] \notin {"cpp", "exe"}
    <3>1. \A kind \in Kinds : File(j, kind) \in FileNames
      BY <2>1, FileIsName
    <3>2. StdFiles(j) \subseteq FileNames
      BY <3>1 DEF StdFiles, Kinds
    <3>3. \A f \in StdFiles(j) : f[2] \notin {"cpp", "exe"}
      BY DEF StdFiles, File
    <3> QED
      BY <3>2, <3>3
  <2>3. ASSUME NEW files \in SUBSET StdFiles(j), Create(files)
        PROVE  SourcesWritten'
    <3>1. /\ DOMAIN temp' = DOMAIN temp \cup files
          /\ \A f \in DOMAIN temp : temp'[f] = temp[f]
      BY <1>1, <2>2, <2>3, CreateFiles
    <3> QED
      BY <2>2, <3>1 DEF SourcesWritten
  <2> QED
    BY <1>2, <1>5, <2>3 DEF OpenStdFiles, RunBreaks
<1>6. CASE RemoveTempFile(j)
  BY <1>6 DEF RemoveTempFile, Restrict, SourcesWritten
<1> QED
  BY <1>2, <1>3, <1>4, <1>5, <1>6
     DEF JobStep, Start, IncrementId, GetTimeMs, ReadId, CompileBreaks, Compiled, Exec,
         Wait, Reply

\* Each step of a submission keeps its status code, its program and its output in
\* agreement.
LEMMA SignsStep ==
  ASSUME SignsInv, NEW j \in Jobs, JobStep(j)
  PROVE  RunSoFar' /\ SignTells'
<1> USE DEF SignsInv, Naming
<1> DEFINE
  S(k) ==
    /\ pc[k] \notin {"running", "ended", "reply", "clean", "done", "thrown"} => ran[k] = Blank
    /\ pc[k] \notin {"reply", "clean", "done", "thrown"} => status[k] = 0
    /\ pc[k] \notin {"clean", "done"} => out[k] = Blank
    /\ pc[k] = "running" => ran[k] # Blank
    /\ pc[k] = "ended" => ran[k] # Blank \/ wstatus[k] = 256
    /\ status[k] < 0 => ran[k] = Blank
    /\ status[k] > 0 => ran[k] # Blank /\ wstatus[k] \in {status[k], status[k] + 128}
    /\ pc[k] \in {"reply", "clean", "done", "thrown"} /\ status[k] = 0
         => wstatus[k] \in {0, 256}
    /\ out[k] # Blank => status[k] = 0
<1>1. \A k \in Jobs : S(k)
  BY DEF RunSoFar, SignTells
<1>2. SUFFICES \A k \in Jobs : S(k)'
  BY DEF RunSoFar, SignTells
<1>3. ASSUME NEW k \in Jobs, k # j PROVE S(k)'
  <2>1. UNCHANGED <<pc[k], status[k], wstatus[k], ran[k], out[k]>>
    BY <1>3, OthersKept
  <2> QED
    BY <1>1, <2>1
<1>4. S(j)'
  <2>1. S(j) /\ pc[j] \in PCs
    BY <1>1 DEF TypeOK
  <2> USE DEF Step, Fail, TypeOK
  <2>2. CASE Start(j) \/ IncrementId(j) \/ GetTimeMs(j) \/ ReadId(j)
    BY <2>1, <2>2 DEF Start, IncrementId, GetTimeMs, ReadId
  <2>3. CASE WriteFile(j) \/ Gpp(j) \/ CompileBreaks(j) \/ Compiled(j)
    BY <2>1, <2>3 DEF WriteFile, Gpp, CompileBreaks, Compiled
  <2>4. CASE OpenStdFiles(j) \/ RunBreaks(j)
    BY <2>1, <2>4 DEF OpenStdFiles, RunBreaks
  <2>5. CASE Exec(j)
    <3>1. Exists(File(j, "exe")) => temp[File(j, "exe")] \in Jobs
      BY DEF SourcesWritten, Exists, File
    <3> QED
      BY <2>1, <2>5, <3>1 DEF Exec, WaitStatuses
  <2>6. CASE ProgramEnds(j)
    BY <2>1, <2>6 DEF ProgramEnds
  <2>7. CASE Wait(j)
    <3>1. wstatus[j] \in WaitStatuses
      OBVIOUS
    <3>2. LET s == wstatus[j] % 128
          IN  /\ s \in Nat
              /\ s > 0 => wstatus[j] # 256 /\ wstatus[j] \in {s, s + 128}
              /\ s = 0 => wstatus[j] \in {0, 256}
      <4>1. CASE wstatus[j] \in {0, 256}
        BY <4>1
      <4>2. CASE wstatus[j] \in Signals
        <5>1. wstatus[j] \in 1 .. 126
          BY <4>2
        <5> QED
          BY <5>1
      <4>3. CASE \E s \in Signals : wstatus[j] = s + 128
        <5>1. PICK s \in 1 .. 126 : wstatus[j] = s + 128
          BY <4>3
        <5>2. (s + 128) % 128 = s
          BY ONLY s \in 1 .. 126
        <5> QED
          BY <5>1, <5>2
      <4> QED
        BY <3>1, <4>1, <4>2, <4>3 DEF WaitStatuses
    <3>3. status'[j] = wstatus[j] % 128 /\ pc[j] = "ended" /\ pc'[j] = "reply"
      BY <2>7 DEF Wait
    <3>4. UNCHANGED <<wstatus, ran, out>> /\ out[j] = Blank
      BY <2>1, <2>7 DEF Wait
    <3>5. ran[j] # Blank \/ wstatus[j] = 256
      BY <2>1, <3>3
    <3>6. /\ status'[j] \in Nat
          /\ status'[j] > 0 => ran'[j] # Blank /\ wstatus'[j] \in {status'[j], status'[j] + 128}
          /\ status'[j] = 0 => wstatus'[j] \in {0, 256}
      BY <3>2, <3>3, <3>4, <3>5
    <3> QED
      BY <3>3, <3>4, <3>6
  <2>8. CASE Reply(j)
    BY <2>1, <2>8 DEF Reply
  <2>9. CASE RemoveTempFile(j)
    BY <2>1, <2>9 DEF RemoveTempFile
  <2> QED
    BY <2>2, <2>3, <2>4, <2>5, <2>6, <2>7, <2>8, <2>9 DEF JobStep
<1> QED
  BY <1>3, <1>4

\* The sign of a status code tells what became of the submission.
THEOREM SignsCorrect == Spec => []SignTells
<1>1. Init => SignsInv
  BY NamingInit DEF Init, SignsInv, SourcesWritten, RunSoFar, SignTells
<1>2. SignsInv /\ [Next]_vars => SignsInv'
  <2> SUFFICES ASSUME SignsInv, [Next]_vars PROVE SignsInv'
    OBVIOUS
  <2>1. Naming'
    BY NamingStep DEF SignsInv
  <2>2. ASSUME NEW j \in Jobs, JobStep(j) PROVE SignsInv'
    BY <2>1, <2>2, SourcesStep, SignsStep DEF SignsInv
  <2>3. CASE Tick \/ UNCHANGED vars
    <3>1. UNCHANGED <<temp, local>>
      BY <2>3 DEF Tick, vars
    <3> QED
      BY <2>1, <3>1 DEF local, SignsInv, SourcesWritten, RunSoFar, SignTells
  <2> QED
    BY <2>2, <2>3, NextCases
<1>3. SignsInv => SignTells
  BY DEF SignsInv
<1> QED
  BY <1>1, <1>2, <1>3, PTL DEF Spec

=============================================================================
