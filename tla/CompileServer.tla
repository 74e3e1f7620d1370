---------------------------- MODULE CompileServer ----------------------------
(***************************************************************************)
(* The compile_server processes: CompileAndRun::Start with UniqFileName,   *)
(* Compiler::Compile, Runner::Run and RemoveTempFile.  Every submission is *)
(* handled by a thread of one server; all servers started in one directory *)
(* share ./temp/, and a submission finds its own files by name only.  What *)
(* g++ and the submitted program do is nondeterministic.                   *)
(*                                                                         *)
(* The contents of a file is the submission it comes from: the source, the *)
(* program compiled from it, the output that program printed.              *)
(***************************************************************************)
EXTENDS Integers, FiniteSets, Functions

CONSTANTS
  Jobs,      \* the submissions
  Servers,   \* the compile_server processes that share ./temp/
  IdMod,     \* number of values of the atomic_uint in UniqFileName (2^32)
  MaxMs,     \* bound: the last value of the millisecond clock
  Signals,   \* the signals a submitted program may die of, of 1 .. 126
  MayBreak,  \* whether open, fork, exec, WriteFile, ReadFile and the reply may fail
  Blank,     \* the contents of a file nobody has written to
  Unread     \* what ReadFile leaves of a file it cannot open: to the client, nothing

ASSUME JobsAssumption ==
  IsFiniteSet(Jobs) /\ Blank \notin Jobs /\ Unread \notin Jobs /\ Unread # Blank
ASSUME ClockAssumption == MaxMs \in Nat
\* The counter of a server does not wrap around while the submissions last.
ASSUME IdAssumption == IdMod \in Nat /\ Cardinality(Jobs) < IdMod
ASSUME SignalsAssumption == Signals \subseteq 1 .. 126 /\ MayBreak \in BOOLEAN

VARIABLES
  clock,    \* what gettimeofday returns, in ms
  counter,  \* the static atomic id of each server
  temp,     \* ./temp/: from the files that exist to their contents
  pc,       \* where Start is for a submission
  server,   \* the server that has it
  ms, num,  \* its file name, "<ms>_<num>"; num is 0 before there is one
  wstatus,  \* the wait status of its program
  ran,      \* the submission whose program execl started, or Blank
  linked,   \* whether its program's standard output is still a file of temp
  status,   \* the status_code it is answered with
  out,      \* the submission whose output it is answered with, or Blank or Unread
  earlier   \* history: the submissions its server had named when it began to name it

local == <<pc, server, ms, num, wstatus, ran, linked, status, out>>
vars == <<clock, counter, temp, local, earlier>>

Kinds == {"cpp", "compile_error", "exe", "stdin", "stdout", "stderr"}
Name(j) == <<ms[j], num[j]>>
Named(j) == num[j] # 0
File(j, kind) == <<Name(j), kind>>
Exists(file) == file \in DOMAIN temp
Contents(file) == IF Exists(file) THEN temp[file] ELSE Blank

Init ==
  /\ clock = 0
  /\ counter = [s \in Servers |-> 0]
  /\ temp = [f \in {} |-> Blank]
  /\ pc = [j \in Jobs |-> "new"]
  /\ server \in [Jobs -> Servers]
  /\ ms = [j \in Jobs |-> 0]
  /\ num = [j \in Jobs |-> 0]
  /\ wstatus = [j \in Jobs |-> 0]
  /\ ran = [j \in Jobs |-> Blank]
  /\ linked = [j \in Jobs |-> FALSE]
  /\ status = [j \in Jobs |-> 0]
  /\ out = [j \in Jobs |-> Blank]
  /\ earlier = [j \in Jobs |-> {}]

\* What waitpid reports: an exit with 0 or 1, or a signal, and 128 with a core.
WaitStatuses == {0, 256} \cup Signals \cup {s + 128 : s \in Signals}

Step(j, from, to) == pc[j] = from /\ pc' = [pc EXCEPT ![j] = to]

\* A directory once a file is written, and once the files of a set are opened
\* to be written: those that exist keep their contents.
Written(dir, file, contents) ==
  [f \in DOMAIN dir \cup {file} |-> IF f = file THEN contents ELSE dir[f]]
Opened(dir, files) ==
  [f \in DOMAIN dir \cup files |-> IF f \in DOMAIN dir THEN dir[f] ELSE Blank]
Write(file, contents) == temp' = Written(temp, file, contents)
Create(files) == temp' = Opened(temp, files)

\* goto END with a status code.
Fail(j, from, code) ==
  /\ Step(j, from, "reply")
  /\ status' = [status EXCEPT ![j] = code]

\* The wall clock, which may also be set back.
Tick ==
  /\ clock' \in 0 .. MaxMs
  /\ UNCHANGED <<counter, temp, local, earlier>>

-----------------------------------------------------------------------------
(* Start, up to UniqFileName *)

\* The request is parsed; its code is empty or not.
Start(j) ==
  /\ \/ Step(j, "new", "id") /\ UNCHANGED status
     \/ Fail(j, "new", -1)
  /\ UNCHANGED <<clock, counter, temp, server, ms, num, wstatus, ran, linked, out,
                 earlier>>

\* The submissions server s has named.
NamedBy(s) == {j \in Jobs : server[j] = s /\ Named(j)}

\* Mutant: id is not static.
IncrementIdLocal(j) ==
  /\ Step(j, "id", "ms")
  /\ counter' = [counter EXCEPT ![server[j]] = 1]
  /\ earlier' = [earlier EXCEPT ![j] = NamedBy(server[j])]
  /\ UNCHANGED <<clock, temp, server, ms, num, wstatus, ran, linked, status, out>>

\* id++
IncrementId(j) ==
  /\ Step(j, "id", "ms")
  /\ counter' = [counter EXCEPT ![server[j]] = (@ + 1) % IdMod]
  /\ earlier' = [earlier EXCEPT ![j] = NamedBy(server[j])]
  /\ UNCHANGED <<clock, temp, server, ms, num, wstatus, ran, linked, status, out>>

\* GetTimeMs()
GetTimeMs(j) ==
  /\ Step(j, "ms", "name")
  /\ ms' = [ms EXCEPT ![j] = clock]
  /\ UNCHANGED <<clock, counter, temp, server, num, wstatus, ran, linked, status, out,
                 earlier>>

\* to_string(id): another read of the counter.
ReadId(j) ==
  /\ Step(j, "name", "write")
  /\ num' = [num EXCEPT ![j] = counter[server[j]]]
  /\ UNCHANGED <<clock, counter, temp, server, ms, wstatus, ran, linked, status, out,
                 earlier>>

-----------------------------------------------------------------------------
(* WriteFile and Compile *)

WriteFile(j) ==
  /\ \/ /\ Step(j, "write", "compile")
        /\ Write(File(j, "cpp"), j)
        /\ UNCHANGED status
     \/ /\ MayBreak
        /\ Fail(j, "write", -2)
        /\ UNCHANGED temp
  /\ UNCHANGED <<clock, counter, server, ms, num, wstatus, ran, linked, out, earlier>>

\* The child redirects its errors and becomes g++, which reads the source and
\* writes the program, or leaves what there is.
Gpp(j) ==
  /\ Step(j, "compile", "compiled")
  /\ \/ /\ Exists(File(j, "cpp"))
        /\ temp' = Opened(Written(temp, File(j, "exe"), temp[File(j, "cpp")]),
                          {File(j, "compile_error")})
     \/ Create({File(j, "compile_error")})
     \/ MayBreak /\ UNCHANGED temp
  /\ UNCHANGED <<clock, counter, server, ms, num, wstatus, ran, linked, status, out,
                 earlier>>

\* fork failed.
CompileBreaks(j) ==
  /\ MayBreak
  /\ Fail(j, "compile", -3)
  /\ UNCHANGED <<clock, counter, temp, server, ms, num, wstatus, ran, linked, out,
                 earlier>>

\* Mutant: a compile error returns at once.
CompiledReturns(j) ==
  /\ IF Exists(File(j, "exe"))
     THEN Step(j, "compiled", "open") /\ UNCHANGED status
     ELSE Step(j, "compiled", "done") /\ status' = [status EXCEPT ![j] = -3]
  /\ UNCHANGED <<clock, counter, temp, server, ms, num, wstatus, ran, linked, out,
                 earlier>>

\* The program exists: that counts as compiled.
Compiled(j) ==
  /\ IF Exists(File(j, "exe"))
     THEN Step(j, "compiled", "open") /\ UNCHANGED status
     ELSE Fail(j, "compiled", -3)
  /\ UNCHANGED <<clock, counter, temp, server, ms, num, wstatus, ran, linked, out,
                 earlier>>

-----------------------------------------------------------------------------
(* Run *)

StdFiles(j) == {File(j, kind) : kind \in {"stdin", "stdout", "stderr"}}

OpenStdFiles(j) ==
  /\ Step(j, "open", "fork")
  /\ Create(StdFiles(j))
  /\ linked' = [linked EXCEPT ![j] = TRUE]
  /\ UNCHANGED <<clock, counter, server, ms, num, wstatus, ran, status, out, earlier>>

\* One of the files cannot be opened, or fork fails: -1 or -2, and so -2.
RunBreaks(j) ==
  /\ MayBreak
  /\ \/ /\ Fail(j, "open", -2)
        /\ \E files \in SUBSET StdFiles(j) : files # StdFiles(j) /\ Create(files)
     \/ Fail(j, "fork", -2) /\ UNCHANGED temp
  /\ UNCHANGED <<clock, counter, server, ms, num, wstatus, ran, linked, out, earlier>>

\* The child becomes the program, or exits with 1.
Exec(j) ==
  /\ \/ /\ Exists(File(j, "exe"))
        /\ Step(j, "fork", "running")
        /\ ran' = [ran EXCEPT ![j] = temp[File(j, "exe")]]
        /\ UNCHANGED wstatus
     \/ /\ MayBreak \/ ~Exists(File(j, "exe"))
        /\ Step(j, "fork", "ended")
        /\ wstatus' = [wstatus EXCEPT ![j] = 256]
        /\ UNCHANGED ran
  /\ UNCHANGED <<clock, counter, temp, server, ms, num, linked, status, out, earlier>>

\* The program prints and exits with 0 or 1, or dies of a signal.
ProgramEnds(j) ==
  /\ Step(j, "running", "ended")
  /\ \E s \in WaitStatuses : wstatus' = [wstatus EXCEPT ![j] = s]
  /\ IF linked[j] THEN Write(File(j, "stdout"), ran[j]) ELSE UNCHANGED temp
  /\ UNCHANGED <<clock, counter, server, ms, num, ran, linked, status, out, earlier>>

\* Mutant: the whole wait status is returned.
WaitReturnsAll(j) ==
  /\ Step(j, "ended", "reply")
  /\ status' = [status EXCEPT ![j] = wstatus[j]]
  /\ UNCHANGED <<clock, counter, temp, server, ms, num, wstatus, ran, linked, out,
                 earlier>>

\* waitpid; Run returns status & 0x7F, and Start takes it as the status code.
Wait(j) ==
  /\ Step(j, "ended", "reply")
  /\ status' = [status EXCEPT ![j] = wstatus[j] % 128]
  /\ UNCHANGED <<clock, counter, temp, server, ms, num, wstatus, ran, linked, out,
                 earlier>>

-----------------------------------------------------------------------------
(* The end of Start *)

\* Mutant: the output is read back whatever the status is.
ReplyReads(j) ==
  /\ Step(j, "reply", "clean")
  /\ out' = [out EXCEPT ![j] = Contents(File(j, "stdout"))]
  /\ UNCHANGED <<clock, counter, temp, server, ms, num, wstatus, ran, linked, status,
                 earlier>>

\* ReadFile: a file that does not exist is as good as an empty one, and so is one
\* that cannot be opened because descriptors are short.
ReadFile(file) == {Contents(file)} \cup IF MayBreak THEN {Unread} ELSE {}

\* With status 0 the output is read back from its file, and nobody looks whether
\* that worked.  The output of a program may be too large for the strings and the
\* JSON it is copied to: an exception leaves Start with its files in place, and
\* httplib answers with 500.
Reply(j) ==
  /\ \/ /\ Step(j, "reply", "clean")
        /\ IF status[j] = 0
           THEN \E c \in ReadFile(File(j, "stdout")) : out' = [out EXCEPT ![j] = c]
           ELSE UNCHANGED out
     \/ /\ MayBreak
        /\ Step(j, "reply", "thrown")
        /\ UNCHANGED out
  /\ UNCHANGED <<clock, counter, temp, server, ms, num, wstatus, ran, linked, status,
                 earlier>>

\* Mutant: everything in ./temp/ is unlinked.
RemoveAllFiles(j) ==
  /\ Step(j, "clean", "done")
  /\ temp' = [f \in {} |-> Blank]
  /\ linked' = [k \in Jobs |-> FALSE]
  /\ UNCHANGED <<clock, counter, server, ms, num, wstatus, ran, status, out, earlier>>

\* The six files of that name are unlinked, whoever has them open.
RemoveTempFile(j) ==
  /\ Step(j, "clean", "done")
  /\ temp' = Restrict(temp, {f \in DOMAIN temp : f[1] # Name(j)})
  /\ linked' = [k \in Jobs |-> linked[k] /\ Name(k) # Name(j)]
  /\ UNCHANGED <<clock, counter, server, ms, num, wstatus, ran, status, out, earlier>>

-----------------------------------------------------------------------------

UniqFileName(j) == IncrementId(j) \/ GetTimeMs(j) \/ ReadId(j)
Compile(j) == Gpp(j) \/ CompileBreaks(j) \/ Compiled(j)
Run(j) == OpenStdFiles(j) \/ RunBreaks(j) \/ Exec(j) \/ ProgramEnds(j) \/ Wait(j)

Next ==
  \/ Tick
  \/ \E j \in Jobs : \/ Start(j) \/ UniqFileName(j) \/ WriteFile(j) \/ Compile(j)
                     \/ Run(j) \/ Reply(j) \/ RemoveTempFile(j)

Spec == Init /\ [][Next]_vars

-----------------------------------------------------------------------------
(* Properties *)

\* Start has its files of temp, or an exception has left them to nobody.
Busy(j) == Named(j) /\ pc[j] # "done"

PCs == {"new", "id", "ms", "name", "write", "compile", "compiled", "open", "fork",
        "running", "ended", "reply", "clean", "done", "thrown"}

\* The type invariant of the servers; a status code is one the clients know.
TypeOK ==
  /\ clock \in 0 .. MaxMs
  /\ counter \in [Servers -> 0 .. IdMod - 1]
  /\ DOMAIN temp \subseteq ((0 .. MaxMs) \X (1 .. IdMod - 1)) \X Kinds
  /\ \A f \in DOMAIN temp : temp[f] \in Jobs \cup {Blank}
  /\ pc \in [Jobs -> PCs]
  /\ server \in [Jobs -> Servers]
  /\ ms \in [Jobs -> 0 .. MaxMs]
  /\ num \in [Jobs -> 0 .. IdMod - 1]
  /\ wstatus \in [Jobs -> WaitStatuses]
  /\ ran \in [Jobs -> Jobs \cup {Blank}]
  /\ linked \in [Jobs -> BOOLEAN]
  /\ status \in [Jobs -> -3 .. 0 \cup Signals]
  /\ out \in [Jobs -> Jobs \cup {Blank, Unread}]
  /\ earlier \in [Jobs -> SUBSET Jobs]

\* Two calls of UniqFileName of one server return the same name only if they
\* overlap: a name returned before a call began is not returned by it, at
\* whatever time, the clock being set back included.
FreshName ==
  \A j \in Jobs : Named(j) => \A k \in earlier[j] : Name(k) # Name(j)

\* Whose name nobody else got is judged alone, whatever the others do: its program
\* is its own, no answer carries another's output, and one of success for a program
\* that ran carries its output, or nothing if just then its file could not be opened.
OwnVerdict ==
  \A j \in Jobs : (\A k \in Jobs : Named(j) /\ Name(k) = Name(j) => k = j) =>
    /\ ran[j] \in {j, Blank}
    /\ out[j] \in {j, Blank, Unread}
    /\ pc[j] = "done" /\ status[j] = 0 /\ ran[j] = j => out[j] \in {j, Unread}

\* Nothing is left over: each file in ./temp/ is one of a submission that is
\* being judged, on every path through Start but that of an exception.
NothingLeftOver ==
  \A f \in DOMAIN temp : \E j \in Jobs : Busy(j) /\ f[1] = Name(j)

\* What the sign of a status code says (compile_run.hpp:48-51), whoever's files got
\* in the way: a negative one is given before anything was run, a positive one is the
\* signal that a program died of, with 0 the child exited by itself, and there is an
\* output only with 0.
SignTells ==
  \A j \in Jobs :
    /\ status[j] < 0 => ran[j] = Blank
    /\ status[j] > 0 => ran[j] # Blank /\ wstatus[j] \in {status[j], status[j] + 128}
    /\ pc[j] \in {"reply", "clean", "done", "thrown"} /\ status[j] = 0
         => wstatus[j] \in {0, 256}
    /\ out[j] # Blank => status[j] = 0

-----------------------------------------------------------------------------
(* What the comments and the documentation claim, refuted by a run each *)

\* util.hpp:110 and docs:802: file names are unique.
NamesUnique ==
  \A j, k \in Jobs : Busy(j) /\ Busy(k) /\ Name(j) = Name(k) => j = k

\* runner.hpp:50-51: 0 is for a program that ran to its end, and an internal
\* error is negative.  So who is answered with 0 had a program that ran.
ZeroMeansRan ==
  \A j \in Jobs : pc[j] = "done" /\ status[j] = 0 => ran[j] # Blank

=============================================================================
