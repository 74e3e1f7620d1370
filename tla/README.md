# Verification of the load-balanced online judge

TLA+ specifications of the online judge in `src/`, checked with TLC on small
instances and, for the safety properties, proved with TLAPS for every value of
the constants. Every definition is read off the code; the table `map` in
`PROJECT.json` names the lines each one stands for.

## 1. The system

A browser posts a submission to **oj_server** (`/judge/<id>`). A thread of its
HTTP pool looks the problem up in MySQL, appends the problem's test code, and
posts the result to the least loaded of several **compile_server** processes,
which write it to a file, compile it with g++, run it under resource limits and
answer with a status code and the program's output.

| part | code | state | operations |
|---|---|---|---|
| dispatcher | `oj_server/oj_control.hpp` | `_machines` (a `uint64_t _load` and a mutex each), `_online`, `_offline`, `_mtx` | `Judge`, `SelectLeastLoaded`, `OfflineMachine`, `OnlineMachine`, `ShowMachines`, `IncLoad`, `DecLoad`, `ResetLoad`, `LoadConf` |
| recovery | `oj_server/oj_server.cc` | `ctrl_ptr`, the SIGINT disposition | `Recovery`, a signal handler that calls `OnlineMachine` |
| connection pool | `oj_server/oj_model.hpp` | a queue of connections, `mutex_`, `condVar_` | `getConnection`, `returnConnection`, `QueryMySql`, `GetAllProblems`, `GetOneProblem` |
| pages | `oj_control.hpp`, `oj_view.hpp`, `template_html/` | the table `oj_problems`; in the browser the editor and the result | `AllProblems`, `Problem`, `AllExpandHtml`, `OneExpandHtml`, the page's `submitCode`, `showResult` |
| compile server | `compile_server/*.hpp`, `compile_server.cc` | the static counter of `UniqFileName`, the directory `./temp/` | `Start`, `Compile`, `Run`, `RemoveTempFile`, `CodeToDesc`, `SetProcLimit` |
| utilities | `comm/util.hpp`, `comm/log.hpp` | the counter above | names, files, splitting, escaping, logging |
| HTTP library | `comm/httplib.h` (vendored) | the listening socket, `jobs_`, `shutdown_`, the workers; a client's socket | `listen_internal`, `ThreadPool`, `process_and_close_socket`, `ClientImpl::send` |
| MySQL client | `comm/mysql-connector/` (vendored headers) | | |

How they interact: worker threads call the pool and the dispatcher; they share
`_mtx`, the loads and the pool's queue. A SIGINT interrupts any of them, the
holder of `_mtx` included. oj_server and the compile servers exchange HTTP
requests only; the client gives up after 5 s without an answer
(`comm/httplib.h:32`), and then the server counts as dead. Compile servers
started in one directory share `./temp/`.

What is hard, and what makes each part correct:

- **Dispatcher.** Several workers see one machine fail while another recovers it;
  loads change during a scan; a failure is acted upon after its machine was
  recovered. It is correct if every machine is in exactly one list, loads count
  what is in flight, a scan finds the least load it read, a submission is not
  sent again to a machine that failed it, is answered by the machine that had it
  and is sent away only if no machine is online, and every Judge returns.
- **Recovery.** A handler that takes a lock. It should bring every machine back
  and block nobody.
- **Pool.** Lost wakeups, a connection used twice or never given back, exceptions
  that lose one.
- **HTTP server.** One condition variable for jobs and shutdown, connections that
  stay open and idle on a worker, clients that stop half way or send bit by bit
  without an end, handlers that never return, an `accept` that fails. It is correct if
  whatever was accepted is served and closed, once, and nobody is starved while a
  worker is left that neither a handler nor a trickling client holds.
- **Compile server.** Names that collide, files removed under somebody who uses
  them, error paths that leave files, results of calls that nobody looks at, exit
  states folded into one number. It is correct if names are not shared, nobody gets the
  verdict or the output of another, and nothing stays behind.
- **All of it together.** A timeout looks like a crash, and the server that was
  given up works on; crashed servers come back; clicks overlap and their answers
  overtake each other. It is correct if every click comes back, machines are not
  flooded with copies of one submission, and a result that was on the page at a click
  gives way to that of the click. (Of clicks that overlap the page shows the answer
  that comes last, be it that of the older one.)
- **Pages.** The table changes between a page, the click and the judging; preset
  code has to get through HTML, and does, but for what reads as a character reference.

`hazards` in `PROJECT.json` lists them line by line with the properties that
watch them.

## 2. Modules

| module | what it is |
|---|---|
| `LoadBalance` | dispatcher, judging loop and signal handler |
| `JudgeDispatch` | abstract specification: what a submitter is promised |
| `ConnectionPool` | the pool and `QueryMySql` |
| `PoolService` | abstract specification: what the pool promises to a query |
| `HttpServer` | httplib's server: the accepting thread, the thread pool, keep-alive |
| `HttpService` | abstract specification: what the server promises to those who connect |
| `CompileServer` | `Start` on several servers that share `./temp/` |
| `JudgeSystem` | the way of a submission through page, dispatcher (`JudgeDispatch`), client and compile servers |
| `Problems` | the table, the list, the page of a problem, and what `Judge` takes from it |
| `MCLoadBalance`, `MCConnectionPool`, `MCCompileServer`, `MCHttpServer`, `MCJudgeSystem`, `MCProblems` | the instances for TLC |
| `SequenceLemmas` | facts about `Append`, `Head`, `Tail`, `SubSeq`, `\o`, `RemoveFirst`, `ToSet`, `IsInjective` |
| `LoadBalanceProofs`, `LoadBalanceRefinement`, `ConnectionPoolProofs`, `CompileServerProofs`, `HttpServerProofs`, `JudgeSystemProofs`, `ProblemsProofs` | theorems and proofs |

### LoadBalance

`load`, `online`, `offline` and `mtx` are the fields of the class; `machine`, `minLoad`,
`seen` and `outJson` the locals of a worker's `Judge`, where the length of `seen` is the
loop index and its elements the loads that were read. `pc` and `handler` say where a
thread is. A critical section of `_mtx` is a lock step and then one step per access to
state that others may change meanwhile: the loads have mutexes of their own, so the scan
reads one load per step (`ScanNext`), while `OfflineMachine`, whose section touches only
what `_mtx` protects and resets one load, is one step once it has the lock. `IncLoad` is
a step apart from the scan because the code releases `_mtx` in between. Loads are
numbers modulo `LoadMod`, 2^64 in the build.

`Post` has three outcomes: an answer with status 200, another status (for the
machines in `MayRefuse`), and no answer. Any machine may fail at any time, which
covers crashes, restarts and timeouts of a slow submission alike; a machine that
failed may answer the next request.

`CtrlC` makes the signal pending; signals of one kind do not queue. `Deliver`
runs the handler in the main thread if it does not run there already, else in
some other thread, on top of whatever that thread was doing: a worker with a
handler on top of it takes no step (`At`). The handler needs `_mtx` (`OnlineLock`)
even if the interrupted thread holds it. Bound: `MaxPresses`.

`everOffline` and `failed` are history variables: no guard reads them.

`JudgeDispatch` has no mutex, load or list, only the set of machines that are
up and what each submission is told. The refinement mapping is at the end of
`LoadBalance`: a submission is *given* to a machine from the moment
`SelectLeastLoaded` releases `_mtx` until `Judge` ends or its loop starts over.

### ConnectionPool

`connectionPool` is the queue, `mutex` the owner of `mutex_`, `conn` the local
`my`. `wait` releases the mutex and sleeps in one step; `Push` wakes one sleeper
if there is one, any of them; `SpuriousWakeup` wakes without a reason.
`QueryFails` stands for both early returns, `QuerySucceeds` for the end of the
function, `QueryThrows` for an exception while rows are copied, which leaves
without `returnConnection`. The rows are not in the model.

`PoolService` has neither mutex nor queue: connections are free, used or lost, and
a free one is granted to one of those that ask. The refinement mapping is in
`ConnectionPool`: a worker *asks* until `Take`. Its fairness, that a free
connection is granted while anybody asks, is the property `ServesWhileFree`.

### HttpServer

`listener` is where `listen_internal` stands, `backlog` the connections that the
kernel has accepted for it, `jobs` and `shutdown` the fields of `ThreadPool`; each
of its critical sections is a step, and `cond_.wait` is `Wait` and `Fetch`, as in
the pool. `sock`, `count` and `told` are what a worker has in
`process_server_socket_core`: its connection, how many requests are left, and
whether the last answer said `Connection: close`. `NothingToRead` is the keep-alive
timeout and the client that closed. A request is read in parts, each a `select`
(`IsReadable`) and a `recv`: `ReadPart` for a part that is not the last, `ReadLast` for
the last. The timeout is that of one `select`: a client that sends a byte every four
seconds is read for ever. `ReadFails` is the timeout and a broken connection: the end of
the connection in the request line, the answer 400 after it. A request that was read is
one of three kinds: to be kept alive after it, to be closed after it, or one whose
handler never returns, or whose answer is longer than the socket takes and never read
by its client, so that `send` does not return. Nobody looks at whether an answer could
be written: `Answer` is the same then. Handlers that throw are answered with 500 like
any other. `Accept` waits while no
descriptor is left (`EMFILE`); any other error of `accept` ends the loop, and with
it the process: `AcceptFails`, `ShutDown`, `NotifyAll`, `Join`. A connection is a
name for one TCP connection, so that a descriptor that is used again is another
name; descriptors are below `FD_SETSIZE`.

`HttpService` has one line of those who came, in their order, and workers that serve
its first. The refinement mapping is in `HttpServer`: the line is `jobs` and behind it
`backlog`, so that `Accept` is invisible, and so are all requests of a connection but
the end of it. When the server closes, the end of the line is refused: who is still in
the backlog. It is over only when nobody is left in the line or with a worker.

### JudgeSystem

The composition. Its dispatcher is the abstract specification, as an instance
`D` of `JudgeDispatch` with the submissions for its workers, whose actions are
conjuncts of those of the system; `LoadBalance` is shown to implement it, so
mutexes, lists and loads do not appear again. `click` is a submission's place
between page and server, `port` the connection its `Post` waits on; `work` is what
each compile server has in hand, in its queue or in a worker, and `sent` the
answers under way. A client may give up at any moment (`PostFails`): that is the
read timeout, the lost answer and the broken connection in one, and the compile
server keeps the work. `Crash` loses the work of a server; clients find out by
`PostFails`, and new ones by `PostUnconnected`, until `Restart`. `Serve` has no
fairness: a program may hang. A `Client` is made anew in every round of the loop,
so a connection is a submission and a port that is not in use. The model has a set
`Ports` of them for each submission, the program the ephemeral ports of a machine for
all. `SystemPortLeft` is about this bound of the model: it says how many are enough for
it to be out of the way.

An answer other than 200 is that of an exception in `Start`, which `dispatch_request`
turns into a 500. The browser shows a result that is JSON; an empty body, of a
submission that was sent away, is none.

`finished` is a history variable: what was back on the page at a click.

### Problems

`table` maps the numbers in use to problems, and `Change` is anybody's edit of it,
between any two queries. A problem is its preset code and its tests; the limits belong
to the tests. `GetOneProblem` may find the row or, if the query fails, nothing.
`std::sort` is any reordering of the rows in which none is less than one before it.
Preset code is a sequence of characters (`Char`, lone ampersands among them) and of
`Reference`s: what a browser reads as one character reference, with a semicolon or, as
the `&curren` of `int &current`, without. `EscapeHtml` escapes the brackets and leaves
the ampersand, so that a reference stays one; `TextContent` is what a browser reads from
the result: for a reference what it `Means`, and nothing from a bracket on that was not
escaped. The title and the description are not escaped at all and not modelled. `Judge`
goes on when nothing was found: it sends `Garbage`, no tests and limits that were never
set, which is what the code does (`oj_control.hpp:286`).

`past` and `since` are history variables.

### CompileServer

`temp` is the directory: a function from the files that exist to whose contents
they have, where the contents of a source, a program and an output are all
identified with the submission they come from. A file is a name and one of six
kinds; a name is the millisecond and the number of `UniqFileName`, which is three
steps (`id++`, the clock, the second read of `id`). The clock may go back. `Gpp`
may fail, and whether it worked is decided as the code does, by the existence of
the program. `linked` says whether the file a running program prints to is still
one of the directory: `RemoveTempFile` unlinks by name, and a program whose
output was unlinked prints to a file nobody finds. The six unlinks of one name
are one step, and so is what g++ does; the submitted program may print anything
that is its own, exit with 0 or 1, or die of a signal in `Signals`, with a core
or without. `MayBreak` lets `open`, `fork`, `exec`, `WriteFile` and `ReadFile` fail, and
the reply throw: it reads the output into memory before the files are removed, and an
exception leaves `Start` with the files in place. That `ReadFile` could not open the
output is ignored by `Start` (`compile_run.hpp:165`): the answer is then status 0 and
`Unread`, no output. Status
codes are the code's, and the mask `0x7F` is `% 128`.

The branch of `Start` for a negative result of `Run` is part of `RunBreaks`. The
test input of the request is never written to the `.stdin` file by the code, so
that file is always empty, and the model has it only as a file that exists.

## 3. What TLC checks

| run | instance | shows |
|---|---|---|
| `lb_safety` | 2 workers, 3 machines, one may refuse, 2 SIGINTs | `TypeOK`, `MachinesPartitioned`, `LoadExact`, `NoRetryOnFailed`, `ScanKeepsLeast`, `FirstPressBlocksNobody`, `ListsStableDuringScan` |
| `lb_live` | 2 workers, 2 machines, one may refuse, 1 SIGINT, fair | `JudgeReturns`, `RecoveryWorks`, `ImplementsDispatch`, no deadlock |
| `pool` | 4 workers, 2 connections, exceptions, fair | `TypeOK`, `ExclusiveUse`, `NoLostWakeup`, `OnlyExceptionsLose`, `ImplementsService`, `ServesWhileFree`, `QueryReturns`, no deadlock |
| `compile_safety` | 2 submissions, 2 servers, 2 ms, all failures | `TypeOK`, `FreshName`, `OwnVerdict`, `NothingLeftOver`, `SignTells` |
| `http` | 2 workers, 4 connections, 3 descriptors, 2 requests each, fair | `TypeOK`, `OnePlace`, `NoLostWakeup`, `NothingLeftWhenReturned`, `ToldBeforeLast`, `ImplementsService`, `WorkersComeBack`, `Served`, `ShutdownEnds` |
| `system` | 2 clicks, 2 machines, 1 SIGINT, 1 crash, fair | `TypeOK`, `OncePerMachine`, `WorksForSomebody`, `OldResultsReplaced`, `ClicksComeBack` |
| `problems` | 2 problems, 3 preset codes with brackets and references, 2 tests, 2 changes, 1 tab | `TypeOK`, `ListInOrder`, `EditorHoldsHeader`, `JudgedByOwnTests` |

Why the bounds are enough: the interesting cases need two actors on one thing and one
other thing. Two workers can select one machine, see it fail and race with a recovery,
with the second machine to retry on; three machines are needed for a scan with a tie and
a middle. A second SIGINT is what interrupts a worker rather than the main thread. Four
workers on two connections allow two sleepers and two holders at once, which is where
`notify_one` could go to the wrong one. Two HTTP workers and four connections fill
workers, queue and backlog together; with two requests to a connection there is a last
one and one before it. Two clicks overtake each other; a machine that is killed and one
that only times out are the two ways to fail; one recovery brings a submission back to a
machine that still works on the first copy, and four ports, two machines times the start
and one recovery, are as many as `SystemPortLeft` asks for. Problems are independent of each
other, and tabs too: one tab and two numbers, 9 and 10, whose order as text is another,
show a mix-up; two changes remove a problem and bring back another of its number. Two
submissions on one server or on two collide in one name, or keep theirs apart while the
other's files are removed; the theorems say the same for any number of them. `LoadMod`
is larger than the number of workers, as it is in the build, and small enough for the
wrap-around to be seen. All counters are bounded by these constants; nothing else is cut
off. The type invariants are not mere typing: `load` stays below `LoadMod` only if
arithmetic is that of the unsigned type, `conn` never gets what an empty queue has at
its front, `status` is one of the codes that `CodeToDesc` and the clients know, `count`
does not go below 0, who is given away in `JudgeSystem` is given to a machine, and the
page of a problem has its number.

Deadlock is checked where the system must go on. It is switched off in
`lb_safety` and `lb_two_presses`, where two SIGINTs do block a worker for ever; in
`http`, where the process may end and all workers may hang; and in `system`,
where all clicks may be back. In the pool there is always somebody who may ask or
wake up, so it is `QueryReturns` that says who waits for ever.

`RecoveryWorks` says that a ctrl-C is followed by a moment at which nothing is
offline, not that it stays so. `JudgeReturns` and `ClicksComeBack` need more than
fairness: a loop of failures ends because each takes a machine off the list, and machines
come back only by ctrl-C. Both are about submissions that are not refused for ever,
for which they do not hold, see below. `QueryReturns` needs a connection that is left:
an exception while the rows are copied takes one away for good.

### Fairness

- `LoadBalance`: strong fairness for a worker that has a request, and for the
  handler in each thread. A mutex does not promise this, but the standard
  library's mutex on Linux lets a thread that finds it free again and again in;
  the rest of the code is straight-line, and `Post` returns because the client
  has timeouts. Weak fairness for the delivery of a pending signal. There is no
  fairness for requests or ctrl-C.
- `ConnectionPool`: strong fairness for a worker within a query, for the same
  reason; MySQL answers each query or breaks the connection. Spurious wakeups are
  not relied upon. `QueryReturns` is stated for the time after the last new
  query: a worker that has been notified competes for the mutex with newcomers
  that never slept, and may lose to them for ever.
- `HttpServer`: weak fairness for the accepting thread, its shutdown, and each
  worker, whose every wait for the client has a timeout: the one between requests and
  the one of each read. A request as a whole has none, and nothing is assumed that ends
  it: not that the last part ever comes (`ReadLast` has no fairness), not that a client
  sends anything. None for a handler that hangs, none for `accept` to fail.
  `WorkersComeBack`, `Served` and `ShutdownEnds` are therefore about workers that are
  not `Held`, by a handler that `Hangs` or a client that `Trickles`; as many such clients
  as there are workers stop the server.
- `JudgeSystem`: weak fairness for each submission's thread in oj_server and for
  its answer to the page; the thread's wait is bounded by the client's timeouts. None
  for the compile servers: not for `Serve`, not for `Restart`.
- `CompileServer` has no fairness: a submitted program need not end. `Problems`
  states no liveness.

### What the documentation says and the code does not do

Each has a run in which TLC violates the property that states the claim:

- `lb_idle_load`: *the load is the number of tasks a host is processing.* A reset
  while submissions are in flight is followed by their `DecLoad`: 0 wraps around
  to 2^64 - 1, and the machine is never chosen again while another is online.
  `LoadExact` says what remains true: the load of a machine that was never offline
  is exact. (That the least loaded machine is the one chosen is not claimed: the load
  is incremented after the lock is released, and two workers may choose the same.)
- `lb_refusals`: *after a refusal another host is chosen.* The same one is, for
  ever.
- `lb_two_presses`: *ctrl-C brings the hosts back.* Pressed again while the first
  handler runs, it interrupts a worker, and if that holds `_mtx` the server stops.
  `FirstPressBlocksNobody` says what remains true: up to the first ctrl-C, nobody who
  holds `_mtx` has a handler on top of it that waits for it.
- `compile_names_unique`: *file names are unique.* Not if two calls overlap: the
  counter is incremented and read in two operations. `FreshName` says what remains
  true: a name that was returned before a call began is not returned by it.
- `compile_zero`: *0 means that the program ran to its end, internal errors are
  negative.* A program that `execl` could not start also yields 0. `SignTells` says
  what remains true: a negative code is given before anything was run, a positive one
  is the signal that a program died of, 0 means that the child exited by itself, and
  only with 0 there is an output.

Every property of a passing run has a mutant: an operator next to the definition
it changes, marked `Mutant:`, under which TLC finds the property violated.

## 4. What is proved

The theorems hold for any number of workers, machines, connections, requests,
submissions, servers, signals, crashes, problems and edits. Assumptions, all stated in
the modules: the sets of threads, connections and submissions are finite; the owner of a
free lock, an absent connection and the like are no members of them; there are more
values of a load than workers and more values of the file counter than submissions (2^64
and 2^32 in the build); the numbers of problems are a finite set, as those of a table
are. One theorem has a hypothesis of its own, `SystemPortLeft` on the number of ports.
Every safety property that a passing run checks is proved.

- **LoadBalanceProofs**: `TypeCorrect`, `PartitionCorrect`, `LoadCorrect`,
  `ScanCorrect`, `RetryCorrect`, `ListsStableCorrect`, `FirstPressCorrect`. The
  inductive invariant `IInv` adds to the properties: `MutexOwner` (who is in a critical
  section owns `_mtx`, also under a handler; without it nothing keeps the lists still
  during a scan), `Selected` (a machine in use is one of the configuration),
  `ScanInRange` (the index against the list), `OfflineRemembered` (what is offline is in
  `everOffline`, so that an online machine whose load is exact stays so when it is taken
  off), `FailedIsOffline` (what failed a worker is offline until a recovery forgets it,
  whence `NoRetryOnFailed`), `FirstHandlerInMain` (before a second press a handler runs
  only in the main thread, because delivery prefers it and one press makes one handler;
  that thread never judges, whence `FirstPressBlocksNobody`), and `AnswerKnown`.
  `LoadExact` is proved by counting: each step adds or removes one worker from the
  finite set `InFlight(m)`.
- **LoadBalanceRefinement**: `Refinement`, from `IInv` before and after a step:
  `SelectDone` is `Give`, `Finish` is `Answer`, `Retry` and `OfflineMachine`
  with `ShowMachines` are `GiveBack` and stutters, `SelectNone` is `SendAway`,
  `OnlineMachine` is `Recover`; all other steps are invisible.
- **ConnectionPoolProofs**: `PoolTypeCorrect`, `PoolExclusive`, `PoolKeepsAll`,
  `PoolWakeups`, and `PoolImplements`, the safety part of `PoolService`. Besides them
  the invariant has `MutexOwner` and `HoldsWhileQuerying`. `NoLostWakeup` is inductive
  because who sleeps found the queue empty, every push adds a worker on its way, and
  every take removes one of each.
- **CompileServerProofs**: `CompileTypeCorrect`, `NamesFresh`, `TempClean`,
  `VerdictsOwn`, `SignsCorrect`. Names: the counter of a server is the number of its
  submissions that have incremented (`CounterCounts`), so it never wraps; numbers do not
  exceed it (`NumBound`), and those of earlier submissions are smaller (`EarlierLess`).
  Verdicts: of a submission alone with its name, the files under it and what was read
  from them are its own, or could not be read (`Own`); it can only be alone after a step
  if it was before, or has just been named, and then no file has that name because of
  `NothingLeftOver`. Status codes: what exists as a program was compiled from some
  submission's source (`SourcesWritten`), so what `execl` starts is a program of
  somebody's; what was run, exited and printed so far goes with where the submission is
  (`RunSoFar`).
- **HttpServerProofs**: `HttpTypeCorrect`, `HttpOnePlace`, `HttpWakeups`,
  `HttpNothingLeft`, `HttpTold`, `HttpImplements`. The invariant adds that a worker has
  a socket exactly while it serves (`SocketWhileServing`), that `shutdown_` goes with
  the listener's place (`ShutdownFlag`), that a worker ends only when nothing is queued
  any more (`ExitWhenDone`), that a request is handled only while the count allows one,
  and that all are joined at the end (`AllJoined`). `NoLostWakeup` is the counting
  argument of the pool, with a listener that notifies outside the mutex: between
  `ShutDown` and `NotifyAll` a worker cannot fall asleep again. `HttpImplements` maps
  each step: `Connect` is `Come`, `Fetch` of a job is `Begin`, each way in which a
  connection is closed is `End`, `AcceptFails` is `Close` with as many kept as there are
  jobs (`BacklogWhileOpen`: after it nobody waits for `accept`), `Join` is `Over`, and
  `Accept`, requests, sleeping and waking are stutters. What an action does to `jobs \o
  backlog` is a lemma about sequences (`QueueConcat`, `QueueParts`).
- **JudgeSystemProofs**: `SystemTypeCorrect`, `SystemOncePerMachine`,
  `SystemWorksForSomebody`, `SystemPortLeft`, `SystemOldResultsReplaced`. What makes
  `OncePerMachine` inductive is `FewOrphans`, why a machine gets no second copy: one
  that has a copy nobody waits for is offline, or about to be, until a recovery, and a
  recovery allows one more. `Posting`, `JudgingPhase`, `SentAwaited` and
  `AwaitedThere` tie the client's sockets to the dispatcher's phases. `SystemPortLeft`
  assumes `|Ports| >= |Machine| * (MaxPresses + 1)`: a machine has at most one copy of
  a waiting submission for each recovery and one for the beginning, and a machine that
  is online one less, so the pairs of a machine and a number map onto the ports in use
  and one pair is left over.
- **ProblemsProofs**: `ProblemsTypeCorrect`, `ListIsInOrder`, `EscapedIsShown`,
  `EditorHoldsTheHeader`, `JudgedByItsTests`. What a browser reads from escaped text
  (`EscapedIsShown`: every character in its place, of each reference what it means, and
  so text without references as it is) holds for sequences of any length, any set of
  references and any meaning of them, and so does what the list owes to the sort:
  numbers in any order have a sorted one (`OrderExists`, where the place of a number is
  how many are smaller), which is without duplicates and has them all (`SortSorts`). The
  rest is that the histories keep up with the table (`Tracked`).

Only model-checked: the liveness properties (`JudgeReturns`, `RecoveryWorks`,
`ServesWhileFree`, `QueryReturns`, `WorkersComeBack`, `Served`, `ShutdownEnds`,
`ClicksComeBack`). They need fairness, and with it `ENABLED`, which the prover does not
reach. The fairness of `PoolService` is checked as `ServesWhileFree`; that of the line
of `HttpService` is `Served`.

## 5. What is not modelled

- **Most of `comm/httplib.h`**: parsing, routing by patterns, static files,
  compression, TLS, proxies, redirects and the parts of the client that the program does
  not call. **`comm/mysql-connector/`**: headers of a library; a query succeeds or
  fails. These two are nine tenths of the lines in `src/`.
- **`oj_model_file.hpp`**: the first version of the model, which nothing includes.
- **`log.hpp`, the templates' layout, build files, problem data**: no state that
  another part reads.
- **Pure helpers**: `SplitString`, the parsing in `LoadConf`, the texts of `CodeToDesc`,
  the numbers of `SetProcLimit`. Sequential, and away from every property above. A
  `mem_limit` of 2097152 KB or more overflows an `int` there (`runner.hpp:39`).
- **The start of oj_server**: a ctrl-C before `ctrl_ptr` is set ends the process; the
  models begin with the server listening.
- **Locks inside the C library** that a signal handler may run into: `_mtx` shows
  the same in `lb_two_presses`.
- **Exceptions that leave `Judge`**: one in `Post` or in the copy of the body, between
  `IncLoad` (`oj_control.hpp:315`) and `DecLoad` (`:326`), leaves the load one too high
  for good. `LoadBalance` has none; httplib answers such a request with 500.
- **A full disk in `CompileServer`**: `WriteFile` does not look at whether what it wrote
  was written, so a source may be cut off; in the model it is written or cannot be opened.
- **What a character reference does to preset code** is modelled and not excluded:
  `EditorHoldsHeader` excepts references, for which the code does not keep the text.
- **Descriptors and limits in `CompileServer`**: a failed `open` leaks the other two
  descriptors (`runner.hpp:66`); the model has the files only. A server that is killed
  leaves its files, and the next one counts from 1 again: the models have two servers
  beside each other, not one after the other.
- **The composition of `HttpServer` with the dispatcher and the pool**: a `Judge` that
  waits is a handler that takes its time; what that does to other connections is
  `Served`, while one worker is left that comes back. `JudgeSystem` shows that `Judge`
  does, with a thread for each click and at most one recovery: that all workers of
  oj_server are taken by `Judge`s or trickling clients, and a second ctrl-C, are not in
  it.

What would come next: a killed compile server in `CompileServer`, with the files it
leaves to its successor; descriptors there; and the projection of `JudgeSystem` with
`LoadBalance` in place of `JudgeDispatch`, checked on one machine.
