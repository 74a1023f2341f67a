# distributed-pi in TLA+

A verification project for distributed-pi, a program that estimates pi by
drawing random points: a *server* cuts a square into `side * side` segments,
settles those that lie wholly inside or outside the circle itself, and gives
the others, the *subproblems*, to *workers* over UDP. When every subproblem is
solved it prints the estimate.

Contents: [the system](#the-system), [the modules](#the-modules),
[what the model abstracts](#what-the-model-abstracts), [the runs](#the-runs),
[fairness](#fairness), [the proofs](#the-proofs), [what was found](#what-was-found),
[not modelled, and the plan](#not-modelled-and-the-plan).

    tlc -workers 2 -config TwoWorkers.cfg MCDistPi     # any of the .cfg files
    tlapm Agreement_proofs.tla                         # two to four minutes

The protocol is modelled twice over: `DistPi` composes server, workers and
network, with timers that go off at any moment, and the modules around it take
one thing each that `DistPi` abstracts - the bytes of a datagram, the loop and
its signals, the periods of the timers, the computing thread - or one thing the
protocol does not need: the geometry, the arithmetic of the result, the start
of the programs, and their logging. Two compositions put the latter together:
`Estimate` follows the numbers from the square to the digits, `MainProgram` the
two `main` functions from the arguments to the last line of the log.

## The system

Paths are relative to the repository; the C++ sources are in `src/`.

| component | state | operations | properties that make it right | modules |
|---|---|---|---|---|
| **Message** (`Message.h`) | tag, sequence number, segment, hits | five constructors | the number is initialised when it is read (it is not: `Message(tag)`) | `Message`, `Wire` |
| **Sockets** (`SocketBase`, `SocketPassive`, `SocketActive`) | a UDP socket that raises SIGIO | constructors, `sendMessage`, `nextMessage`, `htonMessage`, `ntohMessage` | a message is decoded as it was encoded, or is `MessageInvalid`; a datagram that is there is told of | `Network`, `Wire`, `EventLoop` |
| **SolutionManager** (`solution_manager.cpp`, `subproblem.h`) | the list of subproblems: state, worker assigned to; hits of each segment | `configure`, `getInstance`, `initialize`, `pop`, `assign`, `unassign`, `markSolved`, `solved`, `getResult` | a segment is counted once; no operation is called in a state in which it throws; the digits printed are those of the quotient | `SolutionManager`, `Square`, `PiResult`, `Estimate`, `Startup` |
| **ConnectionMain** (`connection_main.cpp`) | state handler, `nextSequence`, last message sent and received, `repeatCount`, response and heartbeat timers, segment | `handleMessage` and the four state handlers, `handleTimeout`, `sendSubproblem`, `tryAssignSubproblem`, destructor | what it holds is what the ledger says it holds; silence of the worker is noticed, and only silence; repetitions are answered, not counted | `ConnectionMain`, `Timeouts` |
| **ServerManager** (`server_manager.cpp`, loop of `server_main.cpp`) | the pool: a connection for each SID (IP and port) | `handleMessage`, `handleTimeout`, `handleHeartbeatTimeout`, `handleInterrupt`, `finalize`, `tryAssignSubproblem` | what is given back is handed on; a timeout concerns the one who timed out | `ServerManager`, `EventLoop` |
| **ConnectionWorker** (`connection_worker.cpp`, loop of `server_worker.cpp`) | state handler, `nextSequence`, last message sent, `repeatCount`, three timers | `handleMessage` and three state handlers, `handleTimeout`, `handleHeartbeat`, `handleHeartbeatTimeout`, `sendResult`, `sendInterrupt` | a computation that was started is reported; a worker whose server is gone ends | `ConnectionWorker`, `Timeouts`, `EventLoop` |
| **WorkerThread** (`worker_thread.cpp`) | segment, hits, a POSIX thread | `start`, `count`, `getResult` | the hits are read when the thread is done with them | `WorkerThread`, `Estimate` |
| **Timer** (`timer.cpp`) | a POSIX timer, one-shot or periodic | `set`, `unset`, `isRunning` | the periods of the five timers fit each other | `Timer`, `Timeouts` |
| **Segment** (`segment.cpp`) | id, side, hits | corners, `isWholeInsideCircle`, `isWholeOutsideCircle` | the segments tile the square; no segment the circle cuts is settled without work | `Segment`, `Square`, `Estimate` |
| **Starting up** (`main` of both programs) | arguments, `-v` | `getArgAtPos`, `handleParameter`, the socket, `configure` | the calls the usage describes are accepted, and no others | `Startup`, `MainProgram` |
| **Logging** (`easylogging++.h`, third-party) | loggers, their configurations, one file | what `main` and the CLOG and LOG statements use of it | `-v` is obeyed; the file says what the screen says | `LogConfiguration`, `Logging`, `MainProgram` |

**How they interact.** Either process is one thread in a loop around
`sigwaitinfo`. SIGIO means datagrams have arrived, which are read until there
are none; SIGUSR1 is a response timeout, SIGUSR2 (server) and SIGVTALRM
(worker) a heartbeat timeout, SIGALRM (worker) the moment to send a heartbeat;
a signal of the computing thread says that it is done; SIGINT ends the process.
The server's loop calls the ServerManager, which finds the ConnectionMain; that
calls the one SolutionManager, and sends. A connection of the server and a
worker run this protocol, every number one above the last:

    worker                                server
    Hello 1          ------------------>  pop(); none left: ACK 2, standingBy
                     <------------------  Work 2, awaitingWorkACK
    ACK 3, computing ------------------>  assign(); awaitingResult
    Heartbeat ...    ------------------>
                     <------------------  HeartbeatACK ...
    Result 4         ------------------>  markSolved(); pop(); and so on
                     <------------------  Close n, once everything is solved

**What is hard.** Datagrams are lost, overtake each other and come twice. A
Result may overtake the ACK of its Work. Both ends send their last message
again after a timeout and give up after five. A timer's signal may be queued
when the timer is set anew. All timers of the server share two signals, so the
handler guesses whose timer it was. Processes die, and a worker whose
connection was dropped goes on computing while the server takes it for a
stranger. An exception in a handler ends the server. PROJECT.json lists the
hazards one by one, with their lines.

## The modules

| module | what it models |
|---|---|
| `Message` | tags, constructors, and the number a reader sees (`SequenceRead`) |
| `Network` | the datagrams in flight, a set for each worker and direction |
| `SolutionManager` | the ledger of subproblems; its operations as functions on ledgers, with `CanAssign` and `CanMarkSolved` for the tests that throw |
| `ConnectionMain` | `conn[w]`, the record of a connection, and what handlers do to it |
| `ServerManager` | the server process: one action for each way a datagram can be handled, for each signal, for a timer's expiry, for the end |
| `ConnectionWorker` | the worker processes: the same, and their computing threads |
| `DistPi` | server, workers and network composed; all properties |
| `PiJob` | what the server promises: the abstract specification |
| `Segment` | rows, columns, corners and the three tests of a segment, on 32 bits |
| `Square` | `initialize()`: the pass that settles segments or makes subproblems of them |
| `PiResult` | `getResult()` and `decimalExpansion()`, on 64 bits |
| `WorkerThread` | the computing thread and the main thread that joins it |
| `Estimate` | `Square`, `WorkerThread` and `PiResult` composed: from the square to the digits |
| `Wire` | the bytes of a datagram: `sendMessage`, `nextMessage`, byte orders, lengths, what the buffers held before |
| `EventLoop` | the start and the loop of both programs, between handlers and kernel: masked signals, SIGIO, the socket's buffer |
| `Mailbox` | what that loop promises: the abstract specification |
| `Timer` | one POSIX timer: the time left and its period |
| `Timeouts` | one piece of work in milliseconds: the five timers with their periods, delays and losses |
| `Startup` | both programs from the command line to the loop |
| `LogConfiguration` | `el::Configurations`, `TypedConfigurations`, formats and the shared stream of the log file |
| `Logging` | the loggers, a log statement from the macro to the file, LOG(FATAL), a disk that is full for a time |
| `MainProgram` | `Startup` and `Logging` composed: `main` of both programs in its order |
| `MCDistPi`, `MCEstimate`, `MCWire`, `MCMainProgram` | the state constraints and the values of constants for TLC |
| `*_proofs` | theorems and proofs about the module of that name; `Agreement_proofs` extends `DistPi_proofs` |
| `Fold_proofs` | what holds at every step of folding a sequence with an operator `Op`; `MainProgram_proofs` instantiates it for each operator that is folded |

Extension goes `Message` <- `Network` <- `ConnectionWorker` and `Message` <-
`SolutionManager` <- `ConnectionMain` <- `ServerManager` (with `Network`);
`DistPi` extends both processes; `PiJob` is instantiated by `DistPi` with a
refinement mapping. `Square` and `WorkerThread` extend `Segment`, `PiResult`
extends `Square`, and `Estimate` extends `PiResult` and `WorkerThread`;
`MainProgram` extends `Startup` and `Logging`, `Logging` extends
`LogConfiguration`, `Timeouts` extends `Timer`; `EventLoop` instantiates
`Mailbox` with a refinement mapping. The steps of the loops in `DistPi` are the
handling of a datagram or of an alarm, which is a step of `Mailbox`.

The state and actions of `DistPi`, the core:

**State.** `ledger[s]` is the Subproblem of segment s with the hits of its
Segment; a segment that is settled at once never appears. `conn[w]` is the
ConnectionMain the pool keeps for the SID w, state `"none"` if it keeps none.
`phase` says how the server stands: running, finished, interrupted, ended by the
exception of `markSolved`, or aborted by LOG(FATAL) in `standingBy` (the throw
that follows it is never reached, as `Logging` shows). `sigResp` and `sigHb` are the
SIDs whose timers have left a signal that is still queued. `worker[w]` is a
worker process, its thread included. `opened` is a history variable, used in
one guard (a bound) and one property.

**Actions.** A step of the server is the handling of one datagram or signal
from end to end, because nothing interrupts the loop: deleting a connection,
giving back what it holds, and handing that on to whoever stands by, is one
step (`Delete` with `TryAssign`). `HandleMessageOf` picks a datagram and then
one of the actions, whose guards are the tests of `handleMessage` in their
order (`Answered`, `TooLow`, `Repeated`, and `Fresh` for what is left) and the
tests of the state handler. For example `EarlyResult` is the branch of
`awaitingWorkACK` for a Result: `assign`, then `markSolved` or its exception,
then `sendSubproblem`, then `responseTimer.unset()`. The worker's side is
built alike. A timer's expiry is a step of its own that stops the timer and
queues the signal; handling the signal is another. So everything that can
happen between the two does.

`Handout` describes the loop of `ServerManager::tryAssignSubproblem` in one
formula: the connections that stand by, in the order of their SIDs, take the
free subproblems in the order of the list, until one or the other runs out.

The modules around the core, where their form is not the obvious one:

* `Wire`: a number is a function from its byte positions to bytes, so a swap of
  bytes is visible whatever the number; a host is little- or big-endian. Every
  call may find any of `Buffers` in its buffer. `Stray` is a datagram of any
  length from anyone.
* `EventLoop`: `made` counts the system calls of the start, in their order,
  because what a datagram does depends on them: without the mask SIGIO kills,
  before `FIOASYNC` it is not raised, before `bind` the datagram is lost.
  Standard signals do not count, so `pending` is a set; `sigwaitinfo` takes the
  lowest. The one action `Receive` stands for `nextMessage` and all handlers of
  a datagram. `Handled` has their outcomes: the server may have solved the last
  subproblem, the worker may end, and either may fail, because LOG(FATAL) aborts
  in `standingBy` (`connection_main.cpp:83`), `markSolved` throws
  (`solution_manager.cpp:101`) or so does the constructor of the worker's thread
  (`worker_thread.cpp:14`, `18`), and no `main` catches anything. `ReceiveFails` is
  the exception of `nextMessage` for an error of `recvfrom` other than EAGAIN
  (`SocketBase.cpp:62`). Which datagrams do this is the business of `DistPi`,
  where `phase` tells the abort from the exception; an error of `recvfrom` is not
  in `DistPi`.
* `Timeouts`: `Pass` moves time by `TimeStep` when no signal waits to be handled
  and no datagram is overdue, so handlers take no time and datagrams come in
  any order within `MaxDelay`. It begins where the worker has acknowledged its
  Work, and ends when the result is answered or one end gave up.
* `PiResult`: the hits of a segment are chosen when the loop reads them. `hits`
  and `scale` are history: the sum without a width, and ten to the number of
  digits.
* `Square` and `WorkerThread` use the corners of `Segment`: the points drawn are
  those of the segment on a grid of `1 / Fineness`, left and lower edges
  included.
* `Estimate` leaves the messages to `DistPi`: `WorkReceived` begins the next job
  of the list with the segment, side and points of `Work`, `ResultReceived` reads
  the thread's count and has it in the ledger at once. The subproblems are
  computed one after the other; whose thread it is and in which order they come
  in makes no difference to a sum.
* `MainProgram` runs the calls of `main` in their order: loggers of static
  storage, arguments, configuration of the logger by the `-v` that the arguments
  have, socket and SolutionManager, then the lines the loop writes.
* `Startup`: an argument is a word; `Numbers`, `NumberOf` and `Addresses`
  say what `stoi` and `inet_aton` make of it. The usage is read as: the
  parameters in their order, and at most one `-v` anywhere among them.
* `LogConfiguration`: of `el::Configurations`, one list of (level, type, value),
  a list of (level, value) is kept for every type, because `unsafeSet` finds and
  changes only entries of the type it is given. `TypedConfigurations` keeps a map
  for every type with the value of Level::Global and of the levels that differ
  from it. Whether they differ is decided by `operator==` of the value, which for
  formats compares the level too; that is what goes wrong in one of its mutants.

Some definitions are marked *mutant*: variants of the definition below them
with a plausible mistake. No specification uses them. Each was put in the place
of the original to see that a property notices (PROJECT.json, `mutants`).

## What the model abstracts

* **Time.** In `DistPi` a timer runs or not, and may expire at any moment while
  it runs; the lengths (500, 3000 and 5000 ms) play no role. So the model has
  every behaviour the program has at any speed of machines and network, and
  some that need a process to be suspended for seconds. `Timeouts` has the
  lengths, for one connection on machines that are never late.
* **Signals.** Linux queues one signal for each POSIX timer, whatever its
  number, and a queued signal survives `timer_settime`; hence a set of SIDs.
  If the connection of a SID is replaced while a signal of the old one is
  queued, the model keeps one signal for both. `sigwaitinfo` takes the lowest
  signal first, the model any, and it interleaves signals with the datagrams
  of one SIGIO; both only add behaviours. No signal is fetched once everything
  is solved, because the loop ends then; datagrams of the same SIGIO still are.
  The worker's heartbeat signals are not counted: while the timer runs one may
  be sent.
* **Network.** A set of datagrams in each direction. With `Duplicating` they
  stay receivable for ever, which includes loss and any delay, and two equal
  datagrams are one, as they are to the receiver. Without it a datagram is
  received once, and is lost only if `Losing`.
* **Data.** In `DistPi` `points` and `side` are equal in all messages and left out. Hits
  are any of `HitCounts`. Numbers are naturals: at a few messages a second 32
  bits are never used up. `Wire` has all fields, as bytes.
* **Widths.** `UInt32Size` and `UInt64Size` are the numbers of values of the two
  integer types. TLC takes small ones (8 bits and fewer) so that overflow is a
  matter of small numbers; the proofs take any, under the assumption the code
  relies on (`SegmentAssumption`: MAX_SIDE_VALUE is small enough for the square
  of the radius), and properties of `PiResult` say where the width suffices.
* **Doubles.** `isPointInsideCircle` computes in doubles; for the corners of
  segments these are exact (at most 30000 squared, twice), so integers are
  used. Points that are drawn are any points of the segment.
* **Logging.** A line is its logger, its level, the level its text shows and its
  number. A stream that cannot hand its buffer over keeps it and is bad.
* **An uninitialised number.** `Message(tag)` leaves `mSequence` alone, and both
  `handleMessage` functions compare it when a Heartbeat comes that is not
  answered on the spot. `SequenceRead` gives any of `Garbage` each time.
* **Processes.** A worker that ended and its datagrams cannot be told from one
  whose machine died, so both are `Ended`. A SID is not used by a second
  worker process. A new connection for a SID comes from an old Hello, which is
  the interesting case.
* **Numbers of maxRepeats and POOL_SIZE** (5 and 10) are constants, smaller in
  most runs.

## The runs

`CHECK_DEADLOCK FALSE` is in every configuration but that of `MCWire`, whose
system goes on for ever: the programs really stop, when the server has ended
and the workers have too, when `initialize` or `getResult` has returned, when a
connection is closed.

Bounds of `DistPi`: `MaxConnections` is how often a SID connects. `Bounded` (in
`MCDistPi`) does not explore beyond the end of the server, nor beyond
`MaxSignals` queued signals; workers in `Steady` do not fail, those in `Once`
connect once. Those of the other modules are named in the table.

| run | instance | shows |
|---|---|---|
| `two_workers` | 2 workers, one of which may time out, be interrupted or die, 1 segment, losses, duplicates, stray numbers 0, 3, 99: they compete for it, one always stands by, and every way a connection goes gives it to the other | `LedgerMatchesPool`, `WorkConserving` |
| `reconnect` | 2 workers, 2 segments, one SID connects twice while answers to its first connection are on their way, losses, duplicates, the same stray numbers | `CreditedAsComputed`, `SegmentAgreement`, `SilenceIsNoticed`, `ComputationIsReported`, and `JobSpec`: every step is a step of `PiJob` |
| `live` | 1 worker, losses, fair timers | `WorkerNotices`, `AbandonedWorkersExit`, `DeadWorkerReleased` |
| `quiet` | 3 workers and room for 2, no failures, datagrams in any order | `JobFinishes` |
| `estimate` | the square with every side up to 10; computed for all sides up to 4, with 7 or fewer points drawn on a grid of a quarter, and for one segment up to 256 points; 3 digits, 64-bit integers shrunk to 8 bits, every interleaving of the two threads | `SettledAsDrawnOnGrid`, `SegmentsTile`, `NothingIsNoJob`, `ResultIsComplete`, `JobIsReported`, `AnswerIsTruncated`, `EstimateIsBracketed` |
| `wire` | a little- and a big-endian host, all tags, strays of every length and tag, three old contents of the buffers | `ReadAsSent`, `OnlyWhatWasReceived`, `OneDatagramPerMessage`, `OnlyNothingEndsTheLoop` |
| `event_loop` | both programs, 3 datagrams, a buffer for 2, every signal at any moment | `NoLostWakeup`, `NoSignalKills`, `SolvedIsNoticed`, `ImplementsMailbox` |
| `timeouts` | steps and delays of 500 ms; every kind of datagram may be lost, heartbeats and their answers one in a row | `NoFalseAlarm`, `CrashIsNoticed`, `WaitEnds` |
| `main_program` | both programs, up to 5 arguments out of 5 words on both sides of every limit; 3 log statements, a full disk, with and without a log file (refused calls only with one) | `ProperCallsAccepted`, `ServesWhatWasAsked`, `VerboseObeyed`, `FileFollowsScreen`, `AbortIsOnRecord` |
| `sibling_timeout`, `late_message`, `repeated_work` | | disagreements with comments, [below](#what-was-found) |

`two_workers`, `wire`, `event_loop` and `timeouts` check the type invariant of their
module as well, `estimate` and `main_program` those of all their parts together.

The properties of `DistPi`:

* `LedgerMatchesPool`: pending subproblems are held by exactly the connection
  that sent them, a connection that awaits a Result holds a subproblem of its
  worker or one that was solved in the meantime, no two hold the same. This is
  the reason `assign` never throws and a destructor never gives back what
  somebody else computes. It does not say that an assigned subproblem is held by
  somebody: after a SID has connected twice that may be false.
* `WorkConserving`: nobody stands by while a subproblem is free.
* `CreditedAsComputed`: hits that enter the sum were sent for that very segment.
* `SegmentAgreement`: a worker whose SID has connected once means the same
  segment as its connection, whatever the others do. While no SID has connected
  twice (`ConnectedOnce`), an assigned subproblem is also held by a connection,
  and `markSolved` does not throw. For a SID that connects again all this is
  false, and the code does not promise it: an old Result can mark a segment
  solved for which the new connection awaits an ACK, or throw.
* `SilenceIsNoticed`: what a step may do to the timers of a connection. After
  every step of a running server a connection in the pool is watched
  (`Noticed`): one of its timers runs or has left its signal. There is one
  exception, `UnsetAtEnd`: in `awaitingWorkACK`, after an accepted message that is
  not the ACK (an early Result, or a message of another tag), the last line of
  the handler unsets the timer, also the one `sendSubproblem` has just set for the
  next Work. A connection that was left so stays so while nothing happens to it
  but a refill of its `repeatCount` (`OnlyRefilled`); any other step that touches
  it must leave it watched. The Work sent after a Hello, from `awaitingResult` or
  to a connection that stands by has no exception.
* `WorkerNotices`: every live worker is watched by one of its own timers.
* `ComputationIsReported`: Work that comes twice does not replace a computation,
  and one that is done is sent.
* `AbandonedWorkersExit`, `DeadWorkerReleased`, `JobFinishes`: liveness.

The properties of the other modules:

* `SettledAsDrawnOnGrid`: a segment that gets its hits without drawing gets
  those drawing would find. The code looks at one corner for each question.
* `SegmentsTile`, `NothingIsNoJob`: every part of the square is counted once;
  there is always work, and it matters, because the server asks whether all is
  solved only after a signal.
* `ResultIsComplete`, `JobIsReported`: the count has no lock; it is safe because
  the signal, the join and the read come in this order.
* `AnswerIsTruncated`: the digits are those of `4 * hits / points`, cut off and
  not rounded, as long as ten times the divisor fits 64 bits.
* `EstimateIsBracketed`: whatever points were drawn, what is printed lies between
  four times the share of the cells inside the circle and four times that of the
  cells the circle reaches, as pi does. No single component can see to it: it
  takes the corners, the settled segments, the threads' counts, the divisor and
  the digits.
* `ReadAsSent`, `OnlyWhatWasReceived`, `OneDatagramPerMessage`: what is sent is
  read, what is left in a buffer is not, and no datagram of another length is
  taken for a message, though its fields are read before the length is compared.
* `OnlyNothingEndsTheLoop`: an invalid datagram does not look like an empty
  socket; otherwise the ones behind it would wait for the next SIGIO.
* `NoLostWakeup`, `NoSignalKills`, `SolvedIsNoticed`, `ImplementsMailbox`: see the
  order of the calls before the loop, the loop that empties the socket for each
  SIGIO, and the test at its end. The type invariant of `EventLoop` says as well
  that no datagram is in the socket before the start is over, because `bind` is
  the last call. `SolvedIsNoticed` is about leaving the loop: after the last Result
  a later datagram of the same SIGIO may still make the server fail, before it
  publishes anything.
* `NoFalseAlarm`: heartbeats every 500 ms, a patience of 3000 and of 5000 ms, and
  the reset at every answer fit each other: as long as only heartbeats and
  their answers are lost, one in a row, nobody alive is given up.
  `CrashIsNoticed` bounds the time until a crash is noticed, `WaitEnds` says
  that a worker does not wait for its answer for ever.
* `ProperCallsAccepted`, `ServesWhatWasAsked`: for `-v` at any place among the
  arguments, which shifts those behind it.
* `VerboseObeyed`: the connections are heard exactly when `-v` was among the
  arguments, through the shift of the arguments, the defaults of the levels, and
  the maps of `TypedConfigurations`, which keep only levels that differ.
  `MainTypeOK` says that a line shows its own level, for which the formats must
  be told apart. `FileFollowsScreen`: the file is a prefix of the screen, though
  several loggers share the stream and the disk may be full. `AbortIsOnRecord`:
  LOG(FATAL) of a logger nobody configures is written, flushed, and aborts.

Why the bounds are enough to mean something: the protocol has three numbers per
subproblem, so with two segments a worker goes through every state twice and
messages of the first round meet the second; two workers are what competition,
giving back and the sharing of signals need; two repeats tell the last timeout
from the others, except in `reconnect`, where repeats do not matter to the
ledger and one is enough. Stray numbers lie below, at, and far above those
expected. In `quiet` one worker finds the pool full.

In `estimate` a side of 10 has segments inside, outside and cut in every row,
and ties (corners on the circle: 3-4-5 triangles, sides 5 and 10), the divisor
goes from far below the width to far above it, and three points are what the
first, a middle and the last turn of the drawing loop need. In `event_loop` a
third datagram finds the buffer full, or room again. In `timeouts` a step is one
heartbeat, the smallest of the periods, and all others are multiples of it. Five
arguments are one more than any proper call has without `-v`; in `main_program`
the limits are small, so that each word is above some and below others, and
three lines are two loggers' before and after an outage.

## Fairness

`FairSpec` (for `live`) asks only what the two loops and the kernel give: a
queued signal is fetched, the response timer of a worker expires if nothing
unsets it, a worker's heartbeat timeout expires once the server is gone (until
then answers may reset it for ever), a connection's timers expire when its
worker is gone, and the server ends when all is solved. Nothing is assumed of
datagrams: all may be lost, so Close and Interrupt need not arrive.

`QuietSpec` is the program without failures: every datagram other than a
heartbeat is fetched in the end, computations end, workers start. Fairness is
given for datagrams that are not heartbeats as a class, because there is always
one more heartbeat, and the socket's queue is not one that heartbeats can keep
others from. It is weak fairness throughout. That a started worker's Hello meets
a full pool is no failure of this run: the two inside do the job.

`EventLoop` has weak fairness of what `main` does while it starts and empties the
socket, and strong fairness of taking SIGIO and each alarm: `sigwaitinfo`
prefers lower numbers, and a higher one is taken although lower ones come again
and again because handlers take microseconds and the shortest timer half a
second. `Timeouts` has weak fairness of `Pass` (time goes on), of handling a
signal and of receiving; none of losses, of the crash or of the computation.
`WorkerThread`, and `Estimate` with it, has weak fairness of both threads, which
the scheduler gives.
The others state none.

## The proofs

`DistPi_proofs` proves, for every set of workers and segments, all values of the
bounds, lossy or duplicating networks and any set of stray numbers (the
assumptions are those named in `Message`, `Network`, `ConnectionMain`,
`ServerManager` and `ConnectionWorker`):

| theorem of `DistPi_proofs` | statement |
|---|---|
| `TypeCorrect` | `Spec => []TypeOK` |
| `LedgerCorrect` | `Spec => []LedgerMatchesPool` |
| `HandsOutAll` | `Spec => []WorkConserving` |
| `Refinement` | `Spec => JobSpec`: the program implements `PiJob` |

The inductive invariant `Inv` is `TypeOK /\ LedgerMatchesPool /\
WorkConserving`. The parts of the agreement are not inductive one by one:
`HeldIsGivenOut` needs `HeldOnce` when a subproblem is given back (nobody else
may be computing it), `PendingIsHeld` needs `HeldIsGivenOut` (what becomes free
was the leaving connection's own), and a Result that names a subproblem of
another connection is why `awaitingResult` allows its subproblem to be SOLVED
already. All need the types, and `WorkConserving` is used where a connection
has nothing to be sent and stands by.

The argument. `Matches(C, L)` and `Conserves(C, L)` are the two relations for any
pool C and ledger L. `Gives(C, L)` says what all ways of handing out have in
common; `TryAssignGives` and `SendSubproblemGives` show that they do it, and
`GivesMatches` that it keeps the relations. What is left for each handler is
that the intermediate pool and ledger, after a deletion or a `markSolved` and
before the handing out, are related: `DeletedMatches` and `WaitingMatches`.
The steps of the workers do not touch either.

For the refinement each handler is shown to be `Join`, `Leave`, `Credit` or
`Publish` of `PiJob`, or to stutter. It uses the invariant where a connection
that is deleted gives back a subproblem: it must be the owner (`GivenBackFacts`).
In `EarlyResultStep` one step of the code assigns a subproblem, solves it and
sends the next, and is one `Credit`.

`Agreement_proofs` goes on with `DistPi`, for the same constants: what the two
ends of a connection know of each other.

| theorem of `Agreement_proofs` | statement | inductive invariant |
|---|---|---|
| `WorkersWatch` | `Spec => []WorkerNotices` | `Sound`: a worker that waits has its response timer running or its signal queued, one that computes has the heartbeat timeout timer (`Guarded`), and a thread computes only where the handler is `Working` (`AtWork`) |
| `ComputationsReported` | `Spec => ComputationIsReported` | follows from `Sound` step by step |
| `CreditedCorrect` | `Spec => []CreditedAsComputed` | itself, with the types: a segment is solved only by a Result in a channel that keeps its history (`StepSolves`, `ReportsStay`) |
| `SegmentsAgree` | `Spec => []SegmentAgreement` | `InLockstep` and `Accounted` |
| `SilencesNoticed` | `Spec => SilenceIsNoticed` | `Inv` of `DistPi_proofs`: step by step, every handler leaves the connections it touches `Noticed`, or unsets a timer as its last line, and leaves the others as watched as they were |

`SegmentsAgree` is the theorem about the protocol. A datagram may arrive late,
twice or not at all, so what the two ends hold says nothing by itself;
`InLockstep` says how their numbers stand to each other and to every datagram
in flight, as long as the SID has connected once. Before the server has heard of
a worker (`Unmet`), between two pieces of work (`Idle`) and while one is under way
(`Engaged`) the numbers of the ends differ by what the protocol has sent and not
yet had answered, and all that flies is of this piece of work or, being lower,
of the past (`Past`), where the tests on the number stop it. `Accounted` adds that
what is ASSIGNED is held by a connection that knows its worker. Each step of
either process is first classified (`StepKinds`) as one that moves a number or as
one that only takes datagrams away.

`Timeouts_proofs` proves of `Timeouts`, for instants as close as one likes, any
`MaxDelay` and `MaxLost` and any set of kinds that get lost (`TimersAssumption`:
the instants hit every expiry):

| theorem of `Timeouts_proofs` | statement | inductive invariant |
|---|---|---|
| `TimeoutsTypeCorrect` | `Spec => []TypeOK` | `TimeoutsInv`: a timer keeps what it was made for, a value is an instant of its period, and a worker that is alive has a repetition left |
| `CrashNoticed` | `Spec => []CrashIsNoticed` | `CrashInv` adds `Traces` (what still flies from a crashed worker is at least as old as its silence) and `Watched` (silence plus what is left of the timer, and of the repetitions, does not exceed the patience) |
| `NoFalseAlarmCorrect` | `Room` implies `Spec => []NoFalseAlarm` | `CalmInv`: until the worker crashes or something else than `Beats` gets lost, the two ends are `Calm` |

`Room` is the condition on the network under which the periods in the headers
fit each other: with `Gap == MaxDelay + 500 * (MaxLost + 1)`, the longest time
between two heartbeats that arrive, `2 * MaxDelay + (MaxLost + 1) * Gap` is less
than the 5000 ms of the worker's heartbeat timeout. Without it the property is
false: TLC finds a false alarm for two losses in a row with delays of 500 ms,
for one with 1000 ms and for none with 1500 ms, which all miss `Room`; the run
`timeouts` with one loss and 500 ms meets it (4000 ms). The server's own patience
of 3000 ms then has room as well (`RoomIs`). In `Calm` the heartbeats since the
last one that arrived are a `Stream(B, S, ...)`: the times B at which they
were sent, with no gap longer than 500 ms, of which S are lost, no more than the
network has lost in a row, and the others fly, each with its age. `StreamBound`
counts: of `MaxLost + 1` in a row one is not lost, and it is not older than
`MaxDelay`. The answers to the heartbeats are a second stream whose gaps are
those of the arrivals of the first.

The other proof modules, again for all values of the constants that the named
assumptions allow:

| module | theorems | argument |
|---|---|---|
| `Estimate_proofs`, of `Square` | `SquareTypeCorrect`, `SettledCorrect`, `SettledOnGridCorrect`, `GivenOutCorrect`, `TilingCorrect`, `ListCorrect`, `SomethingToDo` | Every id is `y * side + x + 1` for its column and row, no product leaves 32 bits, hence the corners are those of the plane; the corner nearest to and the one farthest from the centre bound all points between, for every denominator (`SettledCorrect` is `SettledAsDrawn(d)` for every d). `SomethingToDo` follows from segment `side`, the last of the first row, which the circle always cuts |
| `Wire_proofs` | `WireTypeCorrect`, `ReadAsSentCorrect`, `OnlyWhatWasReceivedCorrect`, `OneDatagramCorrect`, `LoopEndsCorrect` | the fields of a tag do not overlap and end where `ProperMessageSize` says; storing and loading, and swapping twice, are inverse |
| `EventLoop_proofs` | `LoopTypeCorrect`, `WakeupCorrect`, `SignalsMasked`, `LoopIsMailbox` | `LoopInv` adds what each number of calls made means: nothing is received before the last, and the loop runs after it. `LoopIsMailbox` is the safety part of `ImplementsMailbox`; its fairness is checked by `event_loop` |
| `Estimate_proofs`, of `PiResult` | `ResultTypeCorrect`, `ExpansionCorrect`, `AnswerCorrect` | `ResultInv` keeps the invariant of `Square` and adds to `ExpansionIsExact` that sum and divisor have not wrapped (`Sums`), how many digits there are, and that the divisor is not 0 where it fits. `NextDigitInv` is one step of a long division |
| `Estimate_proofs`, of `WorkerThread` | `ThreadTypeCorrect`, `ResultCompleteCorrect`, `OneThreadCorrect` | the invariant ties the state of the main thread to that of the other and to the signal |
| `Estimate_proofs`, of the whole | `EstimateImplements`, `EstimateTypeCorrect`, `EstimateAnswer`, `EstimateResults`, `EstimateBracketed` | the composition is a behaviour of both of its parts, because the job it begins is one of `Jobs` and the hits it adds are hits a segment may have; so what is proved of the parts for any job and any hits holds from end to end. `InOrder` adds that all is solved before the sum begins. For `EstimateBracketed` the invariant `Counted` bounds the hits summed up so far by the numbers of inner and outer cells among those segments: one more segment adds at most one cell to each (`UpToGrows`), and its hits are what its two corners say (`HitsOfCell`), so the step of the loop does the counting and no sum over segments is needed |
| `MainProgram_proofs` | `MainImplements`, `StartupTypeCorrect`, `ProperCallsCorrect`, `ServesCorrect` | `StartInv` says, phase by phase, what has been made of the arguments. The tests of `main` are those of the usage for one reading of the arguments, the one without the first `-v` (`AcceptedIsProper`); no parameter is the flag, so no other reading has proper parameters (`OneReading`), and two flags are one too many |
| `MainProgram_proofs`, of the log | `MainTypeCorrect`, `VerboseCorrect`, `FileFollowsCorrect`, `AbortCorrect` | see below |

The four theorems about the log need two kinds of argument. The first is about
what a logger looks up, and holds for every logger there is: a list of
configuration entries begins with Level::Global and has every level
(`Filled`), whatever values went through it before, because an entry for
Level::Global sets all levels anew (`GlobalFills`, and `FoldFills` for one list
over another). From such lists `TypedConfigurations` builds maps in which every
level finds its own format, and the one value of any other type (`FormatsShown`,
`OneValue`); the entries of the file open one stream for all loggers, or switch
`ToFile` off (`InsertIs`). `IsConf(conf, e)` says this of a whole configuration
whose `Enabled` is e, `Serves` of what is built from it. Each of these is a fold,
and a fold is a recursive function over the positions of a list; `Fold_proofs`
shows that what the first value has and each step keeps, the last value has
(`FoldInduction`). The library's induction theorems take the statement as an
operator, which the provers cannot instantiate; here it is a function from
positions to sets of values, the operator of the fold is a constant of the
module, and the induction is that of the natural numbers as a well-founded
order, which needs neither.

The second is the invariant `LogInv` of `LogSpec`, checked action by action. Up
to the loop it says what main()'s own configuration and the loggers are
(`ConfInv`, `BeginInv`). From then on everything is `Fit`: the "default" logger
is on, the "connection" logger is on if -v was given, and the stream is empty
and the file equal to the screen, or the stream is bad and the file with the
buffer is how the screen begins (`StreamInv`). `FileFollowsScreen` alone is not
inductive: behind a stream that is not bad and a file that lacks a line of the
screen, the next line would leave a gap. `AbortIsOnRecord` follows as well: a
stream that is not bad has handed the fatal line over. `RunInv` counts the lines of the connections on the screen, and
`FlagInvariant` ties `verbose` to the arguments.

Only model-checked are the liveness properties (`AbandonedWorkersExit`,
`DeadWorkerReleased`, `JobFinishes`, `JobIsReported`, `SolvedIsNoticed`, `WaitEnds`
and the fairness in `ImplementsMailbox`), because fairness and ENABLED are beyond
the prover. That the digits come out right for every number of hits is proved
through the invariant of the loop.

## What was found

Three places where the program does something else than a comment in it says,
each with a run that shows it:

* **`sibling_timeout`** (`server_manager.cpp:59`). A response timeout is said to be
  delegated to the right connection. It is delegated to all whose response
  timer is not running, which includes those that wait for no answer: they
  send their last message again, have their timer set, and lose a repeat.
* **`late_message`** (`connection_main.cpp:83`). `standingBy` expects no message,
  relying on `handleMessage` to take care of what a worker sends again. It
  does not when the connection is a second one for the SID, opened by a Hello
  that was under way for long: the Result of the worker, which never stopped
  computing, is above the last number, and LOG(FATAL) aborts the server.
* **`repeated_work`** (`connection_worker.cpp:183`). A worker should send the ACK
  again when Work comes again. `lastMessageRecv` of the worker is never
  assigned, so the test compares with 0 and the Work is overlooked.
Met on the way, without a run of its own:

* `handleHeartbeatTimeout` (`server_manager.cpp:82`) is the twin of
  `sibling_timeout`: it deletes all connections whose heartbeat timer is not
  running, so also those that await the ACK of a Work, where it is off.
* The server accepts up to 2^63 - 1 points, but `remainder * 10`
  (`solution_manager.cpp:181`) wraps once ten times `points * side * side` is
  above 2^64; the digits after the dot are wrong then. `Fits` is the condition
  under which `AnswerIsTruncated` is stated and proved.
* The usage allows 0 digits, and the constructor of SolutionManager throws for
  them, uncaught (`solution_manager.cpp:39`). `StartupTypeOK` says that it is the
  only way a server that is configured gives up.
* A Result that is lost is sent again after 3000 ms, but heartbeats stop with the
  first (`connection_worker.cpp:259`), and the server's heartbeat timer of 3000 ms
  was set before it: in `Timeouts` the connection is gone when the repetition
  comes.
* `SocketBase.h:40` says `MessageInvalid` is returned when there is no message; it
  is `NoMessage`, on which the loops rely.
* A healthy worker is given up when the ACK of its Work is lost, because
  heartbeats are not answered while the server awaits it; the connection
  `SilenceIsNoticed` excepts is never noticed by its own timers, though a
  sibling's signals may end it; a queued response timeout is counted against the
  next message.
* `NoFalseAlarm` stops holding for two heartbeats or answers lost in a row at
  delays of 500 ms, for one at 1000 ms, and for none at 1500 ms: a healthy worker
  then gives the server up.
* After one flush that fails the log stream stays bad, so the file silently ends
  there although the disk has room again (easylogging's message about it is
  compiled out).

## Not modelled, and the plan

Modelled are the protocol (`DistPi`) and, one by one, what it abstracts. Left of
the plan is a process that starts again under an old SID.

Not modelled, and why:

* `print()` of SolutionManager writes a listing and is never called; `stop()`
  and `isRunning()` of WorkerThread and the start and stop functions of the
  connections' timers (`startTimeout` and so on) are never called either.
* Where a random point falls is a chance: any point of the segment is possible.
* Failures of the system calls for timers and threads, for which the code throws.
* `iptostr`, `strtoip` and the wording of messages and of the usage.
* Of easylogging++ what neither program uses: configuration files, rolling of
  files, verbose levels and modules, hit counters, performance tracking, the
  crash handler, asynchronous and syslog logging, the printing of containers.
