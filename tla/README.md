# A verification of glacier

glacier is a small multi-threaded HTTP server in C++: one epoll reactor per
thread, an acceptor that deals connections out to the reactors, edge-triggered
non-blocking connections closed by timers, a thread pool, and logging, to a file
directly or by a thread of its own, with a calendar and time zones. Beside it
stands the small server `tiny` of the CS:APP book. This directory holds TLA+
models of them, the TLC configurations that check them on small instances, and
proofs, checked by TLAPS, of the properties that hold for every instance.

`PROJECT.json` is the index: the runs, the lines of source each definition
translates (`map`), a mutated definition for each property that the run must
reject (`mutants`), the hazards of the code with the properties that watch them,
the disagreements found between code and comments, and the main theorems.

To repeat the checks:

    tlc -workers 2 -config EventLoop.cfg EventLoop.tla
    tlapm EventLoopProofs.tla

## 1. Inventory

Sources are under `src/glacier/` unless the table says otherwise.

| Component | State it keeps | Operations | What makes it correct |
|---|---|---|---|
| `EventLoop` (eventloop.cc) | `quit_`, `pendingFunctors_` under `mutex_`, `callingPendingFunctors_`, the eventfd | `loop`, `runInLoop`/`queueInLoop`, `quit`, `wakeup`, `doPendingFunctors` | a functor is executed once, in order, and never waits for an unrelated event; `quit` ends `loop` |
| `EventLoopThread` | `loop_`, the thread | `startLoop`, `threadFunc`, destructor | `startLoop` returns a live loop; the destructor joins |
| `EventLoopThreadPool` | `loops_`, `next_` | `start`, `getNextLoop` | loops take turns |
| `TcpServer` | the listening channel | `handleNewConn`, `handleThisConn` | nothing is left in the backlog; each descriptor has one owner |
| `Epoll` | `fd2chan_`, `fd2http_`, the kernel's registrations | `epoll_add/mod/del`, `poll`, `getActiveChannels` | the tables agree with each other and with the kernel, and never show a closed or foreign descriptor |
| `Channel`, `HttpData` | masks, buffers, parse state, connection state, error, a weak link to a timer | `handleEvents`, `handleRead/Write/Conn/Close/Error`, `parseURI`, `parseHeaders`, `reset`, `newEvent` | no edge is lost, a response is not cut off, nobody calls a freed object, an idle connection is closed |
| request parsing, in `HttpData` (httpdata.cc) | the buffer, the parse state, the headers | `parseURI`, `parseHeaders` | a request is read as it was sent however the network cuts it |
| `Timer`, `TimerManager` | a heap of timers, some without a connection | `addTimer`, `reset`, `isValid`, `handleExpiredEvent` | one live timer per connection; none closes early; none is left overdue |
| `AsyncLogging` (base/) | two buffers and a list under `mutex_`; the thread's two spares and the buffers it is writing | `append`, `start`, `stop`, `threadFunc` | lines are written once, in order; the assertions hold; `stop` returns |
| `ThreadPool` (base/) | a queue under `mtx_`, `stoped_` | both overloads of `commit`, the workers, the destructor | a task is taken once, in order; no notification is wasted; `join` returns |
| `LogFile`, `AppendFile` (base/) | the file, bytes written, count of appends, times of the last roll and flush | `append`, `flush`, `rollFile` | lines stay whole; a file is rolled soon after its size or its day is over; no two files share a name; little is lost in a crash |
| `LogStream`, `FixedBuffer`, `Logger` (base/) | a buffer per statement; the cached second of each thread | `operator<<`, `append`, `formatTime` | integers are formatted right at the ends of their range; nothing overflows the buffer; a line shows its own second; a FATAL line is on the disk before `abort` |
| `Date`, `TimeZone`, `Timestamp` (base/) | none, or a constant table of transitions | conversions between seconds, fields and day numbers | they are the civil calendar, and inverse to each other |
| `CountDownLatch` (base/) | a count | `wait`, `countDown` | nobody who waits is left behind |
| `utils` | none | `readn`, `writen`, socket options | all that can be transferred is, and counted |
| tiny (../csapp/tiny.c, ../csapp/csapp.c) | one connection at a time; Rio's buffer; a CGI child | `doit`, `serve_static`, `serve_dynamic`, `rio_readlineb` | each client gets the answer to its own request; nobody waits for ever |
| echoserv | - | an iterative echo server | a separate teaching program |

How they interact: the acceptor runs in the main loop's thread and hands an
`HttpData` to an I/O loop by *queueing a functor*, the only way into a loop from
another thread. That functor registers the connection with the loop's `Epoll`
and starts its timer. From then on the loop's *callbacks* (through `Channel`)
and *timers* drive it. `shared_ptr`s in `fd2http_` and in timers keep the object
alive; callbacks hold raw pointers. The *descriptor number* is state shared with
the acceptor: the kernel reuses it as soon as the destructor closes it. Logging
is called from everywhere; a finished line goes to `g_output`, which is either
`AsyncLogging::append`, whose two buffers and list are shared with its thread, or
`LogFile::append` in the caller's thread, as in tests/logfile_test.cc. tiny shares
nothing with the rest.

What is hard here: wakeups that race with `epoll_wait`; edge-triggered events,
where an edge consumed too early or never re-armed is lost for good; objects
closed between being reported and being handled; timers removed lazily, on a
clock that wraps after 10000 seconds; threads started, quit and joined with
flags that are tested without their mutex; recycled buffers; lines, headers and
responses that are taken in parts; a clock that moves on between two looks at it;
files that change between `stat` and `open`; failures of `accept`, `fcntl`,
`epoll_ctl` and `fwrite` half way. `PROJECT.json` lists these at their
lines under `hazards`.

## 2. The modules

| Module | Models | Atomic step |
|---|---|---|
| `TaskQueue` | what a loop promises its callers: functors executed in the order queued | - |
| `EventLoop` | the reactor, its eventfd and epoll's edge | one critical section of `mutex_`, one system call, or one statement that others can observe |
| `EventLoopThread` | thread, `startLoop` and destructor; it extends `EventLoop`, whose steps it takes | as above |
| `Connection` | `HttpData`, `Channel`, `Epoll` and the kernel's socket and epoll item, for the connections of one loop | one system call of the loop's thread with the computation up to the next |
| `Server` | `TcpServer`, `EventLoopThreadPool` and the tables of all loops' `Epoll`s | one `accept`, one functor, one `epoll_ctl`, one `close` |
| `TimerManager` (`MCTimerManager`) | the heap of timers and the wrapping clock | one handler; one timer popped |
| `AsyncLogging` | the logger and its thread | one critical section of `mutex_`, one buffer written |
| `ThreadPool` | the pool, with the instant between a predicate and its wait | one critical section of `mtx_` |
| `LogStream` | `FixedBuffer` and the operators `<<`: functions, integers converted digit by digit | - |
| `LogFile` | append, roll and flush, over stdio and the clock | one `fwrite`; one look at the clock |
| `Logging` (`MCLogging`) | `Logger`: LOG_ statements of several threads into a `LogFile` | of a statement: the clock taken, the text of the second filled, the suffix chosen and the line completed; the steps of `LogFile`; `abort` |
| `Parser` (`MCParser`) | `parseURI`, `parseHeaders`, character by character | one read, with the request line if it is complete; one turn of the headers' loop |
| `Tiny` (`MCTiny`) | tiny.c, Rio's buffer, `doit`'s locals, the CGI child, clients that stop sending or reading, files that change | one system call, with the computation about it |
| `Calendar` | date.cc and the UTC half of timezone.cc, beside a civil calendar walked day by day | one day |
| `TimeZone` (`MCTimeZone`) | transitions and local time, over `Calendar` | one day |
| `EventLoopProofs` (both reactor modules and the timers), `ConnectionProofs` (with the parser), `ServerProofs`, `AsyncLoggingProofs`, `LoggingProofs`, `ThreadPoolProofs`, `CalendarProofs` (with the zones), `TinyProofs` | theorems | - |

Variables and actions carry the names of the code where they can: `quit`,
`calling`, `pending` of `EventLoop` are `quit_`, `callingPendingFunctors_`,
`pendingFunctors_`; `Swap` is the critical section of `doPendingFunctors`.
Program counters (`lpc`, `tpc`, `pc`, `worker`, `owner`, ...) say where a thread
is between two steps. Variables marked *history* in a comment are not in the
code. A definition whose comment begins "Mutant of" is a plausible mistake; no
specification uses it, and the runs must reject it.

The modules share boundaries rather than state. `Connection` takes from
`EventLoop` that functors run in the loop's thread between callbacks and timers,
and from `TimerManager` that a connection has one timer which becomes due some
time and, due, closes it. `Server` takes from `Connection` that a connection in
`fd2http_` may be closed, or lose its channel, at any time, and from `EventLoop`
that functors are executed in order; it allows in exchange every order of those
steps, so that its safety properties do not depend on what happens in between.
`EventLoopThread` extends `EventLoop` and adds the owner's steps to it, and
`ImplementsTaskQueue` says that the reactor implements `TaskQueue`.
`Logging` extends `LogFile` and `LogStream`: its threads take the steps of
`LogFile` with lines that `LogStream` has formatted. `Parser` is the detail of what
`Connection` takes for one step: there the parsing of a piece has an outcome
(complete, to be continued, wrong), here the outcome is computed from characters,
one turn of the loop at a time, with the code's local positions as variables. A
request is a text with the places where its parts end; `IsRequest` is the grammar.

A character of `Parser` or `Tiny` is a member of a small set; a word the code
looks for as a whole, such as `GET`, is one character. A line of `LogFile` is its
author, its number and its length in bytes, so that sizes are the code's own; a
time is a second, and a day lasts `kRollPerSeconds_` of them.

### The kernel in `Connection` and `Server`

Definitions marked `external` in the map model epoll and TCP as the code uses
them. An edge-triggered item goes on the ready list when an event it asks for
occurs, or when it is armed by `ADD` or `MOD` while such an event is there;
`epoll_wait` takes it off and reports what is true at that moment; `EPOLLONESHOT`
disarms it; errors and hang-ups are always reported. A reset is reported by the
first system call on the socket, and the second write after it raises `SIGPIPE`,
which glacier does not handle: the state `killed`. Peers send, half-close, reset
and make room between any two system calls of the loop.

## 3. Runs

All bounds are constants of the cfg or definitions of its MC module.
`CHECK_DEADLOCK FALSE` stands where the system really may stop: a loop that has
quit, a pool that was joined, a server without clients, a program that has
aborted, a calendar at the last day walked.

| Run | Instance | Shows |
|---|---|---|
| `eventloop` | two threads, three functors, an eventfd that saturates at 2 | `NoLostWakeup`, `NoLostQuit`, the refinement `ImplementsTaskQueue`, and under fairness `EveryTaskRuns`, `QuitStopsLoop` |
| `eventloop_thread` | owner and one user of the loop, two functors | `StartLoopReturns`, `AliveUntilQuit`, `DestructorReturns` |
| `connection` | one connection, two pieces of input in flight, a socket that takes 1 unit of a response of 2 | `HandledAlive`, `TimedUnlessLingering`, `NoInputForgotten`, `NoOutputForgotten`, `NoTruncation`, `InputServed` |
| `parser` | 19 requests of up to two headers, cut into reads in every way; values of two characters where three are too many | `ParsedAsSent` |
| `server` | five connections, two loops, four descriptors, tables for three | `DescriptorOwned`, `TablesAgree`, `NoBacklogForgotten` |
| `timers` | two connections, four timers, timeouts 1 and 3 on a clock of period 4, three periods | `OneTimer`, `NeverEarly`, `NoneOverdue` |
| `asynclogging` | nine lines, buffers that take two, a list cut beyond three | `AssertsHold`, `SpareUnlessBacklog`, `OnceInOrder`, `LineWritten`, `StopReturns` |
| `logging` | two threads, three statements, files that two long lines fill, days of two seconds, a time zone set at any moment | `WholeLines`, `RolledInTime`, `FlushedSoon`, `FatalOnDisk`, `LineText` |
| `threadpool` | two workers, one client, three tasks, which may commit tasks themselves | `TakenInOrder`, `WorkNoticed`, `EveryTaskRuns`, `JoinReturns` |
| `timezone` | every day from 1898 to 2101; five zones about their transitions | `CivilDate`, `UtcTime`, `LocalTime` |
| `tiny` | two clients, seven requests with request lines of no word to three, lines of three characters, a Rio buffer of three, connections that take one part of a response until the client reads | `ServedAsAsked`, `EachClosed` |
| `idle_timeout` | one connection | the finding of section 6 |

Why the bounds are enough:

* `eventloop`: three functors let one be executed, one be in the batch and one
  pending at once; two threads let one be inside `wakeup` while another queues;
  with the counter at 2 the third wakeup meets a full eventfd, as the 2^64-th
  would.
* `connection`: a response of 2 with room for 1 blocks, is resumed, and blocks
  while input arrives; two pieces are a request with its headers, a request cut
  in its headers, or headers with the next request behind them. The other
  connections of the loop appear as `PollOther`, epoll_wait returning for
  somebody else: connections share no state but the loop's thread.
* `server`: three usable descriptors for two loops let a number be closed in one
  loop and reused in the other while both have functors queued; the fourth, which
  the tables do not take, is the case of the limit, or, taken by the file of a
  response, makes `accept` fail with `EMFILE`; five connections reuse a number up
  to four times.
* `timers`: the clock passes zero twice, the long timeout spans a wrap, and each
  connection can have a stale timer besides its own.
* `asynclogging`: nine lines fill four buffers, so that the list exceeds its
  limit, is cut to two, and the recycled buffers come round again.
* `logging`: two of the long lines grow a file beyond `rollSize_`; with a check on
  every second line, a check comes due with a new day, with a flush, with
  neither, and is put off by a roll for size; the clock passes one midnight
  between any two steps. `ShortWrites` cuts a long line at a byte of its own. The
  messages are the least 16-bit integer, a text that leaves the buffer without
  room for the last pieces of the line, and a FATAL statement with a pointer.
* `parser`: headers of no, one and two characters, a value that holds a colon,
  one that is too long, a key that comes twice, a path with a query, one that is
  empty, one that names a method, and a second request behind the first; every
  way to cut a request into reads is run, the harmful ones included.
* `tiny`: a line of the request fits the buffers or is split by either; one
  client waits while the other is served, blocks, spins or ends the server, or
  leaves its words to it. With room for one part, every response blocks a server
  whose client does not read. `SendSizes` has clients send two characters at a
  time or all that is left; the theorem has every size.
* `timezone`: the leap-year rule has a period of 400 years, of which the run
  covers two hundred with both kinds of century (1900 and 2000); the theorems
  cover the rest. The zones go forward and back, in both hemispheres, begin
  inside and outside summer time, and one has an odd offset; the instants looked
  at include each transition, the second before it and both passes of the
  repeated hour.

### Fairness

Fairness is assumed of threads, never of the network or of callers: a runnable
thread is scheduled (`WF`), a `wait_for` ends by its timeout (`AsyncLogging`),
and in `ThreadPool` a mutex that is free again and again is obtained and the
notified worker gets to run (`SF`). A plain `wait` need not end, no timer need
become due, no task need be committed. In `Tiny` the server and the CGI program
run on (a write that waits for room is not enabled), and so does a CGI program
unless it hangs, which it may do at any time. A client that neither shuts down
nor resets its connection sends the whole of its request, and one that has not
stopped reading, as it may at any time, reads what was written to it: an iterative
server is at the mercy of its clients, and `EachClosed` says so by excepting
those that do otherwise. `InputServed` holds although other
channels keep the loop busy, since an iteration handles what it reported and
ends.

## 4. Proofs

Each theorem holds for all values of the constants that satisfy the named
`ASSUME`s, which TLC evaluates in the runs.

* `EventLoopProofs`: `TypeCorrect`, `WakeupsNotLost`, `QuitsNotLost`,
  `ExactlyOnce`, and `RefinesTaskQueue`, for any threads, functors and counter
  width (`EventfdMax > 0`). `NoLostWakeup` is not inductive. It needs `EdgeKept`
  (a counter above zero is on the ready list or has been reported and not yet
  read: why a saturated counter does no harm), `CallingMatches` (the flag says
  truly where the thread is), and `ActiveWhenHandled`; with both wakeup
  properties they form `SignalInv`. Order needs `BatchWhenRun`, that nothing is
  left of a batch when the next is taken. The refinement maps the functors queued
  and those begun; `Push` maps to `Submit`, `RunTask` to `Execute`, any other
  step to a stutter.
  With the owner and the thread around the loop (`EventLoopThread`),
  `LoopAliveUntilQuit` holds for any threads and functors, and `ReactorInThread`
  gives the reactor's promises there as well: the loop's own steps are the only
  ones that touch its state. `PublishedWhileLooping` orders what the owner and the
  thread have done; `ExitMeansQuit` says that `loop()` is left only on a `quit_`
  that is set, which nothing clears but `loop()`'s first statements.
* `ConnectionProofs`: `TypeCorrect`, `LiveCallbacks`, `TimersKept`, `InputKept`,
  `OutputKept` and the action property `OutputFinished`, for any connections,
  request lines and sizes. None of the four invariants is inductive; `ConnInv`
  is, which says of each connection in which *phase* of its callbacks it is and
  what that phase owes. `InputDue` and `OutputDue`: on an armed item, input or room
  that is there is on the ready list, or reported and its callback still to come.
  `KeptArmed`: the item is armed unless a one-shot event is being handled.
  `Phased`: which callback runs on which events, with which mask for the next
  registration; in particular no path comes to `handleConn` with output left and
  no `EPOLLOUT` asked for, so that the next registration asks for it
  (`OutputAsked`). `Timed`: between callbacks an open
  connection without a timer lingers. The steps of the loop touch one connection
  (`CallbackStep`), and so do those of the kernel and the peer (`EnvironmentStep`).
* The parser, in `ConnectionProofs`: `ReadAsWritten`, which is `ParsedAsSent` for
  requests of any text that keeps to the grammar (`RequestsAssumption`), with any
  number of headers and anything behind them, and for reads that end anywhere.
  The invariant `ParserInv` speaks of places in the text that the client sends and
  not in the buffer. For every request and every cut the buffer is an end of what
  has come, the first `Gone` characters having been consumed (`ParserShape`), and
  the loop looks at the character at `Place`. As long as the cuts were harmless,
  `Within` says between which places of the grammar the loop is in each state,
  that the positions it keeps are the beginnings and ends of the key and the value
  there, and that the headers before are in `headers_` (`TakenTo`); `Between` says
  what a read leaves for the next one. Why the cuts are harmless is the difference
  between the two: between reads nothing is kept in a position that the next call
  of `parseHeaders` sets to zero. There is a lemma for each state of the loop
  (`StartStage`, `KeyStage`, ...), one for the request line (`LineComes`) and one
  for any later read (`HeadersCome`); `InOrder`, that the parts of a text follow
  one another, and `FindsFirst`, what `find` returns, are proved by least elements
  and not by the library's induction.
* `ServerProofs`: `DescriptorAlwaysOwned`, `TablesAlwaysAgree` and
  `BacklogNotForgotten`, for any number of loops, descriptors and clients.
  `DescriptorOwned` is inductive with the acceptor's `OneInHand`: a number that
  `accept` returns is free, hence nobody's, and any later step of a loop only
  moves it between that loop's places or closes it (`MoveOwner`). `TablesAgree` is inductive together with
  `Shape`, the types of the tables. `NoBacklogForgotten` needs `AcceptorInv`: the
  listening item is disarmed only by a failed `fcntl`, and idle for good; a client
  that comes after `accept` found no more raises its edge before the round is over.
* The timers, in `EventLoopProofs`: `TimersTypeCorrect`, `OnlyOneTimer`,
  `NeverClosedEarly`, `NoneLeftOverdue`, for any connections, timeouts and period.
  `OneTimer` is strengthened by its converse `LinkBack`; `BornBefore` (no timer
  comes from a period still to come) turns the code's comparison of wrapped times
  into one of unwrapped times.
* `AsyncLoggingProofs`: `TypeCorrect`, `AssertionsNeverFail`, `SpareAvailable`
  and `LinesOnceInOrder`, for any buffer size above one, any limit not below the
  two buffers kept and any number of lines.
  The invariant `HandOver` follows the two spares through a turn: before the swap
  the thread has both, empty; after it, what it took is at least as many buffers
  as it left behind, and cutting keeps two. `OnceInOrder` speaks of the buffers on
  their way as a list, `Coming`, whose last one takes a line (`PutLine`), whose
  first one is written (`TakeFirst`, `WriteBuffer`) and whose middle is cut
  (`CutList`); besides `HandOver` it needs `AllWritten`, that the spares are put
  back only when nothing is left to write.
* `LoggingProofs`: `LinesStayWhole`, `FatalLineOnDisk`, `FilesRolledInTime`,
  `WritesOutInTime` and `TextOfLines`, for any threads, statements, file and buffer
  sizes, intervals and short writes; of the statements it is assumed that no number
  is longer than the buffer kept free for it, which 64-bit integers are not. All
  five rest on `Control`: one thread at most is between the first `fwrite` of a
  line and the end of `append`.
  * `WholeLines` needs `LinesInv`: the parts of a line are in one file, one behind
    the other (`Joined`, `Continued`), a line being written is the last of its file
    and lacks what is still to be written (`Begun`), and no part is of a line
    still to come (`Known`).
  * `RolledInTime` needs `RollInv`: `writtenBytes_` lags behind the file by what is
    written of an unfinished line (`Counted`); of a file's lines no more are late
    than `count_` has counted (`Allowed`); the period is that of the last roll, and
    the names of files, their lines' times and the clock increase (`Clock`,
    `Named`, `Timed`). `FlushedSoon` counts the lines that wait in the same way, with
    `Recent`: what is not on the disk is not older than the last flush.
  * `FatalOnDisk` needs `FatalInv`: a file that was rolled is on the disk
    (`Closed`), the last line of each thread is in some file (`There`), and on the
    disk once the thread has flushed (`Saved`).
  * `LineText` needs `StampInv`: the text a thread keeps is of the zone there is,
    or no later than the second in which the zone was set (`Kept`); between
    `formatTime` and the suffix it is that of the Logger's time (`Took`); no time
    is ahead of the clock (`Told`), so that setting the zone makes nothing wrong
    that was right. It also needs facts of the recursive functions that format a
    line. Those are proved by induction: in
    its form by least elements (`NatMin`) it needs no operator for a parameter, so
    the library's theorem for `<` serves. `Unfolding` gives the digits, lowest
    first, their recursion, which ends because the quotient comes nearer to zero
    (`Shrinks`); `PutsExist` and `PutAllRight` follow the pieces of a line into the
    buffer; `ReadsRight` and `NumeralRight` say that the digits written for an
    integer, negative or not, read as its value.
* `ThreadPoolProofs`: `TasksTakenInOrder` and `WorkAlwaysNoticed`, for any
  workers, clients and tasks. `WorkNoticed` is not inductive: it needs
  `EmptyWhenBlocking`, that the queue stays as empty as a worker found it while
  the worker, about to wait, holds the mutex.
* `CalendarProofs`: `DatesAgree` and `TimesAgree`, for every day from 1 January
  4800 BC on without an upper bound, and `LocalTimesAgree`, for every zone whose
  clocks change as `ClockChanges` has it. `Counted` is the inductive invariant: the
  date beside the day count is valid, and the code numbers it with that count.
  Its steps say that the number of the next date is the next number (`NextNumber`,
  by the cases of a month's end, February's and the year's) and, backwards,
  `PreviousNumber`. That the code finds the date from the number is then
  `DateOfNumber`, which needs no induction: in years counted from March the century,
  the year in it, the month and the day are shown to be found again one by one
  (`Century`, `YearOfCentury`, `MonthOfYear`). Integers are unbounded there. In
  the code `4 * a + 3` is an `int`, so the statements transfer to years up to
  about 1.4 million.
  `LocalTimesAgree` needs no invariant but that every day has a date (`EveryDay`,
  by induction with `NextNumber`), so that any time survives its fields
  (`RoundTrip`). `LookUp` says what the binary search finds in a table whose times
  increase (`ZoneRises`), and `ShownOnce` that the time shown at `t` is looked up
  under the transition in force at `t`, or under the next one if that puts the
  clock back; then `t` and an hour is in the next period, and `fromLocalTime`
  takes the hour off again.

* `TinyProofs`: `ServedAsAskedAlways`, for any clients, files and requests, the
  request line of any number of words, any sizes of the line and of Rio's buffer
  above the least, any parts in which requests come and any room in the socket
  (`TinyAssumption`; `ContentAssumption` has what `stat` may find at a URI, and
  that a word of the request line holds no line end). `ServedAsAsked`
  needs to know whose characters are where: `Input` says that the line read so
  far, then what is unread in `rio_buf`, then what waits in the socket are the
  request of the client being served, from its first character on, with no
  character twice or missing; hence `LineRead` and `ScannedWord`, that the words
  found are this client's as far as it sent them. `Locals` says that `method` and
  `uri` otherwise hold a word of a request that was read, or garbage, and that a
  client that was asked for such a word sends no other afterwards; `Content` that
  `stat` found what is at the URI that was used.
  From there `Serves` follows the answer: what was written, then `todo`,
  then what is still to come from the file or the program (`ToCome`), are
  together the `Response`, unless the client reset its connection or sent nothing,
  the program hangs, or the server exits (`CutShort`). `Connections` gives every
  client one place, so that nothing is written to a connection that waits or is
  closed (`Others`).

The type invariants, and `ExactlyOnceInOrder` of the reactor, are proved and not
in the runs: `ImplementsTaskQueue` covers the latter.

Every invariant and every action property that a run checks is thus a theorem, and
so is the refinement. Only model-checked: the liveness properties under fairness
(`EveryTaskRuns` of the reactor and of the pool, `QuitStopsLoop`,
`StartLoopReturns`, `DestructorReturns`, `InputServed`, `LineWritten`,
`StopReturns`, `JoinReturns`, `EachClosed`), which need fairness and `ENABLED` and
are beyond the prover; and the assumptions of the parser and of tiny for the
instances of the runs, which TLC evaluates.

## 5. What a reader might stumble over

* Bound to the instance: `Tasks` are committed or queued once each, so that
  histories stay finite; `MaxConns`, `MaxInput`, `MaxLines`, `MaxEra`, `Timers`,
  `NearDays`, `FirstDay`, `LastDay` are bounds and are named so where they are
  declared.
* `DestructorReturns` speaks of a loop that has begun looping. A destructor that
  runs between `startLoop`'s return and the first statements of `loop()` sets
  `quit_` before `loop()` clears it (eventloop.cc:52), and joins for ever; the
  model has that behaviour.
* `TimedUnlessLingering` excepts the connections that linger: a peer that
  half-closes while its response is blocked leaves a connection without a timer
  and without an armed epoll item, since the mask set at httpdata.cc:192-193 is
  registered by nobody, although the comment at 172-173 wants the timer renewed
  whenever the connection is handled.
* `NoneOverdue` excepts timers set before the clock last wrapped: their expiry
  time, which is not reduced by the period, may be one that the clock never shows.
* `NoBacklogForgotten` excepts the rounds that ended in an error. After `EMFILE`
  or `ECONNABORTED` the rest of the backlog waits for the next client's edge; after
  a failed `fcntl` the listening item is registered with an empty mask and no
  client is accepted again, and the descriptor is leaked (`lost`).
* `LocalTime` holds for zones whose clocks go back by one hour at the end of
  summer time, the only ones fromLocalTime's flag can tell apart, and are not
  changed again before they have shown a later time than at the last change
  (`ClockChanges`, an assumption TLC evaluates for the five zones).
* `UtcTime` is evaluated by TLC for days whose seconds fit its 32-bit integers
  (`NearDays`); the theorem has no such limit.
* `LineWritten` speaks of a logger that is not stopped: the thread leaves on
  `running_` without a last swap (asynclogging.cc:76), and the lines appended
  before `stop()` may stay in the buffers, where base/README.md:76 expects them
  to be written.
* `JoinReturns` excepts the destructor that comes while a worker is between its
  predicate and its wait: `stoped_` is stored and notified without the mutex
  (threadpool.h:54), which the comment at line 33 takes to be enough.
* The log file. `sizeof` of the basename counts its NUL (logging.h:33), so that
  every line carries one. A buffer that is full loses the rest of the line, its
  newline included. `FlushedSoon` and `RolledInTime` count lines: a log that falls
  quiet is neither rolled at midnight (base/README.md:68) nor flushed, a roll is
  refused within the second of the last, lines that roll by size are not counted
  in `count_`, and `flush()` does not move `lastFlush_`. On a full disk `append`
  goes round for ever holding `mutex_` (logfile.cc:31); the model has no step for
  a write that takes nothing, because it would change nothing.
* `ParsedAsSent` states what parseHeaders bears (`SafeCut`, `Readable`), and the run
  contains the rest.
  Cuts are harmless within the request line, before the first colon and between
  the final CR and LF; elsewhere `key_start` and its like are lost
  (httpdata.cc:297). A request without headers is not answered; an empty value
  takes in the next line (328); a POST or HEAD whose path names GET is taken for a
  GET (245); a value of more than 256 characters is refused; the state `END_LF`
  eats a character of a second request.
* The time stamp of a log line. A Logger takes the clock once (logging.cc:77) and
  looks at the zone twice, for the text of a new second (95) and for the suffix
  (106). A time zone set by another thread in between, or in a second whose text is
  kept already, leaves a line with GMT text and no `Z`, even one that is completed
  in a later second. `StampRight` says exactly which lines that can be: those begun
  by the second in which the zone was set. `Logging` sets it once, from the invalid
  zone, and reads it as a whole in each of the two tests; in the code the assignment
  is not synchronised with them, and setting it again would free data that another
  thread may be reading.
* What tiny does with a request line of fewer than two words. Nobody looks at the
  result of `sscanf` (tiny.c:75), and `method` and `uri`, which nothing initialises,
  are what the last call of `doit` left in that place of the stack, or anything that
  came there since (`Garbage`). So a client that sends an empty line, or a `GET`
  without a URI, may be sent the page that the client before it asked for.
  `ServedAsAsked` does not forbid it, because the code does it: it says that this
  happens to no word that a client did send, and that what is answered is what was
  so read (`asked`).
* `EachClosed` excepts what brings tiny to a stop, the `Fault`s: an end of input
  within the headers, for which the server spins (tiny.c:120, and if it comes at
  once the buffer was never written); a client that reads no more of a response
  that does not fit the buffers of its connection, for which `write` waits for ever
  (csapp.c:782), as the child then may; a CGI program that never ends
  (tiny.c:226); and what ends the process through the wrappers of csapp.c: an empty
  file, a file removed between `stat` and `open`, one whose owner may read it and
  the server may not (tiny.c:92 looks at the owner's bits, 181 fails), a `fork` that
  fails, and a reset connection. These are described and not caught; what
  the property catches is any other way in which somebody waits for ever.
* A program that cannot be executed ends with `exit`, which writes the copy of the
  server's own buffered output to the client (tiny.c:224): the `"log"` of `Answer`,
  which `ServedAsAsked` takes for the response.

## 6. Disagreement found

A run that TLC must find violated, against a sentence of the repository.

* `idle_timeout`: `Epoll::poll` goes round while no channel is active, so that an
  expired connection of an otherwise idle loop is not closed (epoll.cc:61-69
  against httpdata.h:55).

## 7. Not modelled

* MIME types and the wording of responses, of glacier and of tiny.
* The bytes of a zone file, a file cut short among them (timezone.cc:156): a zone
  is what a complete file says. The formatting of dates, and `Timestamp`, a count
  of microseconds with its text.
* `CountDownLatch` beyond the latch of one that `AsyncLogging` uses.
* `setLogLevel`, `setOutput` and `setFlush`, which are called before the threads
  start; the text of a double, which `snprintf` writes and the model has as a
  length; `fopen`'s failure, which the code does not look at (logfile.cc:24).
* Socket set-up (`open_listenfd`, options) and `main`: plain system calls.
* echoserv, and the functions of csapp.c that nothing here calls: the process,
  signal and thread wrappers, `sio`, and `Pthread`'s.
* The tests, which are drivers. Only tests/timezone_test.cc asserts something, at
  lines 207 and 212, that a time survives its UTC fields and that these are
  `gmtime`'s; it prints the local conversions that come out wrong. Both kinds are in
  the run `timezone` (`UtcTime`, `LocalTime`).
* The result of `mmap`, which glacier does not look at (httpdata.cc:429-432): a directory,
  which `open` takes and `mmap` does not, or a file cut short while it is copied
  would end the process.
* The constructor of `Date` from a `struct tm`, which nothing calls: it adds 1970 to
  `tm_year` (date.cc:32-33), where the field counts from 1900.
* Undefined behaviour that has no bounded outcome: a stack buffer that tiny prints
  beyond its NUL, a loop used after its destruction beyond "crashes or does
  nothing".

## 8. Plan

Done: the reactor with its thread and abstract queue, the connection, its
parser, the acceptor with the tables, timers, both ways of logging, pool,
calendar and zones, tiny; proofs of every safety property that the runs check.

Next, in this order:

1. An abstract `Connection` that answers requests in order, and the refinement,
   for which `ReadAsWritten` gives the step from pieces to requests.
2. `AsyncLogging` writing into `LogFile` instead of a sequence of lines.
3. The decoding of a zone file, and what a truncated one leaves behind.
4. `CountDownLatch` for several waiters, and `readn`/`writen` with interrupts, as
   refinements of what `AsyncLogging` and `Connection` assume of them.
