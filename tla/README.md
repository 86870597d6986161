# A TLA+ model of Server-based-on-Fibers

The repository is a C++17 server framework: coroutines (fibers) on `ucontext`, an
N:M scheduler for them, an epoll-based `IOManager` with timers, hooks that turn
blocking system calls into fiber switches, and on top of these sockets, a TCP
server and HTTP. This directory holds TLA+ specifications of its core, the TLC
configurations that check them and proofs checked by TLAPS. Paths below are
relative to `src/` of the repository's source tree.

## Inventory

| component | state | operations | hard behaviour |
|---|---|---|---|
| Fiber (`Fiber1.cc`) | `m_state`, `m_ctx`, `m_cb`, per-thread current and scheduling fiber | `SwapIn`, `SwapOut`, `YieldToHold`, `Reset`, `ContextFunc` | a context that is used before it is saved, or reset while it is suspended |
| Scheduler (`Schedule1.cc/.h`) | task list, `m_activeThdCnt`, `m_idleThdCnt`, `m_enable_stop`, the threads; per thread `task`, `cb_fiber` | `pushtask(s)`, `Run`, `Notify`, `CanStop`, `Stop` | all threads race for one list; deciding to stop without a common lock |
| IOManager (`IOManager.cc/.h`) | `FdContext`s (event mask, one waiter per event), `m_pendingCnt`, epoll, an eventfd | `addEvent`, `delEvent`, `cancelEvent`, `cancelAll`, `triggerEvent`, `Idle`, `Notify`, `CanStop` | results of `epoll_wait` that are stale when they are handled, edge-triggering, lost wake-ups |
| Timer (`Timer.cc/.h`) | the ordered set, `m_notify`, `m_previoustime`; per timer deadline, interval, callback | `addTimer`, `addConditionTimer`, `cancel`, `refresh`, `reset`, `getNextTimer`, `listExpiredCb` | checks before the lock, a key that changes, waking the sleeper, the clock set back, iterator arithmetic |
| Hook (`Hook.cc`) | per-thread switch; per call a `timer_info` | `do_io`, `connect`, `accept`, `sleep`, `close`, `fcntl`, `ioctl`, `setsockopt` | a timeout racing the event, `close` racing a waiting fiber |
| FdManager (`FdManager.cc`) | `FdCtx` per fd: closed, nonblocking, timeouts | `get`, `del` | a context that outlives its fd |
| ByteArray (`Bytearray.cc`) | chain of nodes, two positions and nodes, size, capacity | write, read, positions, varints, iovecs | node boundaries |
| Socket, Stream, TcpServer | fd state; list of listening sockets, `m_isStop` | `accept`, `readfixsize`, `start`, `stop` | short reads, stopping while accepting |
| HTTP (`Http/`) | parser buffers; connection pool; servlet tables | `recvRequest`, `recvResponse`, `getConnection`, `ReleasePtr`, `handleClient`, `getMatchedServlet` | fragmentation at any byte, pool accounting under concurrency |
| Config (`Config.cc/.h`) | variables, callbacks, the global table | `setValue`, `Lookup`, `LoadFromYaml` | callbacks under the lock |
| Log (`Log.cc/.h`) | loggers with level, formatter, appenders; the variable "logs" | `Log`, the setters, the listener of "logs", `LogFormatter::Init` | a logger that is changed in several locked steps while threads log |
| Address (`Address.cc`) | | `Lookup`, `operator<`, masks and broadcast addresses | the ends of ranges |
| Thread, Mutex, Uri, Env, Util | wrappers, formatting, parsing | | |

How they interact. `pushtask` puts a callback or a fiber on the list and calls
`Notify`, which writes the eventfd if a thread is counted idle. `Run` takes the
first task its thread may run and switches to a fiber. A callback that would
block calls `addEvent` (through `do_io`) and `YieldToHold`; the thread goes on
with `Run`. A thread without a task runs `Idle`: `epoll_wait`, then expired
timers are pushed as tasks, then `triggerEvent` pushes the fibers whose events
came, then it yields to `Run`. `Stop` sets `m_enable_stop`; threads leave `Run`
when `CanStop` holds. `addTimer` calls `Notify` through `Haslatest` when the new
timer is the first one. `close` cancels all events of the fd.

What makes them correct: a callback is run once and comes back after it has
waited; `Stop` loses nothing and returns; the counters `CanStop` relies on are
exact; a fiber is on one stack at a time; event masks, waiters, `m_pendingCnt`
and epoll agree; an event that happened is never lost; timers fire once, in
time, and not early.

Above the scheduler: `do_io` is where `Socket`, and with it every stream, server
and client, waits; `TcpServer::stop` relies on `cancelAll` to get its loops out of
`accept`; `HttpServer::handleClient` is what a `TcpServer` runs per client; a load
of the configuration calls the listeners of the loggers. What makes these correct:
an `FdCtx` belongs to the socket it was made for, and a call leaves no timer and
no event behind; a `ByteArray` is an array of bytes; a connection of the pool has
one owner and a response reaches the one who asked; requests are cut and answered
exactly; `stop` closes what `start` opened; listeners and loggers follow the
configuration; and whoever waits with a timeout, sleeps, loads or stops comes back.

## Modules

| module | models | properties, checked by |
|---|---|---|
| `JobPool` | abstract specification: what a user of the scheduler relies on | `ImplementsPool` |
| `Scheduler` | Scheduler, Fiber, and `Notify`, `CanStop`, `Idle`, `addEvent`, `triggerEvent` of IOManager | `SchedulerProps`, `MCScheduler` |
| `Lists` | what is left of a list from which a loop erases | used by `HttpClient` |
| `IOEvents` | all event operations of IOManager for any number of fds, READ and WRITE, over a model of epoll; the hooked `close` | `IOEventsProps` |
| `TimerManager` | Timer and TimerManager with the timer part of `Idle` and a clock | `TimerProps` |
| `HookIO` | Hook and FdManager, on top of an instance of `IOEvents` | `HookProps` |
| `FlatBytes` | abstract specification: one array of bytes with two positions | `ImplementsFlat` |
| `ByteArray` | the chain of nodes | `ByteArrayProps` |
| `Codecs` | numbers, varints and strings in a ByteArray (pure functions) | `ByteArrayProps` |
| `HttpClient` | HttpConnectionPool and HttpConnection | `HttpClientProps` |
| `Servlets` | ServletDispatcher | `HttpServerProps` |
| `HttpServer` | HttpSession and HttpServer; extends `Servlets` | `HttpServerProps` |
| `HttpMessage` | parameters and cookies of a request (pure functions) | `HttpServerProps` |
| `TcpServer` | TcpServer and its listening sockets | `TcpServerProps` |
| `Addresses` | hosts, order, masks (pure functions) | `TcpServerProps` |
| `Config` | ConfigVar and ConfigManager | `LogsProps` |
| `Logs` | the loggers and their listener; extends `Config` | `LogsProps` |
| `LogPattern` | the parser of log patterns (pure functions) | `LogsProps` |
| `SchedulerProof`, `IOEventsProof`, `TimerProof`, `HookProof`, `ByteArrayProof`, `HttpClientProof`, `LogsProof`, `ServersProof` | theorems about the module they are named for, the last about `HttpServer` and `TcpServer`; `ByteArrayProof`, `LogsProof` and `ServersProof` also about `Codecs`, `LogPattern`, and `HttpMessage` and `Addresses` | TLAPS |

The specifications cut the system where it is loosely coupled. `Scheduler` has one
READ event per callback and no timers: an fd that is waited on stands for
everything that wakes a fiber. `IOEvents` abstracts scheduling: whoever is
triggered becomes `queued`, and a task may run at any later time. `TimerManager`
abstracts tasks: expired callbacks are counted as `fired`, and a runner is either
at work or in `Idle`; it counts idle threads by where they are, which
`CountersExact` of `Scheduler` justifies. `HookIO` composes the events with calls
and timers: it runs the actions of `IOEvents` as steps of its own. The modules above
it take from it that a blocking call ends when its event, its timeout or `cancelAll`
comes. An action `X` in one of these modules has, where a property needs it, a
neighbour marked `Mutant of X`: `X` with one plausible mistake, which is used to
see that the property notices.

What is a function of its arguments (`Codecs`, `HttpMessage`, `Addresses`,
`LogPattern`) has no state. Its properties are stated as `Init => \A ...`, so that
TLC evaluates them in the initial states only, in the run of the component that
uses the functions, for all inputs up to a size. The theorems about these modules
are about inputs of any size (see "Proofs").

### Scheduler

A step is the code between two points at which another thread can see or change
shared state: a critical section, an atomic counter, a swap of contexts. `pc[p]`
follows `Run`:

* `take`: the scan of the list under `m_mutex` (Schedule1.cc:76-96);
  `notify`: the `Notify` after it; `dispatch`: `Reset` or a new fiber,
  `++m_activeThdCnt`, `SwapIn`;
* `job`, `yield`, `term`, `jobNotify`: code on the fiber's stack. A callback may
  push other callbacks, call `addEvent` and then `YieldToHold`, and return;
* `after`, `check`, `setHold`: `--m_activeThdCnt` and what becomes of the fiber;
* `goIdle`, `idleStop`, `idleStop2`, `wait`, `events`, `evNotify`, `idleBack`:
  `Idle`; `runStop`, `runStop2`: `CanStop` in `Run`. `CanStop` is two steps
  because `m_pendingCnt` is read before `m_mutex` is taken.

`exec[p]` is the fiber whose stack thread `p` is on, with the callback it runs;
`ctx[f]` is what swapping into `f` would resume. A fiber that is swapped in while
another thread is on its stack is undefined behaviour; the model records
`"shared stack"` and stops there, and likewise at a failed assertion.
`YieldToHold` writes HOLD and saves the context in one step, because no thread
can use the one without the other in a way the properties tell apart.
`epoll_wait` may return empty-handed at any time, which covers its timeout.

Not in this module: pushing a fiber that is already queued (nothing in the
repository does), failures of `epoll_ctl` (see `IOEvents`), a second `Stop`, and
the start of the threads.

### IOEvents

`type`, `holder`, `size`, `pending` are `FdContext`, the vector's size and
`m_pendingCnt`; `interest`, `level`, `hangup`, `ready` are epoll: what an fd is
registered for, what it is ready for, and the ready list, to which an fd is added
by an edge or by `epoll_ctl`. What runs under `FdContext::mtx` is one step, so
everything may happen between `epoll_wait` and the handling of one of the events
it returned (`batch`), and two threads may hold results for the same fd.

### TimerManager

`order` is `m_timers`, sorted by deadline and address. What happens under the
lock is a step; the test of `m_cb` before it, clearing `m_notify`, `Haslatest`
after it and reading the clock are steps of their own. `Increment` is `++it` in
`listExpiredCb`: behind the last element it is undefined, and the model takes the
outcomes a red-black tree of libstdc++ can produce. Between `getNextTimer` and
`epoll_wait` no time passes (it delays the wake-up by as much), interrupted
waits, which are repeated, are left out, and reading `m_cb` or `m_notify` without
the lock is taken to be atomic. `Insert` puts a timer behind those `Timer::Compare`
places before it; `PutBack` inserts the repeating ones of the expired one by one. `CanStop` uses the set only through `hasTimer`,
which is what `SetIsExact` is about.

### HookIO

`pc[f]` follows a fiber through a hooked call: the system call, `addEvent`, the
wait, the retry. `inode[fd]` is the socket a number stands for at the moment, so
that a number that is used again is seen; `ctx[fd]` is `FdManager::m_datas`.
`armed` are the fibers whose timer is set. A timer may expire at any time
(`Expire`) and need never do so: that an expired timer is taken is the hypothesis
`TimersTaken` of the liveness properties, and `LaterTimerHelps` of `TimerProps` says
when it is so. Its callback becomes a member of `tasks`; some thread runs it later
(`RunTask`), when its call may be over: `live` is what `weak_ptr::lock` tells,
`canceled` is `timer_info::canceled`, shared by all waits of a call. Closing is
three steps, as in the code: the mark and `cancelAll`, the deletion of the `FdCtx`,
`close_f`. `addEvent` and `YieldToHold` are one step here, because what can
happen between them is in `Scheduler`.

### ByteArray, FlatBytes, Codecs

A position and a pointer to its node are separate variables, as in the code, where
loops move the one and the other. Cells are numbered through the chain; a byte is
written to "node pointer, offset of the position in a node", never to the position
itself, so a stale pointer has its effect. A null pointer that is followed sets
`crash`. `ImplementsFlat` maps the cells below `size` to `FlatBytes!data`.
`FlatBytes` says how far the code's weaknesses go. A reader that comes to the end of
the bytes may be `stuck` there: the null node is kept when the writer goes on. A call
that looks at a position behind the bytes is answered anything (`Stray`), because
`m_size - position` wraps in `size_t` where Bytearray.h:78 promises an exception.
`Break(pos)` is a null pointer that is followed, by a reader that is stuck or a call
that reads at or behind the end of the bytes, and by no other. `ReceiveFails` is a
`recv` that returns nothing, after the chain has grown for it.

### HttpClient

A piece of a stream names the request it answers, its place and the length of its
header, of which there are several (`HeadLens`), some longer than the buffer.
`ReadHead` and `ReadBody` take any number of pieces, `ReadFails` may happen at every
read. What came in one read with the end of the header (`early`) is copied to the
body from the front of the buffer, so the body begins with pieces of the header, as
in the code. A header that is not complete leaves the user with `torn` pieces, and
the next read begins two places behind them: it fails (`ReadTorn`), or it begins past
the buffer and its size wraps (`Overrun`), which sets `wild` and ends the model's
behaviour. A body is framed by a
length, by chunks, or by the end of the connection; `spoiled` marks connections
that carried one without a frame. The lists `invalid_conns` are the variable
`doomed`: they are deleted, and `m_total` is corrected, after the lock is released.
`owner` says whether somebody holds the pool itself, which users keep alive by
their connections.

### HttpServer, Servlets, HttpMessage

`recvRequest` and the loop of `handleClient`, with a stream that is cut anywhere, a
client that sends before it has the answer (`piped`) or leaves, a receive timeout
that comes at any time or never (`RecvTimesOut`), and `getServlet` in
its two locked reads (`match`, `glob`) with edits of the tables in between.
`HttpMessage` has the lazily parsed parameters and cookies as functions on a record
and keeps the decoding as the code has it: the misplaced parenthesis of Util.cc:215
means that an escape is never decoded, so `%XX` arrives as it was sent, and
`ParamsExact` says that.

### TcpServer, Addresses

A loop waits in the hooked `accept` (`waiting`) and gives its thread back; with
`threads` threads in the accept worker, at most so many loops and lambdas of `stop`
are between two waits. `closing` is the mark of the `FdCtx`, `listening` the state
of the system's socket, `valid` that `m_sockfd` is not -1 yet, which `Socket::close`
writes after the system call, so that two lambdas can close one number (`twice`).
A lambda that clears `m_socks` under the range-for of another one, or of `start`, has
an undefined effect: `wild` is set, and the model's behaviour ends. `accept` may fail
at any time (`AcceptFails`: EMFILE, a socket that was closed) or lose its client
(`AcceptDrops`). `late[t]` counts what a loop accepts after `m_isStop`.

### Config, Logs, LogPattern

`setValue` is split where it takes locks: compare under the read lock, take the
write lock, call one listener, assign. A listener may set a variable itself
(`ListenerSets`, from `MaySet`), so a loader is a call, a thread and its depth, and
the outer call `waits`; one that sets a variable of which its own thread holds the
write lock is `again` there, and the model's behaviour ends. One listener is made of several steps: the
one of "logs", whose `task` holds the names it has yet to define and to silence, the
logger it is at, the setter that comes next and the appenders it has yet to add; it
takes the names and the appenders in any order. `SetFormatter` keeps the old
formatter if the pattern has an error (`Faulty`). Root is a logger as the others,
which a definition may change or drop. A thread that logs reads the level without the
lock, then the appenders with it, and, if there are none, root's level and root's
appenders, with its own logger locked all the while (`Held`). `seen` is the history
of what a listener was told.

## Runs

| run | instance | what it shows |
|---|---|---|
| `SchedulerSingle` | one thread in the pool, two callbacks, each suspends up to twice | with one thread a fiber is never resumed before it has left its stack, so the whole life of a callback is covered: `ImplementsPool`, `HeldFiberNotReused`, and `EveryCallbackReturns` |
| `SchedulerPoolLive` | two threads and the caller's (`use_main`), no suspension | `EveryCallbackReturns`, although a wake-up can be late, and `StopReturns` |
| `SchedulerRace` | two threads, callbacks that suspend, one of them tied to a thread | to the end of every behaviour or the moment it becomes undefined: `CountersExact`, `StopIsClean`, `StartedOnce` |
| `IOEventsRace` | two threads in `Idle`, three waiters, both events of an fd beyond the 64 contexts of a new IOManager | the vector grows, the fd is closed and reused: `PendingExact`, `EventsExact`, `NoMissedEvent`, and `WaiterResumed` |
| `TimerRace` | a runner and a user, two timers, one-shot or repeated, intervals of 0 and 2, a clock that is set back once | `TimersExact`, `OneShotOnce`, `NoOversleep`, `LaterTimerHelps` |
| `HookIO` | two fibers, one number for up to two sockets, reads with a timeout, connects, sleeps, one change of flags or close behind the hooks' back | `CtxOfThisSocket`, `NeverBlocks`, `NothingLeftBehind`, `WaitsEnd` |
| `ByteArray` | nodes of two cells, up to two of them, two bytes, calls of up to three bytes; words of 8 bits | `NodesExact`, `ImplementsFlat`, `CodecsExact` |
| `HttpClient` | two users with two requests each, two connections with two requests each, headers that fit the buffer and that do not, the timer, the owner | `PoolExact`, `NothingOutlivesPool`, `ResponsesExact` |
| `HttpServer` | one client, up to three requests of three kinds, two paths, two patterns, three edits | `SessionsExact`, `AnsweredInOrder`, `Found`, `SessionEnds`, and `ParamsExact` |
| `TcpServer` | one or two sockets, one or two threads, two starts and stops, any number of clients, one of them waiting at a socket at a time | `SocketsExact`, `StopEnds`, `DoorAnswered`, and `AddressesExact` |
| `Logs` | two threads that load one file each, a listener of each variable that may set the other one, root and one more logger, a writer | `ListenersUpToDate`, `LoggersExact`, `Heard`, `LoadEnds`, and `PatternExact` |
| `TimeoutLost` | two fibers that read with a timeout | the one that is violated: `TimeoutHonoured`, see `findings` |

Several of these are conjunctions of named parts, which the property modules
explain one by one: `CountersExact`, `TimersExact`, `EventsExact`, `NodesExact`, `CodecsExact`,
`PoolExact`, `ResponsesExact`, `SessionsExact`, `ParamsExact`, `SocketsExact`,
`AddressesExact`, `LoggersExact`, `WaitsEnd`, `SessionEnds`. The type invariant of a module,
`TypeOK`, is the first part of one of them.

`TimeoutLost` is a disagreement between the code and its own comments: the waits of
one `do_io` share a `timer_info`, so the late callback of an earlier wait takes the
timeout away from a later one. `WaitsEnd` of run `HookIO` is what remains true. Both
are about timers that are taken when they have expired (`TimersTaken`), so this is
another disagreement than that of a lone timer below.

The models contain other weaknesses of the code, and the properties are stated so
that they hold in spite of them:

* `do_io` registers the fiber before it yields (Hook.cc:135-142), so another thread
  can resume it while it still runs; and `Run` writes HOLD into a fiber that another
  thread is running (Schedule1.cc:143-145). `Scheduler` stops there (`crash`), which
  is why `SchedulerSingle` and `SchedulerPoolLive` leave out one of "two threads"
  and "suspension", and `SchedulerRace` keeps both and promises less.
* With two threads a `cb_fiber` that lives on elsewhere is kept and reset
  (Schedule1.cc:128-132). `thread_id` is forgotten when a callback waits
  (IOManager.cc:38), and a task tied to a thread that has left `Run` is never run
  (Schedule1.cc:107).
* A task pushed between a thread's look at the list and `++m_idleThdCnt` notifies
  nobody (Schedule1.cc:103), nor does `Stop` (Schedule1.cc:174): the thread sleeps
  until `epoll_wait` times out, after at most a minute, which is why
  `EveryCallbackReturns` and `StopReturns` hold.
* `Idle` can trigger an event that is no longer registered, against the assertion in
  `triggerEvent` (IOManager.cc:344, 33); `addEvent` looks up the fd equal to the
  vector's size one past its end (IOManager.cc:84); a timer 2^31 ms away makes an
  infinite timeout (IOManager.cc:281).
* The extra `++it` in `listExpiredCb` (Timer.cc:141) takes the first timer that has
  not expired and, behind the last element, is undefined. In libstdc++ a timer that is
  alone in the set is then never taken: a sleep, a timed wait or a receive timeout
  that nothing else accompanies does not end. `LaterTimerHelps` is what is true
  (a later timer in the set lets all that have expired go), and `WaitsEnd` and
  `SilentSessionEnds` have the rest as a hypothesis.
* An event registered between `cancelAll` and `close_f` of a `close` stays behind
  (Hook.cc:355; `torn`).
* `ioctl(FIONBIO, 0)` makes hooked calls block (Hook.cc:462).
* Reading nothing at the end of the last node follows a null pointer
  (Bytearray.cc:118-125), and a reader that was there when the array grew is stuck. A
  look behind the end is not refused, as the difference wraps (Bytearray.cc:141, 505
  against Bytearray.h:78).
* What was read with the end of a response's header is replaced in the body by the
  first bytes of the header (HttpConnection.cc:130-136): `ResponsesExact` says so. A
  response header that comes in two reads leaves a gap of two places in the buffer
  and fails, or, one byte short of the buffer's end or right at it, makes the next
  read begin past the buffer with a size that wraps (HttpConnection.cc:93-96).
  `m_maxSize` of the pool is not used (HttpConnection.cc:246).
* Escapes are never decoded, against the comments at Util.cc:217 and 221
  (Util.cc:215 asks `isxdigit` about a truth value).
* What was read behind a request is dropped with the buffer (HttpSession.cc:85): a
  client that does not wait for its answers loses requests. A parameter that is
  deleted before anything was parsed comes back (Http.cc:114).
* Two lambdas of `stop` go through `m_socks` and clear it without a lock
  (Tcp_server.cc:106-110), and may close one number twice, the second time perhaps
  somebody else's (Socket.cc:276-278). `SocketsExact` ends at the first of these
  (`wild`) and excludes the second with one thread only.
* A loop leaves its thread only when `accept` finds nobody (Tcp_server.cc:72-83): one
  that always finds a client, an error (EMFILE), or, after a second `start`, a closed
  socket starves the others. `DoorAnswered` has `LoopsYield` as a hypothesis.
* IPv4's `networkAddress` keeps the host's bits and drops the network's, IPv6's does so
  in one byte, IPv4's `subnetMask` is 0 (Address.cc:430-450, 511-541, against
  Address.h:88-92). The prefixes 0 and 1 of IPv4 shift or overflow an int, 32 is
  refused, 128 of IPv6 writes past the address. `MasksExact` states what is computed
  for the others.
* A changed definition without a formatter, or with one that has an error, keeps the
  old one (Log.cc:518-521, 752), and of "%%" the second sign starts an item
  (Log.cc:236).
* An event that is handed to root while the listener redefines root, or after a
  definition of root is gone, is lost (Log.cc:511-512, 758-796; `configs/log.yaml`
  defines root). This, `RootSilenced`, is the one exception of `Heard`.
* A listener that sets a variable its own thread is setting, which the comment at
  Config.h:284-285 allows, gives the write lock away; listeners of two threads that set
  each other's variable wait for ever. These, `Reentered` and `Crossed`, are the
  exceptions of `LoadEnds`.

### Bounds

Two callbacks are enough for one to be queued, running or suspended while the other
is in any other place, and to push one from the other; two threads for one to be
inside every window of the other. Two events are all an fd has, and fds share nothing
but the vector and the counter. Two timers make every insertion first or not first,
and give `++it` a successor or not; the threshold of a rollover is 0 and the clock
is set back by one unit, so both sides of it occur. `MaxTime`, `MaxNext` and
`MaxSetBacks` bound the clock, the deadlines and how often it is set back;
`MaxWaits` bounds suspensions; `fired` is counted up to 2.

`HookIO`: one number is enough for the hazards of reuse, with `MaxOpens` = 2 sockets
for it; two fibers compete for its events or one closes under the other.
`MaxChanges` bounds calls that change the flags, which need to happen once to do
their harm. `MaxStale` bounds the callbacks a fiber may leave behind when a call
returns; it is 0 in both runs, so a fiber begins its next call when
the callbacks of the earlier ones have run, while a retry within a call may meet
one, which is where `timer_info` is shared.
`ByteArray`: with nodes of two cells every call of up to three bytes starts and ends
inside, at the end and across a node. `Codecs` takes its widths as constants: 8 bits
in groups of 3 give varints of one to three bytes, the last of which is not full,
as with 32 bits in groups of 7, and two bytes of 4 bits to be swapped.
`TimerRace`: an interval of 0 makes a timer that is due again at once, one of 2 makes
the later timer that `LaterTimerHelps` is about.
`HttpClient`: with a buffer of four pieces and a header of two, a body ends in, at and
behind the buffer; one of five pieces never fits, and is cut at, before and behind the
two places that are skipped. `HttpServer`: the kinds of requests are one with a body, one
without, and one that does not fit the buffer of three pieces.
`TcpServer`: two starts are needed for two lambdas of `stop`; a third would only
repeat the second. `MaxClients` = 1 bounds the clients that wait at one socket; as one
is accepted the next may come, so the supply never ends. `Addresses`: 4 bits of IPv4, two bytes of 3 bits of IPv6, all
prefixes. `HttpMessage` reads all texts of up to four characters over an alphabet
with every character the code treats differently, and runs all sequences of up to
five calls; `LogPattern` all patterns of up to three pieces. `Logs`: two files, one of which ends
with an entry that does not parse, over two variables in opposite orders; three
values of "logs", in which both loggers gain, change and lose a definition and one
formatter has an error. `Depth` = 2 is the number of variables: a third call in a row
would set one that is being set. Two hookings add a listener and delete it, or one of
each variable. `EventLevels` has the highest level only, as `Heard` speaks of no other.
Deadlock is checked where the system cannot stop; the other runs end because their
bounded inputs are used up.

### Fairness

`Scheduler`: each thread that runs `Run` keeps taking steps: no step of it can be
disabled for ever by others, `epoll_wait` has a timeout, and a mutex is held for a
few instructions. It includes the callbacks: they return, and a peer answers an
awaited event in the end. The owner finishes a `pushtask` or a join it has begun;
calling `Stop` is not assumed. `IOEvents`: pollers keep polling; peers and users of
fds are not assumed to do anything. `HookIO`: a fiber keeps running and a callback
that was pushed is run. That an armed timer expires is not assumed, for the code does
not see to it: it is the hypothesis `TimersTaken`, written in `WaitsEnd` and
`TimeoutHonoured` themselves. Under it a timed wait ends even if its event is never
delivered. `TimeoutHonoured` is refuted under `FairSpec`, where epoll delivers what is
ready as well. Peers and other fibers need not do anything. `HttpServer`: a session
keeps running; clients need not send, and the receive timeout that the server sets on
every client is not among the fair steps: a session ends if its client has left, and if
it is silent, under the hypothesis that the timeout comes. `TcpServer`: loops and the
lambdas of `stop` that can run do; a loop that is in the worker's list gets a thread if
threads become free again and again, as the list is a queue (strong fairness of
`RunLoop`); that they do become free is the hypothesis `LoopsYield`. Clients need not
come and nobody has to call `stop`. `Logs`: a thread goes on with its innermost call,
and a writer finishes the event it has begun, for it may hold a logger's lock; nobody
has to begin a load, log or add listeners. `ByteArray` and `HttpClient` state safety
only.

## Proofs

TLAPS checks the theorems of eight modules, for every value of the constants that
satisfies the assumption of the module in question (`ProcAssumption`,
`EventAssumption`, `TimerAssumption`, ...): any number of threads, fibers, fds,
timers, users and connections, nodes of any size. The assumptions say that the sets
are what they stand for (disjoint, finite where something is counted, not empty
where somebody has to run the code); `TimerAssumption` that there is a runner, as
`Scheduler` has at least one thread; `ConfigAssumption` and `LogsAssumption` that
files and listeners name variables and values of them, that "logs" defines nothing at
first, and that root is a logger; `ClientAssumption` leaves the lengths of headers, of
bodies and of the buffer to be any;
`WidthAssumption` that a word is whole bytes and a byte is a group of a varint and one
bit; `PatternAssumption` that `%`, `{` and `}` are no letters and that the names of
items are made of letters.
Some theorems add a hypothesis of their own, `OneRunner` of the `OneThread...` ones,
`MaxNext < IntHalf` of `NobodyOversleeps` and `LoudValues` of `FatalIsHeard`, which are
discussed below.

| theorem | states | by the inductive invariant |
|---|---|---|
| `SchedulerProof!TypeCorrect` | `[]TypeOK` | itself |
| `SchedulerProof!CountersAlwaysExact`, `StopClean` | `[]CountersExact`, `[]StopIsClean` | `DrainInv` |
| `SchedulerProof!CallbacksStartOnce` | `[]StartedOnce` | `OnceInv` |
| `SchedulerProof!OneThreadImplementsPool` | `ImplementsPool`, with one runner | the mapping, with `OneInv` |
| `SchedulerProof!OneThreadReusesNoHeldFiber`, `OneThreadNeverAborts` | `HeldFiberNotReused`, `[](crash = "no")`, with one runner | `OneInv` |
| `IOEventsProof!PendingIsExact`, `EventsAreExact`, `NoEventIsMissed` | `[]PendingExact`, `[]EventsExact`, `[]NoMissedEvent` | `EventsInv` |
| `TimerProof!TimersAreExact` | `[]TimersExact` | `TimerInv` |
| `TimerProof!OneShotsFireOnce` | `[]OneShotOnce` | `FiredInv` with `TimerInv` |
| `TimerProof!LaterTimersHelp` | `LaterTimerHelps` | `TimerInv` |
| `TimerProof!NobodyOversleeps` | `[]NoOversleep` | itself with `NotifyInv` and `TimerInv` |
| `HookProof!CtxIsOfItsSocket`, `CallsNeverBlock` | `[]CtxOfThisSocket`, `[]NeverBlocks` | `CtxInv` with `CallInv` |
| `HookProof!CallsLeaveNothing` | `[]NothingLeftBehind` | `WaitInv` with the two |
| `HttpClientProof!PoolIsExact`, `ThePoolTakesAllWithIt`, `ResponsesAreExact` | `[]PoolExact`, `[]NothingOutlivesPool`, `[]ResponsesExact` | `ClientInv` |
| `ByteArrayProof!NodesAreExact` | `[]NodesExact` | itself |
| `ByteArrayProof!ArrayImplementsFlat` | `ImplementsFlat` | the mapping, with `NodesExact` |
| `LogsProof!ListenersAreUpToDate` | `[]ListenersUpToDate` | itself with `LockInv` |
| `LogsProof!LoggersAreExact`, `FatalIsHeard` | `[]LoggersExact`, `Heard` | `LoggersInv`, `HeardInv` with the former |
| `HttpClientProof!KeepProperties`, `KeepRange`, `KeepOnce` | what `Keep` returns | induction on the list |
| `ServersProof!SessionsAreExact`, `AnswersAreInOrder`, `ServletsAreFound` | `[]SessionsExact`, `[]AnsweredInOrder`, `Found` | `HttpInv` |
| `ServersProof!SocketsAreExact` | `[]SocketsExact` | `ServerInv` |
| `ByteArrayProof!FixedBack`, `ZigzagBack`, `VarintBack`, `StringBack`, `StringVintBack` | what was written is read back: any value and width, whatever follows it | induction on the digits |
| `ByteArrayProof!CodecsAreExact` | `[]CodecsExact` | these five |
| `LogsProof!PatternCut`, `PatternTaken` | `Tokens` and `Format` of any sequence of pieces over any characters | induction from the last piece to the first |
| `LogsProof!PatternIsExact` | `[]PatternExact` | these two |
| `ServersProof!ParseReads`, `CallsKeep` | the parameters found in any text; what any sequence of calls leaves | induction from the end of the text; on the calls |
| `ServersProof!ParamsAreExact` | `[]ParamsExact` | these two |
| `ServersProof!BracketsTakenApart`, `HostTaken`, `OrderExact`, `OrderTransitive` | hosts of any characters; a total order of addresses of any length | the first place of a sign, or that differs |
| `ServersProof!AddressesAreExact` | `[]AddressesExact` | these four, and lemmas on masks and their bytes |

Why the properties alone are not enough, and what is added:

* `DrainInv` of `SchedulerProps` adds to `CountersExact` three parts. `OnStackInv`: a
  thread is on a fiber's stack exactly while its `pc` is in the code that runs
  there. `LockInv`: an `FdContext` is locked by the one thread that is triggering its
  event. `LeaveInv`: a thread that has left `Run` has seen `m_enable_stop`; if all
  have left, the list is empty; if all have left or are at the second half of
  `CanStop`, no event is awaited. `LeaveInv` is why a `CanStop` without a common lock
  suffices. It may hold for a thread while others still work; but whoever works has
  to ask again itself: the last thread to leave finds the list empty, and nobody is
  left who could fill it. The claim is about the last thread: another one may well
  leave too early, with a task that is tied to it still in the list.
* `OnceInv`: a callback that has not started is in one place only, the list or the
  hands of one thread, and a fiber that is free has none.
* `OneInv` says where each fiber and each callback is when `OneRunner` holds: there
  is one worker, or the owner is the only one who runs tasks; the number of callbacks
  and of waits is arbitrary. A held fiber keeps one callback that has
  begun, and is awaited by one event or resumed by one task; a `cb_fiber` that `Run`
  keeps is fresh unless it is in use; every callback handed over is done, on the stack,
  awaited or in the work to be done. `Stage` reads the state of a callback in the pool
  off this, and every step changes it for one callback at most, as one action of
  `JobPool` does. The hypothesis is needed: two threads may have one fiber on both
  stacks (see "Runs").
* `EventsInv` relates every fd's mask, its waiters, what epoll was asked for and its
  ready list, each batch, and what each waiter believes of itself (`HeldWait`, `HeldOnce`):
  a waiter is registered for one event of one fd or for none.
* `TimerInv`: a timer is in the set if and only if it has a callback and no `addTimer`
  is about to insert it; a timer that `addTimer` works on is known to nobody else and
  worked on by one thread. The last part is what `refresh` and `reset` rely on: they
  check a timer before they lock, and only `known` keeps them from inserting it
  twice. That `insert` keeps the order, that `erase` finds its element, and that
  putting back the repeating ones one by one does, are the lemmas about sequences the
  module begins with.
* `FiredInv`: whoever was handed over has no callback any more.
* `NotifyInv`: while `m_notify` is set a thread has been told, is about to be told, or
  is neither asleep nor about to read the deadline. `m_notify` alone would not do:
  `getNextTimer` clears it before it reads the deadline. `MaxNext < IntHalf` says that
  deadlines are less than 2^31 ms away; without it the narrowing at
  IOManager.cc:281 makes a timeout negative, and the statement is false.
* `CallInv`, `CtxInv`: who is making or closing a socket with a number, and that at
  most one fiber does so in a way that touches its `FdCtx`. `WaitInv`: for each fiber
  that waits, where the one thing that will resume it is.
* `LaterTimerHelps` is about one step, `listExpiredCb`: `TimerInv` says that the set is
  ordered, so that a timer that is not due stands behind all that are, and the extra
  increment ends at it or before it.
* `ClientInv`: where each connection is (idle, held by one user, doomed by one user or
  by the timer, or nowhere), and how far its stream, its buffer and its user have got:
  the body so far and the rest of the stream are together `BodyMade`, the server's body
  with its first `early` pieces replaced by those of the header.
* `NodesExact` is inductive; `ImplementsFlat` needs it at every step, as only with
  pointers that agree with the positions is the written cell the one `FlatBytes`
  writes, and only then is a null pointer met nowhere but where `Break` allows it.
* `LockInv` of `LogsProof`: the write lock of a variable is held by the call that is
  calling its listeners, and those it has yet to call are still listeners. `NestInv`: a
  call that a listener makes is over before the listener returns, so the calls of a
  thread are a stack. `setValue`
  compares under the read lock and does not compare again; nothing relies on the
  comparison, so the invariant does not mention it.
* `LoggersInv`: a logger follows the definition the listener was told of last, unless
  its name is in one of the two lists of the listener's `task` or the listener is at
  it; then it has what the setters before the next one do. This is why the
  difference of two values is enough: a name in neither list had the same
  definition before. `Follows` asks for the formatter of a definition only if it names
  one without an error, as `SetFormatter` refuses the others. `HeardInv` adds that every
  logger but root has root behind it; root takes what is handed to it unless the listener
  is about to redefine it or has silenced it, which `LoggersInv` knows of root as of any
  other logger.
  `LoudValues` says that no appender of a definition is above FATAL; one without a
  level, of a logger without one, is, and refuses everything.
* `HttpInv`: a piece in a client's stream has the rest of its request behind it and
  later requests behind that (`StreamOf`); what a session has in its buffer and what
  is left in the stream fit together (`RecvInv`, `BodyInv`, with `RestOf`); and every
  request that was answered comes before all that is left (`OrderInv`). What is read
  together with a request is dropped, so the stream may go on in the middle of a later
  one: `StreamOf` allows for it, and the parser refuses it, as its first piece is not
  the first of a request. `GlobInv`: what `stable` names is still registered, and is
  not a servlet for exactly the path; this gives the action property `Found`.
* `ServerInv`: while nothing is `wild`, the sockets before the index of a lambda of
  `stop` are closed, by whomever, and every lambda that is done has emptied `m_socks`. With one thread at most
  one loop or lambda is in the middle of something (`Alone`), and a loop that waits
  does so on a socket that listens; this is why no loop is left waiting for a socket
  that was closed. With more threads a loop may ask for the event between `cancelAll`
  and `close`, and `NobodyWaitsForClosed` does not claim it. `OnceInv` of `ServersProof`, for one thread
  too: a socket is `valid` and closed only while the lambda that closed it is about to
  write its `m_sockfd`.
* The functions without state are recursive functions, and a theorem about all their
  inputs is an induction over a set of natural numbers: `InductionOnSet` says that a
  set with 0 and every successor is all of them, which needs no operator as a parameter.
  Before it, a lemma `...Def` shows that a function with the equation of the definition
  exists (`VarintDef`, `ParseParamDef`, `TokensDef`), by building it on ever longer
  intervals; otherwise nothing could be said of the one that `CHOOSE` picks.
* `CutAt` of `LogsProof`: `Tokens` goes through a pattern from the left, and what it
  makes of a place depends on nothing before it. So the claim is about the place where
  a piece begins, and the induction goes from the last piece to the first. `Separate`
  is needed: text behind an item without a format would be more of its name, or a format.
* `ParseReads` goes the same way, from the end of the text: the map of the rest comes
  first, and what is in front of it wins, as `std::map::insert` keeps what it has.
* `VarintBack` compares a number with powers of two by the function `TwoTo`, so that
  what is proved of one group holds for each; that a value fits the last, partial group
  is where the widths come in. `ZigzagBack` has the least number of the width as a case of
  its own, as its opposite wraps.
* `OrderExact` and `OrderTransitive` rest on `LessIsLexical`: `operator<` compares up to
  the shorter length and then the lengths, which is the order of the first place that
  differs.

What the attempts found. The history variable `around` of `HookIO` was cleared too
early in `CloseSys`, when another fiber was still making or closing a socket with the
same number; `CallsNeverBlock` could not be proved, and TLC found the behaviour with
three sockets. `NothingLeftBehind` is meant for a process that has not crashed and now
says so. `Insert` and `PutBack` of `TimerManager` and `Keep` of `Lists` are defined by
recursive functions or cardinalities, and so are `Number`, `Insert` of `HttpMessage`,
`Gathered`, `Called` and `Written`: nothing can be proved about the library's folds for
every operator they are given, and the provers know nothing of `2^n`, or of `:>` and `@@`
of module TLC.

Only model-checked is liveness (`EveryCallbackReturns`, `StopReturns`, `WaiterResumed`,
`WaitsEnd`, `SessionEnds`, `DoorAnswered`, `StopEnds`, `LoadEnds`), which this prover
cannot handle: it has no rules for fairness and `ENABLED`. Every other property of a
passing run is stated by a theorem.

## Not modelled

* `Http/Uri.cc`: 10892 lines that Ragel generates from `Uri.rl`, half of the
  implementation by lines. They are tables and jumps of a state machine for the
  grammar of RFC 3986; a model would repeat the grammar. This is why the map covers
  only a small part of the repository's lines.
* `Http/picohttpparser.c`: vendored. The modules use what its callers rely on: it
  accepts a complete header, refuses a bad one and waits for the rest of a short one.
* Thread, Mutex, Singleton: wrappers of pthread objects, built into the atomic steps.
* Socket options, names of peers, Unix addresses, `getaddrinfo`, files and file
  appenders, dates, the command line, backtraces: input, output and text.
* `Scheduler::Start`, a second `Stop`, pushing a fiber that is queued already.
* Data races on a `std::string` or a `std::set` (`ConfigVar::getValue`): there is no
  useful set of outcomes to choose from.
* A listener that throws (Config.h:305): the listeners after it are not told and the
  value stays, so the next value may be compared with one that some listeners do not
  know. No listener of the repository throws.
* Two concurrent `close` calls of one number: `HookIO` begins the second when the first
  is over.

## Plan

Done: `Scheduler` with its refinement and first theorems, `TimerManager`,
`IOEvents`; `HookIO`, `ByteArray`, `HttpClient`, `HttpServer`, `TcpServer`, `Config`
and `Logs` with their pure functions.

The invariants, the action properties and the two refinements are proved, and so are the
properties of the pure functions. Left are what "Not modelled" lists and three hazards
without a property: the lookup one past the vector's end (IOManager.cc:84), at which
`IOEvents` stops, a listener that throws (Config.h:305), and the race on a value in
`getValue` (Config.h:271).
