------------------------------ MODULE Scheduler ------------------------------
(***************************************************************************)
(* The N:M coroutine scheduler: Scheduler (Schedule1.cc, Schedule1.h), the *)
(* fibers it switches to (Fiber1.cc), and the part of IOManager            *)
(* (IOManager.cc) that a worker runs: Notify, CanStop, Idle, and the       *)
(* registration and triggering of one READ event per callback.             *)
(*                                                                         *)
(* Every runner (a pool thread, and the main thread when use_main) has a   *)
(* pc; a step of the model is the code between two points where another    *)
(* thread can observe or change shared state.  A fiber object is named     *)
(* after the callback it was first created for.  Callbacks are abstracted  *)
(* to what the scheduler sees of them: they hand other callbacks to        *)
(* pushtask, suspend at most MaxWaits times in the way do_io does          *)
(* (addEvent, then YieldToHold), and return.  Timers are in module Timer.  *)
(***************************************************************************)
EXTENDS Integers, Sequences, FiniteSets, SequencesExt

CONSTANTS
    Jobs,      \* callbacks handed to pushtask, each at most once
    Workers,   \* the threads Start() creates
    Main,      \* the thread that owns the scheduler (m_rootThreadId)
    UseMain,   \* the use_main constructor argument
    MaxWaits,  \* how often one callback suspends (bound)
    PinOf,     \* the thread_id argument of pushtask, for each callback
    AnyThread, \* thread_id = -1
    None,      \* a null pointer, or an unowned mutex
    Efd        \* m_eventfd_notify, as a member of epoll's ready list

\* The threads that execute Scheduler::Run.
Runners == Workers \cup (IF UseMain THEN {Main} ELSE {})
Procs   == Workers \cup {Main}

ASSUME ProcAssumption ==
    /\ Main \notin Workers /\ None \notin Procs
    /\ UseMain \in BOOLEAN /\ IsFiniteSet(Workers)
    /\ Runners # {}  \* somebody executes Run
ASSUME JobAssumption ==
    /\ None \notin Jobs /\ Efd \notin Jobs /\ IsFiniteSet(Jobs)
    /\ MaxWaits \in Nat
ASSUME PinAssumption ==
    /\ AnyThread \notin Procs
    /\ PinOf \in [Jobs -> Runners \cup {AnyThread}]

VARIABLES
    pc,         \* where each thread is
    tasks,      \* m_tasks
    cur,        \* the local variable task of Run
    cbFiber,    \* the local variable cb_fiber of Run
    exec,       \* the fiber whose stack the thread is on, and its callback
    fstate,     \* Fiber::m_state
    ctx,        \* Fiber::m_ctx: what swapping into it would resume
    active,     \* m_activeThdCnt
    idle,       \* m_idleThdCnt
    enableStop, \* m_enable_stop
    reg,        \* read_event.fiber of the FdContext callback j waits on
    fdLock,     \* owner of FdContext::mtx
    pending,    \* m_pendingCnt
    ready,      \* epoll's ready list
    efdCnt,     \* the counter of m_eventfd_notify is not zero
    evs,        \* the events epoll_wait returned that Idle has yet to handle
    left,       \* how often the callback may still suspend
    submitted,  \* callbacks already handed to pushtask
    done,       \* callbacks that returned
    crash       \* "no", or why the process aborted

fiberVars == <<exec, fstate, ctx>>
ioVars    == <<reg, fdLock, pending, ready, efdCnt, evs>>
jobVars   == <<left, submitted, done>>
vars == <<pc, tasks, cur, cbFiber, exec, fstate, ctx, active, idle, enableStop,
          reg, fdLock, pending, ready, efdCnt, evs, left, submitted, done,
          crash>>

CbTask(j)    == [kind |-> "cb", id |-> j, pin |-> PinOf[j]]
FiberTask(f) == [kind |-> "fiber", id |-> f, pin |-> AnyThread]
NoTask       == [kind |-> "none", id |-> None, pin |-> AnyThread]
Task == [kind : {"cb", "fiber"}, id : Jobs, pin : Runners \cup {AnyThread}]

\* What a saved context resumes: the entry of callback job, the return from
\* YieldToHold inside it, or the code after the last SwapOut of ContextFunc.
Context == [at : {"entry", "yield", "exit"}, job : Jobs \cup {None}]
OffCpu  == [fiber |-> None, job |-> None]

OnCpu(f) == \E q \in Procs : exec[q].fiber = f

Init ==
    /\ pc = [p \in Procs |-> IF p = Main THEN "main" ELSE "take"]
    /\ tasks = <<>>
    /\ cur = [p \in Procs |-> NoTask]
    /\ cbFiber = [p \in Procs |-> None]
    /\ exec = [p \in Procs |-> OffCpu]
    /\ fstate = [f \in Jobs |-> "INIT"]
    /\ ctx = [f \in Jobs |-> [at |-> "entry", job |-> None]]
    /\ active = 0 /\ idle = 0 /\ enableStop = FALSE
    /\ reg = [j \in Jobs |-> None]
    /\ fdLock = [j \in Jobs |-> None]
    /\ pending = 0 /\ ready = {} /\ efdCnt = FALSE
    /\ evs = [p \in Procs |-> {}]
    /\ left = [j \in Jobs |-> MaxWaits]
    /\ submitted = {} /\ done = {} /\ crash = "no"

At(p, l)      == crash = "no" /\ pc[p] = l
Goto(p, l)    == pc' = [pc EXCEPT ![p] = l]
Abort(reason) == crash' = reason

-----------------------------------------------------------------------------
\* IOManager::Notify.  A write to the edge-triggered eventfd puts it on the
\* ready list; nothing is written while no thread is counted idle.
Notify ==
    IF idle > 0
    THEN ready' = ready \cup {Efd} /\ efdCnt' = TRUE
    ELSE UNCHANGED <<ready, efdCnt>>

\* The critical section of pushtask: the task is appended under m_mutex.
Push(task) == tasks' = Append(tasks, task)

-----------------------------------------------------------------------------
\* The owner: pushtask from outside, then Stop.

MainPush(j) ==
    /\ At(Main, "main") /\ j \notin submitted
    /\ Push(CbTask(j)) /\ submitted' = submitted \cup {j}
    /\ Goto(Main, "mainNotify")
    /\ UNCHANGED <<cur, cbFiber, fiberVars, active, idle, enableStop, ioVars,
                   left, done, crash>>

\* pushtask calls Notify after it has released m_mutex.
MainNotify ==
    /\ At(Main, "mainNotify")
    /\ Notify /\ Goto(Main, "main")
    /\ UNCHANGED <<tasks, cur, cbFiber, fiberVars, active, idle, enableStop,
                   reg, fdLock, pending, evs, jobVars, crash>>

\* Stop() up to the joins: with use_main the owner first runs Run itself.
\* Nothing is written to the eventfd here.
Stop ==
    /\ At(Main, "main")
    /\ enableStop' = TRUE
    /\ Goto(Main, IF UseMain THEN "take" ELSE "join")
    /\ UNCHANGED <<tasks, cur, cbFiber, fiberVars, active, idle, ioVars,
                   jobVars, crash>>

Join ==
    /\ At(Main, "join")
    /\ \A w \in Workers : pc[w] = "exited"
    /\ Goto(Main, "stopped")
    /\ UNCHANGED <<tasks, cur, cbFiber, fiberVars, active, idle, enableStop,
                   ioVars, jobVars, crash>>

-----------------------------------------------------------------------------
\* Run: taking a task.

Eligible(p, task) == task.pin \in {AnyThread, p}
Takeable(p) == {i \in DOMAIN tasks : Eligible(p, tasks[i])}

\* Mutant of Take: the task is copied out of the list, but not erased.
TakeWithoutErase(p) ==
    /\ At(p, "take")
    /\ \/ /\ Takeable(p) = {}
          /\ Goto(p, IF tasks = <<>> THEN "goIdle" ELSE "notify")
          /\ UNCHANGED cur
       \/ \E i \in Takeable(p) :
          /\ \A k \in Takeable(p) : i <= k
          /\ cur' = [cur EXCEPT ![p] = tasks[i]]
          /\ Goto(p, "notify")
    /\ UNCHANGED <<tasks, cbFiber, fiberVars, active, idle, enableStop,
                   ioVars, jobVars, crash>>

\* Mutant of Take: the list is swapped out as a whole.
TakeWholeList(p) ==
    /\ At(p, "take")
    /\ \/ /\ Takeable(p) = {}
          /\ Goto(p, "goIdle")
          /\ UNCHANGED cur
       \/ \E i \in Takeable(p) :
          /\ \A k \in Takeable(p) : i <= k
          /\ cur' = [cur EXCEPT ![p] = tasks[i]]
          /\ Goto(p, "dispatch")
    /\ tasks' = <<>>
    /\ UNCHANGED <<cbFiber, fiberVars, active, idle, enableStop, ioVars,
                   jobVars, crash>>

\* The first task this thread may run is moved out of the list; others have
\* to be notified if it passed over a task or left one behind.
Take(p) ==
    /\ At(p, "take")
    /\ \/ /\ Takeable(p) = {}
          /\ Goto(p, IF tasks = <<>> THEN "goIdle" ELSE "notify")
          /\ UNCHANGED <<tasks, cur>>
       \/ \E i \in Takeable(p) :
          /\ \A k \in Takeable(p) : i <= k
          /\ cur' = [cur EXCEPT ![p] = tasks[i]]
          /\ tasks' = RemoveAt(tasks, i)
          /\ Goto(p, IF Len(tasks) = 1 THEN "dispatch" ELSE "notify")
    /\ UNCHANGED <<cbFiber, fiberVars, active, idle, enableStop, ioVars,
                   jobVars, crash>>

RunNotify(p) ==
    /\ At(p, "notify")
    /\ Notify
    /\ Goto(p, IF cur[p] = NoTask THEN "goIdle" ELSE "dispatch")
    /\ UNCHANGED <<tasks, cur, cbFiber, fiberVars, active, idle, enableStop,
                   reg, fdLock, pending, evs, jobVars, crash>>

\* Fiber::SwapIn of f, whose context is c.  The context of a fiber that is
\* still on some thread's stack is stale: two threads would run on one stack.
SwapIn(p, f, c) ==
    IF OnCpu(f) THEN Abort("shared stack") /\ UNCHANGED exec
    ELSE IF c.at = "exit" THEN Abort("never reach") /\ UNCHANGED exec
    ELSE /\ exec' = [exec EXCEPT ![p] = [fiber |-> f, job |-> c.job]]
         /\ UNCHANGED crash

\* A callback runs in this thread's cb_fiber, created or Reset for it.
DispatchCb(p) ==
    /\ At(p, "dispatch") /\ cur[p].kind = "cb"
    /\ LET j == cur[p].id
           f == IF cbFiber[p] = None THEN j ELSE cbFiber[p]
           c == [at |-> "entry", job |-> j]
       IN  /\ cbFiber' = [cbFiber EXCEPT ![p] = f]
           /\ ctx' = [ctx EXCEPT ![f] = c]
           /\ fstate' = [fstate EXCEPT ![f] = "RUNNING"]
           /\ SwapIn(p, f, c)
    /\ active' = active + 1
    /\ Goto(p, "job")
    /\ UNCHANGED <<tasks, cur, idle, enableStop, ioVars, jobVars>>

\* Mutant of DispatchFiber: ++m_activeThdCnt is forgotten.
DispatchFiberUncounted(p) ==
    /\ At(p, "dispatch") /\ cur[p].kind = "fiber"
    /\ fstate' = [fstate EXCEPT ![cur[p].id] = "RUNNING"]
    /\ SwapIn(p, cur[p].id, ctx[cur[p].id])
    /\ Goto(p, "job")
    /\ UNCHANGED <<tasks, cur, cbFiber, ctx, active, idle, enableStop, ioVars,
                   jobVars>>

\* A fiber that has terminated is dropped, any other is resumed.
DispatchFiber(p) ==
    /\ At(p, "dispatch") /\ cur[p].kind = "fiber"
    /\ LET f == cur[p].id IN
       IF fstate[f] = "TERM"
       THEN /\ cur' = [cur EXCEPT ![p] = NoTask]
            /\ Goto(p, "take")
            /\ UNCHANGED <<exec, fstate, active, crash>>
       ELSE /\ fstate' = [fstate EXCEPT ![f] = "RUNNING"]
            /\ SwapIn(p, f, ctx[f])
            /\ active' = active + 1
            /\ Goto(p, "job")
            /\ UNCHANGED cur
    /\ UNCHANGED <<tasks, cbFiber, ctx, idle, enableStop, ioVars, jobVars>>

-----------------------------------------------------------------------------
\* What a callback does while it runs in fiber exec[p].fiber.

\* IOManager::addEvent for the running fiber, as do_io calls it: the fiber
\* can be triggered as soon as the FdContext's mutex is released.
AddEvent(p) ==
    LET f == exec[p].fiber
        j == exec[p].job
    IN  /\ At(p, "job") /\ j # None
        /\ left[j] > 0 /\ fdLock[j] = None /\ reg[j] = None
        /\ left' = [left EXCEPT ![j] = @ - 1]
        /\ pending' = pending + 1
        /\ reg' = [reg EXCEPT ![j] = f]
        /\ IF fstate[f] = "RUNNING" THEN UNCHANGED crash
                                     ELSE Abort("addEvent: state")
        /\ Goto(p, "yield")
        /\ UNCHANGED <<tasks, cur, cbFiber, fiberVars, active, idle,
                       enableStop, fdLock, ready, efdCnt, evs, submitted,
                       done>>

\* Fiber::YieldToHold; SwapOut saves the context and leaves the stack.
YieldToHold(p) ==
    LET f == exec[p].fiber IN
    /\ At(p, "yield")
    /\ IF fstate[f] \in {"RUNNING", "HOLD"} THEN UNCHANGED crash
                                             ELSE Abort("yield: state")
    /\ fstate' = [fstate EXCEPT ![f] = "HOLD"]
    /\ ctx' = [ctx EXCEPT ![f] = [at |-> "yield", job |-> exec[p].job]]
    /\ exec' = [exec EXCEPT ![p] = OffCpu]
    /\ Goto(p, "after")
    /\ UNCHANGED <<tasks, cur, cbFiber, active, idle, enableStop, ioVars,
                   jobVars>>

\* The callback returns: ContextFunc clears m_cb and sets TERM ...
Return(p) ==
    LET f == exec[p].fiber
        j == exec[p].job
    IN  /\ At(p, "job")
        /\ fstate' = [fstate EXCEPT ![f] = "TERM"]
        /\ done' = done \cup ({j} \ {None})
        /\ Goto(p, "term")
        /\ UNCHANGED <<tasks, cur, cbFiber, exec, ctx, active, idle,
                       enableStop, ioVars, left, submitted, crash>>

\* ... and only then swaps out, still on the fiber's stack until here.
TermSwapOut(p) ==
    LET f == exec[p].fiber IN
    /\ At(p, "term")
    /\ ctx' = [ctx EXCEPT ![f] = [at |-> "exit", job |-> None]]
    /\ exec' = [exec EXCEPT ![p] = OffCpu]
    /\ Goto(p, "after")
    /\ UNCHANGED <<tasks, cur, cbFiber, fstate, active, idle, enableStop,
                   ioVars, jobVars, crash>>

\* A running callback hands another one to pushtask.
JobPush(p, k) ==
    /\ At(p, "job") /\ k \notin submitted
    /\ Push(CbTask(k)) /\ submitted' = submitted \cup {k}
    /\ Goto(p, "jobNotify")
    /\ UNCHANGED <<cur, cbFiber, fiberVars, active, idle, enableStop, ioVars,
                   left, done, crash>>

JobNotify(p) ==
    /\ At(p, "jobNotify")
    /\ Notify /\ Goto(p, "job")
    /\ UNCHANGED <<tasks, cur, cbFiber, fiberVars, active, idle, enableStop,
                   reg, fdLock, pending, evs, jobVars, crash>>

-----------------------------------------------------------------------------
\* Run: back from the fiber.

\* Mutant of AfterSwapIn: --m_activeThdCnt is forgotten.
AfterSwapInUncounted(p) ==
    /\ At(p, "after")
    /\ Goto(p, "check")
    /\ UNCHANGED <<tasks, cur, cbFiber, fiberVars, active, idle, enableStop,
                   ioVars, jobVars, crash>>

AfterSwapIn(p) ==
    /\ At(p, "after")
    /\ active' = active - 1
    /\ Goto(p, "check")
    /\ UNCHANGED <<tasks, cur, cbFiber, fiberVars, idle, enableStop, ioVars,
                   jobVars, crash>>

\* Mutant of CheckCb: a cb_fiber on hold stays the thread's cb_fiber.
CheckCbKeepsHeld(p) ==
    /\ At(p, "check") /\ cur[p].kind = "cb"
    /\ cur' = [cur EXCEPT ![p] = NoTask]
    /\ Goto(p, "take")
    /\ UNCHANGED <<tasks, cbFiber, fiberVars, active, idle, enableStop,
                   ioVars, jobVars, crash>>

\* A terminated cb_fiber is Reset for reuse, one on hold is let go; in any
\* other state it stays this thread's cb_fiber.
CheckCb(p) ==
    LET f == cbFiber[p] IN
    /\ At(p, "check") /\ cur[p].kind = "cb"
    /\ \/ /\ fstate[f] = "TERM"
          /\ fstate' = [fstate EXCEPT ![f] = "INIT"]
          /\ ctx' = [ctx EXCEPT ![f] = [at |-> "entry", job |-> None]]
          /\ UNCHANGED cbFiber
       \/ /\ fstate[f] = "HOLD"
          /\ cbFiber' = [cbFiber EXCEPT ![p] = None]
          /\ UNCHANGED <<fstate, ctx>>
       \/ /\ fstate[f] \notin {"TERM", "HOLD"}
          /\ UNCHANGED <<cbFiber, fstate, ctx>>
    /\ cur' = [cur EXCEPT ![p] = NoTask]
    /\ Goto(p, "take")
    /\ UNCHANGED <<tasks, exec, active, idle, enableStop, ioVars, jobVars,
                   crash>>

\* The state of a resumed fiber is read ...
CheckFiber(p) ==
    /\ At(p, "check") /\ cur[p].kind = "fiber"
    /\ IF fstate[cur[p].id] = "TERM"
       THEN Goto(p, "take") /\ cur' = [cur EXCEPT ![p] = NoTask]
       ELSE Goto(p, "setHold") /\ UNCHANGED cur
    /\ UNCHANGED <<tasks, cbFiber, fiberVars, active, idle, enableStop,
                   ioVars, jobVars, crash>>

\* ... and then overwritten, without a lock.
SetHold(p) ==
    /\ At(p, "setHold")
    /\ fstate' = [fstate EXCEPT ![cur[p].id] = "HOLD"]
    /\ cur' = [cur EXCEPT ![p] = NoTask]
    /\ Goto(p, "take")
    /\ UNCHANGED <<tasks, cbFiber, exec, ctx, active, idle, enableStop,
                   ioVars, jobVars, crash>>

-----------------------------------------------------------------------------
\* IOManager::Idle, run in this thread's idle_fiber.

GoIdle(p) ==
    /\ At(p, "goIdle")
    /\ idle' = idle + 1
    /\ Goto(p, "idleStop")
    /\ UNCHANGED <<tasks, cur, cbFiber, fiberVars, active, enableStop, ioVars,
                   jobVars, crash>>

\* Mutant of ReadPending: awaited events do not keep the thread alive.
IgnorePending(p, from, yes, no) ==
    /\ At(p, from)
    /\ Goto(p, yes)
    /\ UNCHANGED <<tasks, cur, cbFiber, fiberVars, active, idle, enableStop,
                   ioVars, jobVars, crash>>

\* CanStop reads m_pendingCnt first and, if it is 0, asks Scheduler::CanStop.
ReadPending(p, from, yes, no) ==
    /\ At(p, from)
    /\ Goto(p, IF pending = 0 THEN yes ELSE no)
    /\ UNCHANGED <<tasks, cur, cbFiber, fiberVars, active, idle, enableStop,
                   ioVars, jobVars, crash>>

\* Mutant of SchedulerCanStop: queued tasks are overlooked.
CanStopIgnoringTasks == enableStop /\ active = 0

SchedulerCanStop == enableStop /\ tasks = <<>> /\ active = 0

ReadScheduler(p, from, yes, no) ==
    /\ At(p, from)
    /\ Goto(p, IF SchedulerCanStop THEN yes ELSE no)
    /\ UNCHANGED <<tasks, cur, cbFiber, fiberVars, active, idle, enableStop,
                   ioVars, jobVars, crash>>

\* Idle breaks out of its loop when it can stop, or waits in epoll_wait.
IdleCanStop(p) ==
    \/ ReadPending(p, "idleStop", "idleStop2", "wait")
    \/ ReadScheduler(p, "idleStop2", "idleBack", "wait")

\* epoll_wait returns the whole ready list, or nothing after its timeout of at
\* most MAX_TIMEOUT.  The eventfd is left out if its counter was drained.
EpollWait(p) ==
    /\ At(p, "wait")
    /\ evs' = [evs EXCEPT ![p] = IF efdCnt THEN ready ELSE ready \ {Efd}]
    /\ ready' = {}
    /\ Goto(p, "events")
    /\ UNCHANGED <<tasks, cur, cbFiber, fiberVars, active, idle, enableStop,
                   reg, fdLock, pending, efdCnt, jobVars, crash>>

DrainEventfd(p) ==
    /\ At(p, "events") /\ Efd \in evs[p]
    /\ evs' = [evs EXCEPT ![p] = @ \ {Efd}]
    /\ efdCnt' = FALSE
    /\ UNCHANGED <<pc, tasks, cur, cbFiber, fiberVars, active, idle,
                   enableStop, reg, fdLock, pending, ready, jobVars, crash>>

\* An event nobody waits for any more is passed over.
SkipEvent(p, j) ==
    /\ At(p, "events") /\ j \in evs[p]
    /\ fdLock[j] = None /\ reg[j] = None
    /\ evs' = [evs EXCEPT ![p] = @ \ {j}]
    /\ UNCHANGED <<pc, tasks, cur, cbFiber, fiberVars, active, idle,
                   enableStop, reg, fdLock, pending, ready, efdCnt, jobVars,
                   crash>>

\* Mutants of TriggerEvent: it does not check that the event is awaited; the
\* fiber is dropped instead of being handed to pushtask.
TriggerUnchecked(p, j) ==
    /\ At(p, "events") /\ j \in evs[p] /\ fdLock[j] = None
    /\ Push(FiberTask(reg[j]))
    /\ reg' = [reg EXCEPT ![j] = None]
    /\ fdLock' = [fdLock EXCEPT ![j] = p]
    /\ ready' = ready \ {j}
    /\ evs' = [evs EXCEPT ![p] = @ \ {j}]
    /\ Goto(p, "evNotify")
    /\ UNCHANGED <<cur, cbFiber, fiberVars, active, idle, enableStop, pending,
                   efdCnt, jobVars, crash>>
TriggerWithoutPush(p, j) ==
    /\ At(p, "events") /\ j \in evs[p]
    /\ fdLock[j] = None /\ reg[j] # None
    /\ reg' = [reg EXCEPT ![j] = None]
    /\ fdLock' = [fdLock EXCEPT ![j] = p]
    /\ ready' = ready \ {j}
    /\ evs' = [evs EXCEPT ![p] = @ \ {j}]
    /\ Goto(p, "evNotify")
    /\ UNCHANGED <<tasks, cur, cbFiber, fiberVars, active, idle, enableStop,
                   pending, efdCnt, jobVars, crash>>

\* FdContext::triggerEvent: the waiting fiber goes to the task list, the fd
\* leaves epoll; FdContext::mtx stays held until m_pendingCnt is decremented.
TriggerEvent(p, j) ==
    /\ At(p, "events") /\ j \in evs[p]
    /\ fdLock[j] = None /\ reg[j] # None
    /\ Push(FiberTask(reg[j]))
    /\ reg' = [reg EXCEPT ![j] = None]
    /\ fdLock' = [fdLock EXCEPT ![j] = p]
    /\ ready' = ready \ {j}
    /\ evs' = [evs EXCEPT ![p] = @ \ {j}]
    /\ Goto(p, "evNotify")
    /\ UNCHANGED <<cur, cbFiber, fiberVars, active, idle, enableStop, pending,
                   efdCnt, jobVars, crash>>

\* The Notify of that pushtask, then --m_pendingCnt and the unlock.
EventNotify(p) ==
    /\ At(p, "evNotify")
    /\ Notify
    /\ pending' = pending - 1
    /\ fdLock' = [j \in Jobs |-> IF fdLock[j] = p THEN None ELSE fdLock[j]]
    /\ Goto(p, "events")
    /\ UNCHANGED <<tasks, cur, cbFiber, fiberVars, active, idle, enableStop,
                   reg, evs, jobVars, crash>>

\* The idle fiber yields to Run.
IdleYield(p) ==
    /\ At(p, "events") /\ evs[p] = {}
    /\ Goto(p, "idleBack")
    /\ UNCHANGED <<tasks, cur, cbFiber, fiberVars, active, idle, enableStop,
                   ioVars, jobVars, crash>>

IdleBack(p) ==
    /\ At(p, "idleBack")
    /\ idle' = idle - 1
    /\ Goto(p, "runStop")
    /\ UNCHANGED <<tasks, cur, cbFiber, fiberVars, active, enableStop, ioVars,
                   jobVars, crash>>

\* Run asks CanStop again; if it may not stop, idle_fiber is Reset and Run
\* goes on taking tasks.
RunCanStop(p) ==
    \/ ReadPending(p, "runStop", "runStop2", "take")
    \/ ReadScheduler(p, "runStop2", IF p = Main THEN "join" ELSE "exited",
                     "take")

-----------------------------------------------------------------------------
\* The environment: a peer makes a registered fd ready (edge-triggered).
FdReady(j) ==
    /\ crash = "no" /\ reg[j] # None /\ j \notin ready
    /\ ready' = ready \cup {j}
    /\ UNCHANGED <<pc, tasks, cur, cbFiber, fiberVars, active, idle,
                   enableStop, reg, fdLock, pending, efdCnt, evs, jobVars,
                   crash>>

RunStep(p)  == Take(p) \/ RunNotify(p) \/ DispatchCb(p) \/ DispatchFiber(p)
               \/ AfterSwapIn(p) \/ CheckCb(p) \/ CheckFiber(p) \/ SetHold(p)
               \/ RunCanStop(p)
JobStep(p)  == AddEvent(p) \/ YieldToHold(p) \/ Return(p) \/ TermSwapOut(p)
               \/ (\E k \in Jobs : JobPush(p, k)) \/ JobNotify(p)
IdleStep(p) == GoIdle(p) \/ IdleCanStop(p) \/ EpollWait(p) \/ DrainEventfd(p)
               \/ (\E j \in Jobs : SkipEvent(p, j) \/ TriggerEvent(p, j))
               \/ EventNotify(p) \/ IdleYield(p) \/ IdleBack(p)
MainStep    == (\E j \in Jobs : MainPush(j)) \/ MainNotify \/ Stop \/ Join

\* The process is over: joined, or aborted.
Over == (pc[Main] = "stopped" \/ crash # "no") /\ UNCHANGED vars

Next ==
    \/ \E p \in Runners : RunStep(p) \/ JobStep(p) \/ IdleStep(p)
    \/ MainStep
    \/ \E j \in Jobs : FdReady(j)
    \/ Over

Spec == Init /\ [][Next]_vars

\* Threads keep running (epoll_wait has a timeout, so it returns), callbacks
\* return, a peer answers in the end, and the owner does finish a pushtask or
\* a join it has begun.  When the owner calls Stop is its own business.
Fairness ==
    /\ \A p \in Runners : WF_vars(RunStep(p) \/ JobStep(p) \/ IdleStep(p))
    /\ WF_vars(MainNotify \/ Join)
    /\ \A j \in Jobs : WF_vars(FdReady(j))

FairSpec == Spec /\ Fairness
==============================================================================
