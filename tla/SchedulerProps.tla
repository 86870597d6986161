--------------------------- MODULE SchedulerProps ---------------------------
(* The correctness properties of module Scheduler. *)
EXTENDS Scheduler

Labels ==
    {"main", "mainNotify", "join", "stopped", "take", "notify", "dispatch",
     "job", "jobNotify", "yield", "term", "after", "check", "setHold",
     "goIdle", "idleStop", "idleStop2", "wait", "events", "evNotify",
     "idleBack", "runStop", "runStop2", "exited"}

OnStack == [fiber : Jobs \cup {None}, job : Jobs \cup {None}]
Reasons == {"no", "shared stack", "never reach", "addEvent: state",
            "yield: state"}

\* Every variable has its type: the one type invariant of the module.
TypeOK ==
    /\ pc \in [Procs -> Labels]
    /\ tasks \in Seq(Task)
    /\ cur \in [Procs -> Task \cup {NoTask}]
    /\ cbFiber \in [Procs -> Jobs \cup {None}]
    /\ exec \in [Procs -> OnStack]
    /\ fstate \in [Jobs -> {"INIT", "RUNNING", "TERM", "HOLD"}]
    /\ ctx \in [Jobs -> Context]
    /\ active \in Int /\ idle \in Int /\ pending \in Int
    /\ enableStop \in BOOLEAN /\ efdCnt \in BOOLEAN
    /\ reg \in [Jobs -> Jobs \cup {None}]
    /\ fdLock \in [Jobs -> Procs \cup {None}]
    /\ ready \subseteq Jobs \cup {Efd}
    /\ evs \in [Procs -> SUBSET (Jobs \cup {Efd})]
    /\ left \in [Jobs -> 0..MaxWaits]
    /\ submitted \subseteq Jobs /\ done \subseteq Jobs
    /\ crash \in Reasons

-----------------------------------------------------------------------------
\* Threads that have taken a task and are between ++m_activeThdCnt and the
\* matching decrement, threads counted idle, and events being triggered.
OnFiberLabels == {"job", "jobNotify", "yield", "term"}
InsideLabels  == OnFiberLabels \cup {"after"}
IdleLabels    == {"idleStop", "idleStop2", "wait", "events", "evNotify",
                  "idleBack"}
Inside == {p \in Procs : pc[p] \in InsideLabels}
Idling == {p \in Procs : pc[p] \in IdleLabels}
Awaited    == {j \in Jobs : reg[j] # None}
Triggering == {j \in Jobs : fdLock[j] # None}

\* The three atomic counters CanStop and Notify decide by are exact at every
\* moment: m_activeThdCnt and m_idleThdCnt count threads, m_pendingCnt the
\* registered events and the ones a thread is just triggering.
CountsExact ==
    /\ active = Cardinality(Inside)
    /\ idle = Cardinality(Idling)
    /\ pending = Cardinality(Awaited) + Cardinality(Triggering)

\* They are exact whatever the threads do (Schedule1.cc:98-160,
\* IOManager.cc:124-152, 343), and every variable has its type.
CountersExact == TypeOK /\ CountsExact

\* Stop returns only when the scheduler is drained, although CanStop reads
\* m_pendingCnt, the task list and m_activeThdCnt one after the other without
\* a common lock: no task queued, no event awaited, no fiber on any thread.
StopIsClean ==
    pc[Main] = "stopped" =>
        /\ tasks = <<>> /\ Awaited = {}
        /\ \A p \in Procs : exec[p].fiber = None

\* Why StopIsClean holds: the inductive invariant behind it.  Threads are on a
\* fiber's stack exactly in the code that runs there, an FdContext is locked
\* by at most the one thread that is triggering it, and the last thread to
\* leave has seen an empty scheduler.
OnStackInv ==
    \A p \in Procs :
        /\ exec[p].fiber # None => pc[p] \in OnFiberLabels
        /\ crash = "no" /\ pc[p] \in OnFiberLabels => exec[p].fiber # None

LockInv ==
    /\ \A j, k \in Jobs : fdLock[j] = fdLock[k] /\ fdLock[j] # None => j = k
    /\ \A p \in Procs :
           pc[p] = "evNotify" <=> \E j \in Jobs : fdLock[j] = p

GoneLabels == {"exited", "join", "stopped"}
AllGone    == \A p \in Runners : pc[p] \in GoneLabels
AllLeaving == \A p \in Runners : pc[p] \in GoneLabels \cup {"runStop2"}
LeaveInv ==
    /\ pc[Main] \in {"main", "mainNotify"} => ~enableStop
    /\ \A p \in Runners : pc[p] \in GoneLabels => enableStop
    /\ AllGone => tasks = <<>>
    /\ AllLeaving => pending = 0
    /\ pc[Main] = "stopped" => AllGone

DrainInv == CountsExact /\ OnStackInv /\ LockInv /\ LeaveInv

-----------------------------------------------------------------------------
\* Where a callback that has not begun can be: in the task list, or in a
\* thread that has taken it and not yet dispatched it.
QueuedAt(j) == {i \in DOMAIN tasks : tasks[i].kind = "cb" /\ tasks[i].id = j}
TakenBy(j)  == {p \in Procs : /\ cur[p].kind = "cb" /\ cur[p].id = j
                              /\ pc[p] \in {"notify", "dispatch"}}
Begun(j) == \/ j \in done \/ left[j] < MaxWaits \/ reg[j] # None
            \/ \E p \in Procs : exec[p].job = j
            \/ \E f \in Jobs : ctx[f].job = j

\* Run starts a callback at most once, whatever the threads do: it is in one
\* place while it waits to be started, and nowhere once it has begun.
StartedOnce ==
    \A j \in Jobs :
        LET places == Cardinality(QueuedAt(j)) + Cardinality(TakenBy(j))
        IN  /\ places <= 1
            /\ Begun(j) => places = 0
            /\ (j \notin submitted) => places = 0 /\ ~Begun(j)

-----------------------------------------------------------------------------
\* The fiber tasks by which a suspended callback can be resumed.
ResumedBy(j) ==
    {i \in DOMAIN tasks : /\ tasks[i].kind = "fiber"
                          /\ ctx[tasks[i].id].job = j}
ResumingIn(j) ==
    {p \in Procs : /\ cur[p].kind = "fiber" /\ ctx[cur[p].id].job = j
                   /\ pc[p] \in {"notify", "dispatch"}}
RunBy(j) == {p \in Procs : exec[p].job = j /\ pc[p] # "term"}

\* The state of a callback as a user of the pool sees it.
StatusOf(j) ==
    IF j \notin submitted THEN "new"
    ELSE IF RunBy(j) # {} THEN "running"
    ELSE IF j \in done THEN "done"
    ELSE IF QueuedAt(j) \cup TakenBy(j) \cup ResumedBy(j) \cup ResumingIn(j)
                # {} THEN "queued"
    ELSE IF reg[j] # None THEN "waiting" ELSE "lost"

Pool == INSTANCE JobPool WITH
            Capacity <- Cardinality(Runners),
            status   <- [j \in Jobs |-> StatusOf(j)],
            closed   <- pc[Main] = "stopped"

\* The scheduler implements the abstract pool: no callback is lost, run twice
\* or run on two threads, and Stop never returns before the last one is done.
ImplementsPool == Pool!PoolSpec

\* A fiber whose callback is suspended in YieldToHold is never Reset for
\* another callback, which would lose the suspended one: Run lets go of a
\* cb_fiber that is on hold.
HeldFiberNotReused ==
    [][\A f \in Jobs :
           ctx[f].at = "yield" /\ ~OnCpu(f) => ctx'[f].at # "entry"]_vars

-----------------------------------------------------------------------------
\* Every callback handed to pushtask returns, and Stop returns, if callbacks
\* and threads make progress and peers answer.
EveryCallbackReturns == \A j \in Jobs : (j \in submitted) ~> (j \in done)
StopReturns == (pc[Main] \notin {"main", "mainNotify"}) ~> (pc[Main] = "stopped")
==============================================================================
