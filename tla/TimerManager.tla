---------------------------- MODULE TimerManager ----------------------------
(***************************************************************************)
(* The timers of an IOManager: class Timer and class TimerManager          *)
(* (Timer.cc, Timer.h), used by threads that add, cancel, refresh and      *)
(* reset timers while runners of the scheduler wait in IOManager::Idle     *)
(* (IOManager.cc) for the earliest one.                                    *)
(*                                                                         *)
(* m_timers, a std::set ordered by (m_next, address), is the sequence      *)
(* order; a timer is named by its address.  Everything TimerManager does   *)
(* under m_mutex is one step; what it reads before the lock or does after  *)
(* it (m_notify, Haslatest, the clock, m_cb) is a step of its own.  A time *)
(* unit stands for some milliseconds.                                      *)
(***************************************************************************)
EXTENDS Integers, Sequences, SequencesExt, FiniteSets

CONSTANTS
    Timers,     \* addresses of the Timer objects
    Runners,    \* threads of the scheduler, which run Idle between tasks
    Users,      \* threads that use timers, runners or not
    Periods,    \* the ms arguments
    Start,      \* the clock when the manager is constructed
    MaxTime,    \* bound of the clock
    MaxNext,    \* bound of a deadline
    MaxSetBacks, \* how often the clock is set back (bound)
    Hour,       \* the lag that detectClockRollover takes for a rollover
    MaxTimeout, \* MAX_TIMEOUT
    IntHalf,    \* 2^31: an int is -IntHalf .. IntHalf - 1
    Forever     \* a wait without timeout

Threads == Runners \cup Users

ASSUME TimerAssumption ==
    /\ Timers \subseteq Nat /\ Periods \subseteq Nat /\ Runners # {}
    /\ Start \in Nat /\ MaxTime \in Nat /\ MaxNext \in Nat
    /\ MaxSetBacks \in Nat
    /\ Hour \in Nat /\ Start <= MaxTime
    /\ MaxTimeout \in Nat /\ IntHalf \in Nat /\ MaxTimeout < IntHalf
    /\ Forever \notin Int

VARIABLES
    now,      \* GetCurrentMS()
    setBacks, \* how often the clock was set back
    previous, \* m_previoustime
    order,    \* m_timers
    next, ms, repeat, \* m_next, m_ms, m_repeat
    hasCb,    \* m_cb is not null
    notify,   \* m_notify
    created,  \* timers constructed
    known,    \* timers that addTimer has returned to its caller
    pc, arg,  \* where each thread is, and the arguments of its call
    wake,     \* when epoll_wait times out
    gotEfd,   \* epoll_wait returned the eventfd
    gotCbs,   \* listExpiredCb returned callbacks
    seen,     \* the clock as listExpiredCb read it
    ready, efdCnt, \* eventfd: on epoll's ready list, counter not zero
    fired     \* how often the callback of a one-shot was handed over (up to 2)

timerVars   == <<next, ms, repeat, hasCb>>
managerVars == <<previous, order, timerVars, notify>>
callVars    == <<created, known, arg>>
idleVars    == <<wake, gotEfd, gotCbs, seen>>
efdVars     == <<ready, efdCnt>>
clockVars   == <<now, setBacks>>
vars == <<managerVars, callVars, idleVars, efdVars, clockVars, pc, fired>>

NoArg == [timer |-> 0, ms |-> 0, fromNow |-> FALSE, adding |-> FALSE]

Init ==
    /\ now = Start /\ setBacks = 0 /\ previous = Start
    /\ order = <<>>
    /\ next = [t \in Timers |-> 0] /\ ms = [t \in Timers |-> 0]
    /\ repeat = [t \in Timers |-> FALSE]
    /\ hasCb = [t \in Timers |-> FALSE]
    /\ notify = FALSE /\ created = {} /\ known = {}
    /\ pc = [p \in Threads |-> "work"]
    /\ arg = [p \in Threads |-> NoArg]
    /\ wake = [p \in Threads |-> Forever]
    /\ gotEfd = [p \in Threads |-> FALSE]
    /\ gotCbs = [p \in Threads |-> FALSE]
    /\ seen = [p \in Threads |-> 0]
    /\ ready = FALSE /\ efdCnt = FALSE
    /\ fired = [t \in Timers |-> 0]

At(p, l)   == pc[p] = l
Goto(p, l) == pc' = [pc EXCEPT ![p] = l]

IdleLabels == {"next1", "next2", "sleep", "clock", "expire", "push", "drain"}

\* IOManager::Notify: m_idleThdCnt counts exactly the runners in Idle
\* (CountersExact of module Scheduler).
Notify ==
    IF \E p \in Runners : pc[p] \in IdleLabels
    THEN ready' = TRUE /\ efdCnt' = TRUE
    ELSE UNCHANGED efdVars

-----------------------------------------------------------------------------
\* std::set with Timer::Compare.

Before(t, u, deadline) ==
    \/ deadline[t] < deadline[u]
    \/ deadline[t] = deadline[u] /\ t < u

\* Mutant of Insert: the timer goes to the end.
InsertLast(s, t, deadline) == s \o <<t>>

\* A timer comes after those that are before it.
Insert(s, t, deadline) ==
    InsertAt(s, Cardinality({i \in DOMAIN s : Before(s[i], t, deadline)}) + 1, t)

Armed(t) == \E i \in DOMAIN order : order[i] = t
Erase(t) == RemoveFirst(order, t)

\* addtimer: insert, and Haslatest after the unlock if the timer is now the
\* first one and nobody has been told since a thread last asked.
AddToSet(p, s, t, deadline) ==
    LET all  == Insert(s, t, deadline)
        tell == all[1] = t /\ ~notify
    IN  /\ order' = all
        /\ notify' = (notify \/ tell)
        /\ Goto(p, IF tell THEN "haslatest" ELSE "return")

-----------------------------------------------------------------------------
\* The user's operations.

\* addTimer: the deadline is computed by the constructor, before the lock.
AddTimer(p, t, m, r) ==
    /\ At(p, "work") /\ t \notin created /\ now + m <= MaxNext
    /\ created' = created \cup {t}
    /\ ms' = [ms EXCEPT ![t] = m]
    /\ next' = [next EXCEPT ![t] = now + m]
    /\ repeat' = [repeat EXCEPT ![t] = r]
    /\ hasCb' = [hasCb EXCEPT ![t] = TRUE]
    /\ arg' = [arg EXCEPT ![p] = [NoArg EXCEPT !.timer = t, !.adding = TRUE]]
    /\ Goto(p, "insert")
    /\ UNCHANGED <<idleVars, efdVars, clockVars, previous, order, notify,
                   known, fired>>

InsertTimer(p) ==
    /\ At(p, "insert")
    /\ AddToSet(p, order, arg[p].timer, next)
    /\ UNCHANGED <<timerVars, callVars, idleVars, efdVars, clockVars, previous,
                   fired>>

HasLatest(p) ==
    /\ At(p, "haslatest")
    /\ Notify /\ Goto(p, "return")
    /\ UNCHANGED <<managerVars, callVars, idleVars, clockVars, fired>>

\* addTimer returns the timer; refresh and reset return true.
ReturnTimer(p) ==
    /\ At(p, "return")
    /\ known' = IF arg[p].adding THEN known \cup {arg[p].timer} ELSE known
    /\ arg' = [arg EXCEPT ![p] = NoArg]
    /\ Goto(p, "work")
    /\ UNCHANGED <<managerVars, idleVars, efdVars, clockVars, created, fired>>

\* cancel and refresh look at m_cb before they take the lock, reset at m_ms.
CallCancel(p, t) ==
    /\ At(p, "work") /\ t \in known /\ hasCb[t]
    /\ arg' = [arg EXCEPT ![p] = [NoArg EXCEPT !.timer = t]]
    /\ Goto(p, "cancel")
    /\ UNCHANGED <<managerVars, idleVars, efdVars, clockVars, created, known,
                   fired>>

CallRefresh(p, t) ==
    /\ At(p, "work") /\ t \in known /\ hasCb[t]
    /\ arg' = [arg EXCEPT ![p] = [NoArg EXCEPT !.timer = t]]
    /\ Goto(p, "refresh")
    /\ UNCHANGED <<managerVars, idleVars, efdVars, clockVars, created, known,
                   fired>>

CallReset(p, t, m, fromNow) ==
    /\ At(p, "work") /\ t \in known
    /\ ~(ms[t] = m /\ ~fromNow)
    /\ arg' = [arg EXCEPT ![p] =
                   [timer |-> t, ms |-> m, fromNow |-> fromNow,
                    adding |-> FALSE]]
    /\ Goto(p, "reset")
    /\ UNCHANGED <<managerVars, idleVars, efdVars, clockVars, created, known,
                   fired>>

Cancel(p) ==
    LET t == arg[p].timer IN
    /\ At(p, "cancel")
    /\ hasCb' = [hasCb EXCEPT ![t] = FALSE]
    /\ order' = Erase(t)
    /\ arg' = [arg EXCEPT ![p] = NoArg]
    /\ Goto(p, "work")
    /\ UNCHANGED <<idleVars, efdVars, clockVars, previous, next, ms, repeat,
                   notify, created, known, fired>>

\* refresh and reset return false if the timer is not in the set any more.
NotArmed(p) ==
    /\ At(p, "refresh") \/ At(p, "reset")
    /\ ~Armed(arg[p].timer)
    /\ arg' = [arg EXCEPT ![p] = NoArg]
    /\ Goto(p, "work")
    /\ UNCHANGED <<managerVars, idleVars, efdVars, clockVars, created, known,
                   fired>>

\* Mutant of Refresh: it does not look whether the timer is still in the set.
RefreshUnarmed(p) ==
    LET t == arg[p].timer IN
    /\ At(p, "refresh") /\ now + ms[t] <= MaxNext
    /\ next' = [next EXCEPT ![t] = now + ms[t]]
    /\ AddToSet(p, Erase(t), t, next')
    /\ UNCHANGED <<callVars, idleVars, efdVars, clockVars, previous, ms,
                   repeat, hasCb, fired>>

Refresh(p) ==
    LET t == arg[p].timer IN
    /\ At(p, "refresh") /\ Armed(t) /\ now + ms[t] <= MaxNext
    /\ next' = [next EXCEPT ![t] = now + ms[t]]
    /\ AddToSet(p, Erase(t), t, next')
    /\ UNCHANGED <<callVars, idleVars, efdVars, clockVars, previous, ms,
                   repeat, hasCb, fired>>

\* Without from_now the new interval is added to the old deadline.
Reset(p) ==
    LET t == arg[p].timer
        m == arg[p].ms
        from == IF arg[p].fromNow THEN now ELSE next[t]
    IN  /\ At(p, "reset") /\ Armed(t) /\ from + m <= MaxNext
        /\ ms' = [ms EXCEPT ![t] = m]
        /\ next' = [next EXCEPT ![t] = from + m]
        /\ AddToSet(p, Erase(t), t, next')
        /\ UNCHANGED <<callVars, idleVars, efdVars, clockVars, previous,
                       repeat, hasCb, fired>>

-----------------------------------------------------------------------------
\* IOManager::Idle, as far as timers are concerned.

GoIdle(p) ==
    /\ At(p, "work") /\ p \in Runners
    /\ Goto(p, "next1")
    /\ UNCHANGED <<managerVars, callVars, idleVars, efdVars, clockVars, fired>>

\* Mutant of ForgetNotify: m_notify is never cleared.
KeepNotify(p) ==
    /\ At(p, "next1")
    /\ Goto(p, "next2")
    /\ UNCHANGED <<managerVars, callVars, idleVars, efdVars, clockVars, fired>>

\* getNextTimer clears m_notify before it takes the lock ...
ForgetNotify(p) ==
    /\ At(p, "next1")
    /\ notify' = FALSE
    /\ Goto(p, "next2")
    /\ UNCHANGED <<timerVars, callVars, idleVars, efdVars, clockVars, previous,
                   order, fired>>

\* The timeout handed to epoll_wait for the earliest deadline: next_timeout is
\* converted to int, compared with MAX_TIMEOUT, and converted again.
AsInt(n) == ((n + IntHalf) % (2 * IntHalf)) - IntHalf
Timeout ==
    IF order = <<>> THEN MaxTimeout
    ELSE LET first == next[order[1]]
             d     == IF first > now THEN first - now ELSE 0
         IN  IF AsInt(d) > MaxTimeout THEN MaxTimeout ELSE AsInt(d)

\* ... and reads the first deadline under it; a negative timeout is infinite.
ReadNext(p) ==
    /\ At(p, "next2")
    /\ wake' = [wake EXCEPT ![p] = IF Timeout < 0 THEN Forever
                                   ELSE now + Timeout]
    /\ Goto(p, "sleep")
    /\ UNCHANGED <<managerVars, callVars, efdVars, clockVars, gotEfd, gotCbs,
                   seen, fired>>

\* epoll_wait returns: the eventfd, a timeout, or an event on another fd,
\* which may come at any time.
EpollReturn(p) ==
    /\ At(p, "sleep")
    /\ gotEfd' = [gotEfd EXCEPT ![p] = ready /\ efdCnt]
    /\ ready' = FALSE
    /\ wake' = [wake EXCEPT ![p] = Forever]
    /\ Goto(p, "clock")
    /\ UNCHANGED <<managerVars, callVars, clockVars, gotCbs, seen, efdCnt,
                   fired>>

\* listExpiredCb reads the clock before it takes the lock.
ReadClock(p) ==
    /\ At(p, "clock")
    /\ seen' = [seen EXCEPT ![p] = now]
    /\ Goto(p, "expire")
    /\ UNCHANGED <<managerVars, callVars, efdVars, clockVars, wake, gotEfd,
                   gotCbs, fired>>

\* detectClockRollover: the clock has gone back by more than an hour.
Rollover(t) == t < previous /\ t < previous - Hour

\* Where upper_bound(now) can point, as the number of timers before it: the
\* temporary timer is ordered among those due just now by its address.
UpperBound(t) ==
    {k \in 0..Len(order) : \A i \in DOMAIN order :
         IF i <= k THEN next[order[i]] <= t ELSE next[order[i]] >= t}

\* What ++it makes of position k.  Incrementing end() is undefined: in the
\* red-black tree of libstdc++ it leads to the last node, or to the one before
\* it if that is the left child of the last.
Increment(k) ==
    IF k < Len(order) THEN {k + 1}
    ELSE {k - 1} \cup (IF k = 1 \/ k = 3 THEN {} ELSE {k - 2})

\* The numbers of timers listExpiredCb may take out of the set at time t.
Expirable(t) ==
    IF order = <<>> THEN {0}
    ELSE IF ~Rollover(t) /\ next[order[1]] > t THEN {0}
    ELSE UNION {Increment(k) : k \in IF Rollover(t) THEN {Len(order)}
                                     ELSE UpperBound(t)}

\* One after the other, the timers of s that are in S come back to those left.
PutBack(left, s, S, deadline) ==
    LET back[n \in 0..Len(s)] ==
            IF n = 0 THEN left
            ELSE IF s[n] \in S THEN Insert(back[n - 1], s[n], deadline)
                 ELSE back[n - 1]
    IN  back[Len(s)]

\* Mutant of Expire: every timer that has expired comes back.
ExpireRepeatsAll(p, k) ==
    LET t       == seen[p]
        Out     == {order[i] : i \in 1..k}
        later   == [u \in Timers |-> IF u \in Out THEN t + ms[u] ELSE next[u]]
    IN  /\ \A u \in Out : later[u] <= MaxNext
        /\ next' = later
        /\ order' = PutBack(SubSeq(order, k + 1, Len(order)),
                            SubSeq(order, 1, k), Timers, later)
        /\ fired' = [u \in Timers |->
                        IF u \in Out /\ hasCb[u] /\ ~repeat[u] /\ fired[u] < 2
                        THEN fired[u] + 1 ELSE fired[u]]
        /\ seen' = [seen EXCEPT ![p] = 0]
        /\ gotCbs' = [gotCbs EXCEPT ![p] = \E u \in Out : hasCb[u]]
        /\ UNCHANGED <<hasCb, previous>>

\* Mutant of Expire: repeating timers keep the deadline that has passed.
ExpireKeepsDeadline(p, k) ==
    LET t       == seen[p]
        Out     == {order[i] : i \in 1..k}
        Again   == {u \in Out : repeat[u]}
    IN  /\ order' = PutBack(SubSeq(order, k + 1, Len(order)),
                            SubSeq(order, 1, k), Again, next)
        /\ fired' = [u \in Timers |->
                        IF u \in Out /\ hasCb[u] /\ ~repeat[u] /\ fired[u] < 2
                        THEN fired[u] + 1 ELSE fired[u]]
        /\ hasCb' = [u \in Timers |-> hasCb[u] /\ (u \in Out => repeat[u])]
        /\ seen' = [seen EXCEPT ![p] = 0]
        /\ gotCbs' = [gotCbs EXCEPT ![p] = \E u \in Out : hasCb[u]]
        /\ previous' = IF order = <<>> \/ Rollover(t) THEN previous ELSE t
        /\ UNCHANGED next

\* The expired timers leave the set; repeating ones come back with a new
\* deadline, the others lose their callback.
Expire(p, k) ==
    LET t       == seen[p]
        Out     == {order[i] : i \in 1..k}
        Again   == {u \in Out : repeat[u]}
        later   == [u \in Timers |-> IF u \in Again THEN t + ms[u] ELSE next[u]]
    IN  /\ \A u \in Out : later[u] <= MaxNext
        /\ next' = later
        /\ order' = PutBack(SubSeq(order, k + 1, Len(order)),
                            SubSeq(order, 1, k), Again, later)
        /\ fired' = [u \in Timers |->
                        IF u \in Out /\ hasCb[u] /\ ~repeat[u] /\ fired[u] < 2
                        THEN fired[u] + 1 ELSE fired[u]]
        /\ hasCb' = [u \in Timers |-> hasCb[u] /\ (u \in Out => repeat[u])]
        /\ seen' = [seen EXCEPT ![p] = 0]
        /\ gotCbs' = [gotCbs EXCEPT ![p] = \E u \in Out : hasCb[u]]
        /\ previous' = IF order = <<>> \/ Rollover(t) THEN previous ELSE t

ListExpired(p) ==
    /\ At(p, "expire")
    /\ \E k \in Expirable(seen[p]) : Expire(p, k)
    /\ Goto(p, "push")
    /\ UNCHANGED <<callVars, efdVars, clockVars, ms, repeat, notify, wake,
                   gotEfd>>

\* pushtasks hands the callbacks to the scheduler and notifies.
PushExpired(p) ==
    /\ At(p, "push")
    /\ IF gotCbs[p] THEN Notify ELSE UNCHANGED efdVars
    /\ gotCbs' = [gotCbs EXCEPT ![p] = FALSE]
    /\ Goto(p, "drain")
    /\ UNCHANGED <<managerVars, callVars, clockVars, wake, gotEfd, seen,
                   fired>>

\* The eventfd is read, if epoll_wait returned it.
DrainEventfd(p) ==
    /\ At(p, "drain") /\ gotEfd[p]
    /\ efdCnt' = FALSE
    /\ gotEfd' = [gotEfd EXCEPT ![p] = FALSE]
    /\ UNCHANGED <<managerVars, callVars, clockVars, pc, wake, gotCbs, seen,
                   ready, fired>>

IdleYield(p) ==
    /\ At(p, "drain") /\ ~gotEfd[p]
    /\ Goto(p, "work")
    /\ UNCHANGED <<managerVars, callVars, idleVars, efdVars, clockVars, fired>>

-----------------------------------------------------------------------------
\* The clock: it ticks, and somebody may set it back, which does not change
\* how long an epoll_wait goes on.
Tick ==
    /\ now < MaxTime
    /\ now' = now + 1
    /\ UNCHANGED <<managerVars, callVars, idleVars, efdVars, setBacks, pc,
                   fired>>

SetClockBack ==
    /\ setBacks < MaxSetBacks /\ setBacks' = setBacks + 1
    /\ \E lag \in 1..now :
          /\ now' = now - lag
          /\ wake' = [p \in Threads |-> IF wake[p] = Forever THEN Forever
                                       ELSE wake[p] - lag]
    /\ UNCHANGED <<managerVars, callVars, efdVars, pc, gotEfd, gotCbs, seen,
                   fired>>

Use(p) ==
    \/ \E t \in Timers, m \in Periods, r \in BOOLEAN : AddTimer(p, t, m, r)
    \/ \E t \in Timers : CallCancel(p, t) \/ CallRefresh(p, t)
    \/ \E t \in Timers, m \in Periods, f \in BOOLEAN : CallReset(p, t, m, f)
    \/ InsertTimer(p) \/ HasLatest(p) \/ ReturnTimer(p)
    \/ Cancel(p) \/ NotArmed(p) \/ Refresh(p) \/ Reset(p)

Idle(p) ==
    \/ GoIdle(p) \/ ForgetNotify(p) \/ ReadNext(p) \/ EpollReturn(p)
    \/ ReadClock(p) \/ ListExpired(p) \/ PushExpired(p) \/ DrainEventfd(p)
    \/ IdleYield(p)

Next ==
    \/ \E p \in Users : Use(p)
    \/ \E p \in Runners : Idle(p)
    \/ Tick \/ SetClockBack

Spec == Init /\ [][Next]_vars
==============================================================================
