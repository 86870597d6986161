----------------------------- MODULE TimerProps -----------------------------
(* The correctness properties of module TimerManager. *)
EXTENDS TimerManager

Labels == IdleLabels \cup {"work", "insert", "haslatest", "return", "cancel",
                           "refresh", "reset"}
Arg == [timer : Timers \cup {0}, ms : Periods \cup {0}, fromNow : BOOLEAN,
        adding : BOOLEAN]

\* Every variable has its type: the one type invariant of the module.
TypeOK ==
    /\ now \in 0..MaxTime /\ setBacks \in 0..MaxSetBacks /\ previous \in 0..MaxTime
    /\ order \in Seq(Timers)
    /\ next \in [Timers -> 0..MaxNext] /\ ms \in [Timers -> Periods \cup {0}]
    /\ repeat \in [Timers -> BOOLEAN] /\ hasCb \in [Timers -> BOOLEAN]
    /\ notify \in BOOLEAN
    /\ created \subseteq Timers /\ known \subseteq created
    /\ pc \in [Threads -> Labels] /\ arg \in [Threads -> Arg]
    /\ wake \in [Threads -> Int \cup {Forever}]
    /\ gotEfd \in [Threads -> BOOLEAN] /\ gotCbs \in [Threads -> BOOLEAN]
    /\ seen \in [Threads -> 0..MaxTime]
    /\ ready \in BOOLEAN /\ efdCnt \in BOOLEAN
    /\ fired \in [Timers -> 0..2]

-----------------------------------------------------------------------------
Inserting == {arg[p].timer : p \in {q \in Threads : pc[q] = "insert"}}

\* The set holds exactly the timers that can still fire, each once, in the
\* order its comparison needs to find them again, although refresh, reset and
\* cancel check the timer before they lock and listExpiredCb runs in between:
\* hasTimer keeps the IOManager from stopping for as long as a timer is
\* outstanding and no longer.
SetIsExact ==
    /\ \A i, k \in DOMAIN order : i < k => Before(order[i], order[k], next)
    /\ \A t \in created \ Inserting : Armed(t) <=> hasCb[t]

\* The state of the timers is what it should be, whatever refresh, reset and
\* cancel race with (Timer.cc:27-95, 122-158).
TimersExact == TypeOK /\ SetIsExact

\* The callback of a timer that does not repeat is handed over at most once,
\* whatever refresh and reset do meanwhile.
OneShotOnce == \A t \in Timers : ~repeat[t] => fired[t] <= 1

\* When all runners of the scheduler are asleep one of them wakes up in time
\* for the earliest timer, or the eventfd is about to wake one: a timer that
\* is inserted as the first one always reaches a thread that waits for a later
\* one, although m_notify is cleared without the lock and Haslatest is called
\* after the unlock.
NoOversleep ==
    (/\ order # <<>> /\ \A p \in Runners : pc[p] = "sleep")
    => \/ ready /\ efdCnt
       \/ \E p \in Threads : pc[p] = "haslatest"
       \/ \E p \in Runners :
              /\ wake[p] # Forever
              /\ wake[p] <= next[order[1]] \/ wake[p] <= now

\* When there is a timer that is due later, listExpiredCb leaves none behind that
\* has expired: the set it leaves starts at the time it looked at, with those
\* that repeat put back.  The one increment too many takes a timer too early, but
\* none too late, unless all have expired: then it goes past the end, and the
\* last timer is left, again and again if it is alone (Timer.cc:126-157).  A clock
\* that was set back expires the whole set and so has the same effect.
LaterTimer(t) == \E i \in DOMAIN order : next[order[i]] > t
LaterTimerHelps ==
    [][\A p \in Runners :
           At(p, "expire") /\ pc'[p] = "push" /\ LaterTimer(seen[p])
               /\ ~Rollover(seen[p])
           => \A i \in DOMAIN order' : next'[order'[i]] >= seen[p]]_vars
==============================================================================
