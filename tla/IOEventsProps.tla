--------------------------- MODULE IOEventsProps ---------------------------
(***************************************************************************)
(* What the event bookkeeping of an IOManager promises: the user-space     *)
(* state (FdContext, m_pendingCnt), epoll's own registration and the       *)
(* waiters always tell the same story, and an event that has happened is   *)
(* never lost.                                                             *)
(***************************************************************************)
EXTENDS IOEvents

Waits(w, fd, e) == holder[fd][e] = w
Registered == {r \in Fds \X Events : r[2] \in type[r[1]]}

\* Every variable has its type; m_pendingCnt, a size_t, has not wrapped.
TypeOK ==
    /\ type \in [Fds -> SUBSET Events]
    /\ holder \in [Fds -> [Events -> Waiters \cup {None}]]
    /\ size \in Nat /\ pending \in Nat
    /\ status \in [Waiters -> {"free", "waiting", "queued"}]
    /\ interest \in [Fds -> {{e} : e \in Events} \cup {Events, None}]
    /\ level \in [Fds -> SUBSET Events] /\ hangup \in [Fds -> BOOLEAN]
    /\ ready \subseteq Fds /\ closing \subseteq Fds
    /\ torn \subseteq Fds
    /\ batch \in [Pollers ->
                     SUBSET [fd : Fds, events : SUBSET Events, hangup : BOOLEAN]]
    /\ crash \in {"no", "context index", "addEvent", "triggerEvent"}

\* m_pendingCnt, which CanStop trusts, is the number of registered events,
\* whichever of addEvent, delEvent, cancelEvent, cancelAll and Idle raced for
\* an fd, also when fds are closed and reused (IOManager.cc:107-108, 150-151,
\* 191-192, 225-232, 344-351).
PendingExact == Running => pending = Cardinality(Registered)

\* Who waits and what is registered agree: a waiter that has not been resumed
\* is held by exactly one event, that event is in event_type, and whoever was
\* triggered or withdrawn is held by none (triggerEvent, resetContext, and the
\* assertion of addEvent at IOManager.cc:111 that the EventContext is empty).
WaitersExact ==
    Running =>
        /\ \A fd \in Fds, e \in Events : holder[fd][e] # None <=> e \in type[fd]
        /\ \A w \in Waiters :
               Cardinality({r \in Registered : Waits(w, r[1], r[2])})
                   = IF status[w] = "waiting" THEN 1 ELSE 0

\* Unless an fd was closed under a waiter, epoll is asked for exactly the events
\* of event_type, after every ADD, MOD and DEL the five operations choose
\* (IOManager.cc:96-100, 139-143, 178-182, 213-216, 334-337).
EpollAgrees ==
    Running =>
        \A fd \in Fds \ torn : interest[fd] = IF type[fd] = {} THEN None ELSE type[fd]

\* The waiters, event_type and epoll always agree, after every interleaving of the
\* event operations (IOManager.cc:84-239, 305-352).
EventsExact == TypeOK /\ WaitersExact /\ EpollAgrees

\* Edge-triggered epoll reports an event once.  An event that is registered
\* and has happened is therefore always either still to be reported, or in
\* what some thread's epoll_wait returned and its Idle will handle, even if
\* other threads add, cancel or handle events of the same fd meanwhile
\* (IOManager.cc:305-352).
NoMissedEvent ==
    Running =>
        \A fd \in Fds : \A e \in type[fd] :
            fd \notin torn /\ e \in level[fd] =>
                \/ fd \in ready
                \/ \E p \in Pollers : \E r \in batch[p] :
                       r.fd = fd /\ e \in RealEvents(r)

-----------------------------------------------------------------------------
\* The inductive invariant behind PendingExact, EventsExact and NoMissedEvent
\* (proved in IOEventsProof).  An EventContext holds somebody exactly when its
\* event is registered; nobody is held twice; whoever waits is held.
HeldIffRegistered == \A fd \in Fds, e \in Events : holder[fd][e] # None <=> e \in type[fd]
HeldWait == \A w \in Waiters :
                status[w] = "waiting" <=> \E fd \in Fds, e \in Events : Waits(w, fd, e)
HeldOnce == \A w \in Waiters, fd \in Fds, e \in Events, fd2 \in Fds, e2 \in Events :
                Waits(w, fd, e) /\ Waits(w, fd2, e2) => fd = fd2 /\ e = e2
Counted == IsFiniteSet(Registered) /\ pending = Cardinality(Registered)

EventsInv ==
    /\ TypeOK
    /\ Running => HeldIffRegistered /\ HeldWait /\ HeldOnce /\ Counted
    /\ EpollAgrees /\ NoMissedEvent

-----------------------------------------------------------------------------
\* A fiber or callback whose event has happened, and stays, is put on the task
\* list in the end: triggerEvent runs for it (IOManager.cc:343-351).
WaiterResumed ==
    \A w \in Waiters, fd \in Fds, e \in Events :
        []<>(~Running \/ fd \in torn \/ ~Waits(w, fd, e) \/ e \notin level[fd])
==============================================================================
