------------------------------ MODULE IOEvents ------------------------------
(***************************************************************************)
(* The events of an IOManager (IOManager.cc, IOManager.h): addEvent,       *)
(* delEvent, cancelEvent, cancelAll and what Idle does with the events     *)
(* epoll_wait returns, for READ and WRITE on any number of fds, with the   *)
(* part of epoll they rely on (edge-triggered) and the hooked close().     *)
(*                                                                         *)
(* A Waiter is what an EventContext holds: a fiber or a callback.  What an *)
(* operation does under FdContext::mtx is one step; between epoll_wait and *)
(* the lock of the FdContext anything may happen.  How pushtask and        *)
(* m_pendingCnt interleave with CanStop is in module Scheduler.            *)
(***************************************************************************)
EXTENDS Integers, FiniteSets

CONSTANTS
    Fds,      \* file descriptors (numbers)
    Waiters,  \* fibers and callbacks
    Pollers,  \* threads that run Idle
    Size0,    \* size of m_fd_contexts after the constructor (64)
    None      \* no waiter, or no epoll entry

Events == {"READ", "WRITE"}

ASSUME EventAssumption ==
    /\ Fds \subseteq Nat /\ Size0 \in Nat
    /\ None \notin Waiters /\ \A S \in SUBSET Events : None # S

VARIABLES
    type,     \* FdContext::event_type
    holder,   \* the fiber or cb of read_event and write_event
    size,     \* m_fd_contexts.size()
    pending,  \* m_pendingCnt
    status,   \* of each waiter: free, waiting, or queued as a task
    interest, \* epoll: the events an fd is registered with, or None
    level,    \* epoll: the events an fd is ready for
    hangup,   \* epoll: EPOLLERR or EPOLLHUP is set for the fd
    ready,    \* epoll: the fds on the ready list
    batch,    \* what epoll_wait returned and Idle has yet to handle
    closing,  \* fds between cancelAll and close_f of a close()
    torn,     \* fds closed while an event was registered (history)
    crash     \* "no", or which assertion failed

kernelVars == <<level, hangup>>
vars == <<type, holder, size, pending, status, interest, kernelVars, ready,
          batch, closing, torn, crash>>

Init ==
    /\ type = [fd \in Fds |-> {}]
    /\ holder = [fd \in Fds |-> [e \in Events |-> None]]
    /\ size = Size0 /\ pending = 0
    /\ status = [w \in Waiters |-> "free"]
    /\ interest = [fd \in Fds |-> None]
    /\ level = [fd \in Fds |-> {}] /\ hangup = [fd \in Fds |-> FALSE]
    /\ ready = {} /\ batch = [p \in Pollers |-> {}]
    /\ closing = {} /\ torn = {} /\ crash = "no"

Running == crash = "no"

-----------------------------------------------------------------------------
\* epoll_ctl: ADD, MOD or DEL, whichever turns old into new.  ADD fails on a
\* registered fd, the others on one that is not (any more); ADD and MOD put an
\* fd that is ready already on the ready list.
CtlFails(fd, old) == (old = {}) # (interest[fd] = None)

Ctl(fd, new) ==
    /\ interest' = [interest EXCEPT ![fd] = IF new = {} THEN None ELSE new]
    /\ ready' = IF new # {} /\ (level[fd] \cap new # {} \/ hangup[fd])
                THEN ready \cup {fd}
                ELSE IF new = {} THEN ready \ {fd} ELSE ready

\* Mutant of Trigger: the task is a copy, the EventContext keeps its fiber.
TriggerKeepsHolder(fd, events) ==
    /\ type' = [type EXCEPT ![fd] = @ \ events]
    /\ status' = [w \in Waiters |->
                     IF \E e \in events : holder[fd][e] = w
                     THEN "queued" ELSE status[w]]
    /\ pending' = pending - Cardinality(events)
    /\ UNCHANGED holder

\* FdContext::triggerEvent for each event of a set: what waits for it goes to
\* the task list and the EventContext is empty again.
Trigger(fd, events) ==
    /\ type' = [type EXCEPT ![fd] = @ \ events]
    /\ holder' = [holder EXCEPT ![fd] =
                     [e \in Events |-> IF e \in events THEN None ELSE @[e]]]
    /\ status' = [w \in Waiters |->
                     IF \E e \in events : holder[fd][e] = w
                     THEN "queued" ELSE status[w]]
    /\ pending' = pending - Cardinality(events)

-----------------------------------------------------------------------------
\* addEvent; the vector of contexts grows first, if it is too small.  It
\* returns false, and has changed nothing, when the event is registered
\* already or epoll_ctl fails.
NewSize(fd) == IF fd > size THEN (3 * fd) \div 2 ELSE size

AddEvent(w, fd, e) ==
    /\ Running /\ status[w] = "free"
    /\ size' = NewSize(fd)
    /\ IF fd >= size'
       THEN crash' = "context index"
            /\ UNCHANGED <<type, holder, pending, status, interest, ready>>
       ELSE /\ e \notin type[fd] /\ ~CtlFails(fd, type[fd])
            /\ Ctl(fd, type[fd] \cup {e})
            /\ pending' = pending + 1
            /\ type' = [type EXCEPT ![fd] = @ \cup {e}]
            /\ crash' = IF holder[fd][e] = None THEN crash ELSE "addEvent"
            /\ holder' = [holder EXCEPT ![fd][e] = w]
            /\ status' = [status EXCEPT ![w] = "waiting"]
    /\ UNCHANGED <<kernelVars, batch, closing, torn>>

\* delEvent: the event is forgotten and nobody is woken (a fiber that deletes
\* its own event goes on running).
DelEvent(fd, e) ==
    /\ Running
    /\ fd < size /\ e \in type[fd] /\ ~CtlFails(fd, type[fd])
    /\ Ctl(fd, type[fd] \ {e})
    /\ type' = [type EXCEPT ![fd] = @ \ {e}]
    /\ holder' = [holder EXCEPT ![fd][e] = None]
    /\ status' = [status EXCEPT ![holder[fd][e]] = "free"]
    /\ pending' = pending - 1
    /\ UNCHANGED <<size, kernelVars, batch, closing, torn, crash>>

\* cancelEvent: the event is triggered although it has not happened.
CancelEvent(fd, e) ==
    /\ Running
    /\ fd < size /\ e \in type[fd] /\ ~CtlFails(fd, type[fd])
    /\ Ctl(fd, type[fd] \ {e})
    /\ Trigger(fd, {e})
    /\ UNCHANGED <<size, kernelVars, batch, closing, torn, crash>>

\* Mutant of CancelAll: m_pendingCnt is decremented once for both events.
CancelAllCountsOnce(fd) ==
    IF fd < size /\ type[fd] # {} /\ ~CtlFails(fd, type[fd])
    THEN /\ Ctl(fd, {})
         /\ type' = [type EXCEPT ![fd] = {}]
         /\ holder' = [holder EXCEPT ![fd] = [e \in Events |-> None]]
         /\ status' = [w \in Waiters |->
                          IF \E e \in type[fd] : holder[fd][e] = w
                          THEN "queued" ELSE status[w]]
         /\ pending' = pending - 1
    ELSE UNCHANGED <<type, holder, pending, status, interest, ready>>

\* cancelAll, called by the hooked close() only.
CancelAll(fd) ==
    IF fd < size /\ type[fd] # {} /\ ~CtlFails(fd, type[fd])
    THEN Ctl(fd, {}) /\ Trigger(fd, type[fd])
    ELSE UNCHANGED <<type, holder, pending, status, interest, ready>>

\* close(): cancelAll, then close_f, by which epoll loses the fd; the number
\* may be used again at once.  Whoever registers an event in between is left
\* behind.
CloseCancels(fd) ==
    /\ Running /\ fd \notin closing
    /\ CancelAll(fd)
    /\ closing' = closing \cup {fd}
    /\ UNCHANGED <<size, kernelVars, batch, torn, crash>>

CloseFd(fd) ==
    /\ Running /\ fd \in closing
    /\ interest' = [interest EXCEPT ![fd] = None]
    /\ level' = [level EXCEPT ![fd] = {}]
    /\ hangup' = [hangup EXCEPT ![fd] = FALSE]
    /\ ready' = ready \ {fd}
    /\ closing' = closing \ {fd}
    /\ torn' = IF type[fd] = {} THEN torn ELSE torn \cup {fd}
    /\ UNCHANGED <<type, holder, size, pending, status, batch, crash>>

\* The task of a triggered waiter is run.
Resume(w) ==
    /\ Running /\ status[w] = "queued"
    /\ status' = [status EXCEPT ![w] = "free"]
    /\ UNCHANGED <<type, holder, size, pending, interest, kernelVars, ready,
                   batch, closing, torn, crash>>

-----------------------------------------------------------------------------
\* Idle: epoll_wait returns the ready list with what each fd is ready for ...
Returned(fd) == level[fd] \cap interest[fd]
Reported == {fd \in ready : interest[fd] # None
                            /\ (Returned(fd) # {} \/ hangup[fd])}

EpollWait(p) ==
    /\ Running /\ batch[p] = {} /\ Reported # {}
    /\ batch' = [batch EXCEPT ![p] =
           {[fd |-> fd, events |-> Returned(fd), hangup |-> hangup[fd]] :
               fd \in Reported}]
    /\ ready' = {}
    /\ UNCHANGED <<type, holder, size, pending, status, interest, kernelVars,
                   closing, torn, crash>>

\* ... and each is handled under the lock of its FdContext.  An error or
\* hangup stands for all events registered by then.
RealEvents(r) == r.events \cup (IF r.hangup THEN type[r.fd] ELSE {})

\* Mutant of SkipEvent: what has happened is compared with what is registered
\* as a whole.
SkipUnlessAll(p, r) ==
    /\ Running /\ r \in batch[p]
    /\ type[r.fd] # RealEvents(r) \/ CtlFails(r.fd, type[r.fd])
    /\ batch' = [batch EXCEPT ![p] = @ \ {r}]
    /\ UNCHANGED <<type, holder, size, pending, status, interest, kernelVars,
                   ready, closing, torn, crash>>

\* Nothing registered any more, or epoll_ctl failed: continue.
SkipEvent(p, r) ==
    /\ Running /\ r \in batch[p]
    /\ type[r.fd] \cap RealEvents(r) = {} \/ CtlFails(r.fd, type[r.fd])
    /\ batch' = [batch EXCEPT ![p] = @ \ {r}]
    /\ UNCHANGED <<type, holder, size, pending, status, interest, kernelVars,
                   ready, closing, torn, crash>>

\* All events that happened are triggered, each of them has to be registered;
\* the rest goes back to epoll.
HandleEvent(p, r) ==
    LET fd == r.fd
        real == RealEvents(r)
    IN  /\ Running /\ r \in batch[p]
        /\ type[fd] \cap real # {} /\ ~CtlFails(fd, type[fd])
        /\ batch' = [batch EXCEPT ![p] = @ \ {r}]
        /\ Ctl(fd, type[fd] \ real)
        /\ IF real \subseteq type[fd]
           THEN Trigger(fd, real) /\ UNCHANGED crash
           ELSE crash' = "triggerEvent"
                /\ UNCHANGED <<type, holder, pending, status>>
        /\ UNCHANGED <<size, kernelVars, closing, torn>>

-----------------------------------------------------------------------------
\* The peer, and the calls that read or write the fd.
BecomesReady(fd, e) ==
    /\ Running /\ e \notin level[fd]
    /\ level' = [level EXCEPT ![fd] = @ \cup {e}]
    /\ ready' = IF interest[fd] # None /\ e \in interest[fd]
                THEN ready \cup {fd} ELSE ready
    /\ UNCHANGED <<type, holder, size, pending, status, interest, hangup,
                   batch, closing, torn, crash>>

UsedUp(fd, e) ==
    /\ Running /\ e \in level[fd] /\ ~hangup[fd]
    /\ level' = [level EXCEPT ![fd] = @ \ {e}]
    /\ UNCHANGED <<type, holder, size, pending, status, interest, hangup,
                   ready, batch, closing, torn, crash>>

HangsUp(fd) ==
    /\ Running /\ ~hangup[fd]
    /\ level' = [level EXCEPT ![fd] = Events]
    /\ hangup' = [hangup EXCEPT ![fd] = TRUE]
    /\ ready' = IF interest[fd] # None THEN ready \cup {fd} ELSE ready
    /\ UNCHANGED <<type, holder, size, pending, status, interest, batch,
                   closing, torn, crash>>

Register == \E w \in Waiters, fd \in Fds, e \in Events : AddEvent(w, fd, e)
Withdraw == \E fd \in Fds, e \in Events :
                DelEvent(fd, e) \/ CancelEvent(fd, e)
Poll(p)  == EpollWait(p) \/ \E r \in batch[p] : SkipEvent(p, r) \/ HandleEvent(p, r)
Environment == \E fd \in Fds : \/ \E e \in Events : BecomesReady(fd, e) \/ UsedUp(fd, e)
                               \/ HangsUp(fd)

Next ==
    \/ Register \/ Withdraw
    \/ \E fd \in Fds : CloseCancels(fd) \/ CloseFd(fd)
    \/ \E w \in Waiters : Resume(w)
    \/ \E p \in Pollers : Poll(p)
    \/ Environment
    \/ ~Running /\ UNCHANGED vars

Spec == Init /\ [][Next]_vars

\* Threads go on polling.
FairSpec == Spec /\ \A p \in Pollers : WF_vars(Poll(p))
==============================================================================
