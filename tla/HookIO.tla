------------------------------- MODULE HookIO -------------------------------
(***************************************************************************)
(* The hooked system calls (Hook.cc) and the FdCtx they use                *)
(* (FdManager.cc): do_io with its retries and its condition timer,         *)
(* connect_with_timeout, sleep, socket, close, fcntl, ioctl, setsockopt.   *)
(* The events are those of module IOEvents, whose actions are steps of     *)
(* this module; an armed timer may expire at any time, and its callback is *)
(* a task that some thread runs later.                                     *)
(*                                                                         *)
(* addEvent and YieldToHold are one step (what can happen between them is  *)
(* in module Scheduler).  A call that EINTR interrupts is repeated at      *)
(* once and not modelled.                                                  *)
(***************************************************************************)
EXTENDS Integers, FiniteSets

CONSTANTS
    Fds,       \* file descriptors (numbers)
    Fibers,    \* fibers that make hooked calls
    Sleepers,  \* those that call sleep
    Kinds,     \* the calls made: pairs of "io" or "connect" and an event
    Timeouts,  \* events that get a timeout by setsockopt
    MaxChanges, \* bound: calls of fcntl and ioctl, unhooked closes
    MaxStale,  \* bound: callbacks of finished calls a fiber leaves to be run
    Size0,     \* size of m_fd_contexts
    MaxOpens,  \* bound: sockets ever opened
    None       \* no fiber, no FdCtx, no epoll entry

\* An FdCtx: the socket it was made for, what fcntl or ioctl said, and the
\* events that have a timeout.
FdCtx == [inode : 0..MaxOpens, user : BOOLEAN, closed : BOOLEAN,
          timed : SUBSET {"READ", "WRITE"}]

ASSUME HookAssumption ==
    /\ MaxOpens \in Nat /\ MaxChanges \in Nat /\ MaxStale \in Nat
    /\ None \notin Fibers /\ None \notin Fds /\ None \notin FdCtx
    /\ Sleepers \subseteq Fibers
    /\ Kinds \subseteq {"io", "connect"} \X {"READ", "WRITE"}
    /\ Timeouts \subseteq {"READ", "WRITE"}

VARIABLES type, holder, size, pending, status, interest, level, hangup, ready,
          batch, closing, torn, crash

Ev == INSTANCE IOEvents WITH Waiters <- Fibers, Pollers <- {}
Events == Ev!Events

VARIABLES
    inode,    \* the socket a number stands for (0: none)
    opened,   \* sockets opened so far (bounded by MaxOpens)
    nonblock, \* O_NONBLOCK of the socket
    ctx,      \* FdManager::m_datas
    pc,       \* where a fiber is
    call,     \* the hooked call it is in
    armed,    \* fibers whose Timer is in the TimerManager
    tasks,    \* callbacks of expired timers, not run yet
    canceled, \* timer_info::canceled of the call
    changes,  \* calls bounded by MaxChanges so far
    around    \* fds changed behind the back of their FdCtx (history)

evVars   == <<type, holder, size, pending, status, interest, level, hangup,
              ready, batch, closing, torn, crash>>
fdVars   == <<inode, opened, nonblock, ctx, changes, around>>
waitVars == <<armed, tasks, canceled>>
vars == <<evVars, fdVars, waitVars, pc, call>>

NoCall == [op |-> "none", fd |-> None, ev |-> None, inode |-> 0, timed |-> FALSE]

Init ==
    /\ Ev!Init
    /\ inode = [fd \in Fds |-> 0] /\ opened = 0
    /\ nonblock = [fd \in Fds |-> FALSE]
    /\ ctx = [fd \in Fds |-> None]
    /\ pc = [f \in Fibers |-> "idle"] /\ call = [f \in Fibers |-> NoCall]
    /\ armed = {} /\ tasks = {} /\ canceled = {}
    /\ changes = 0 /\ around = {}

Running == crash = "no"
Change == changes < MaxChanges /\ changes' = changes + 1
Goto(f, label) == pc' = [pc EXCEPT ![f] = label]

-----------------------------------------------------------------------------
\* The FdCtx of a number counts for fcntl and ioctl while it is not closed.
InUse(fd) == ctx[fd] # None /\ ~ctx[fd].closed

\* socket(), and accept() once it has its new descriptor: the system gives a
\* number that is free ...
SocketCall(f, fd) ==
    /\ Running /\ pc[f] = "idle" /\ inode[fd] = 0 /\ opened < MaxOpens
    /\ opened' = opened + 1
    /\ inode' = [inode EXCEPT ![fd] = opened']
    /\ nonblock' = [nonblock EXCEPT ![fd] = FALSE]
    /\ call' = [call EXCEPT ![f] = [NoCall EXCEPT !.op = "socket", !.fd = fd,
                                                  !.inode = opened']]
    /\ Goto(f, "create")
    /\ UNCHANGED <<evVars, ctx, changes, around, waitVars>>

NewCtx(fd) == [inode |-> inode[fd], user |-> FALSE, closed |-> FALSE, timed |-> {}]

\* ... and FdMgr::get(fd, true) finds a context or makes one, which turns on
\* O_NONBLOCK (FdCtx::init).
CreateCtx(f) ==
    LET fd == call[f].fd IN
    /\ Running /\ pc[f] = "create"
    /\ IF ctx[fd] # None
       THEN UNCHANGED <<ctx, nonblock>>
       ELSE /\ ctx' = [ctx EXCEPT ![fd] = NewCtx(fd)]
            /\ nonblock' = [nonblock EXCEPT ![fd] = TRUE]
    /\ Goto(f, "idle") /\ call' = [call EXCEPT ![f] = NoCall]
    /\ UNCHANGED <<evVars, inode, opened, changes, around, waitVars>>

\* close(): the FdCtx is marked and the waiting fibers are woken ...
CloseBegin(f, fd) ==
    /\ pc[f] = "idle" /\ InUse(fd) /\ inode[fd] # 0
    /\ Ev!CloseCancels(fd)
    /\ ctx' = [ctx EXCEPT ![fd].closed = TRUE]
    /\ call' = [call EXCEPT ![f] = [NoCall EXCEPT !.op = "close", !.fd = fd]]
    /\ Goto(f, "del")
    /\ UNCHANGED <<inode, opened, nonblock, changes, around, waitVars>>

\* Mutant of CloseDel: the context is marked as closed, but kept.
CloseKeepsCtx(f) ==
    /\ Running /\ pc[f] = "del"
    /\ Goto(f, "close")
    /\ UNCHANGED <<evVars, fdVars, waitVars, call>>

\* ... FdMgr::del ...
CloseDel(f) ==
    LET fd == call[f].fd IN
    /\ Running /\ pc[f] = "del"
    /\ ctx' = [ctx EXCEPT ![fd] = None]
    /\ Goto(f, "close")
    /\ UNCHANGED <<evVars, inode, opened, nonblock, changes, around, waitVars, call>>

\* A fiber is making a socket with the number fd, or closing it.
Handling(op, fd) == \E f \in Fibers : call[f].op = op /\ call[f].fd = fd
HandledBy(f, fd) == call[f].fd = fd /\ call[f].op \in {"socket", "close"}

\* ... and only then close_f gives the number back.  If it has no FdCtx and
\* nobody else is making or closing a socket with it, it is as good as new.
CloseSys(f) ==
    LET fd == call[f].fd IN
    /\ pc[f] = "close"
    /\ Ev!CloseFd(fd)
    /\ inode' = [inode EXCEPT ![fd] = 0]
    /\ around' = IF ctx[fd] = None /\ \A g \in Fibers \ {f} : ~HandledBy(g, fd)
                 THEN around \ {fd} ELSE around
    /\ Goto(f, "idle") /\ call' = [call EXCEPT ![f] = NoCall]
    /\ UNCHANGED <<opened, nonblock, ctx, changes, waitVars>>

\* close() on a thread without hooks is close_f alone.
UnhookedClose(fd) ==
    /\ Change
    /\ Running /\ inode[fd] # 0 /\ fd \notin closing /\ InUse(fd)
    /\ interest' = [interest EXCEPT ![fd] = None]
    /\ level' = [level EXCEPT ![fd] = {}] /\ hangup' = [hangup EXCEPT ![fd] = FALSE]
    /\ ready' = ready \ {fd}
    /\ torn' = IF type[fd] = {} THEN torn ELSE torn \cup {fd}
    /\ inode' = [inode EXCEPT ![fd] = 0]
    /\ around' = around \cup {fd}
    /\ UNCHANGED <<type, holder, size, pending, status, batch, closing, crash,
                   opened, nonblock, ctx, waitVars, pc, call>>

-----------------------------------------------------------------------------
\* setsockopt(SO_RCVTIMEO or SO_SNDTIMEO): the FdCtx keeps it.  No value turns
\* it off again: 0 is a timeout of no time.
SetTimeout(fd, e) ==
    /\ Running /\ inode[fd] # 0 /\ ctx[fd] # None /\ e \notin ctx[fd].timed
    /\ ctx' = [ctx EXCEPT ![fd].timed = @ \cup {e}]
    /\ UNCHANGED <<evVars, inode, opened, nonblock, changes, around, waitVars, pc, call>>

\* Mutant of SetFlags: the flag the user asks for goes to the system as it is.
SetFlagsAsAsked(fd, flag) ==
    /\ Change
    /\ Running /\ inode[fd] # 0 /\ InUse(fd)
    /\ ctx' = [ctx EXCEPT ![fd].user = flag]
    /\ nonblock' = [nonblock EXCEPT ![fd] = flag]
    /\ UNCHANGED <<evVars, inode, opened, around, waitVars, pc, call>>

\* fcntl(F_SETFL): the flag is kept for the user and the socket stays
\* nonblocking.  The argument is read from a va_list that was never started:
\* it may be anything.
SetFlags(fd, flag) ==
    /\ Change
    /\ Running /\ inode[fd] # 0 /\ InUse(fd)
    /\ ctx' = [ctx EXCEPT ![fd].user = flag]
    /\ nonblock' = [nonblock EXCEPT ![fd] = TRUE]
    /\ UNCHANGED <<evVars, inode, opened, around, waitVars, pc, call>>

\* ioctl(FIONBIO): kept for the user as well, and passed on unchanged.
SetNonblocking(fd, flag) ==
    /\ Change
    /\ Running /\ inode[fd] # 0 /\ InUse(fd)
    /\ ctx' = [ctx EXCEPT ![fd].user = flag]
    /\ nonblock' = [nonblock EXCEPT ![fd] = flag]
    /\ around' = IF flag THEN around ELSE around \cup {fd}
    /\ UNCHANGED <<evVars, inode, opened, waitVars, pc, call>>

-----------------------------------------------------------------------------
\* The fiber returns from the call: its timer_info goes, and callbacks that
\* still refer to it will find the weak_ptr expired.
Forget(f) ==
    /\ call' = [call EXCEPT ![f] = NoCall]
    /\ tasks' = {[t EXCEPT !.live = @ /\ t.fiber # f] : t \in tasks}
    /\ canceled' = canceled \ {f}

Return(f) == Goto(f, "idle") /\ Forget(f)

\* do_io (every hooked read and write, accept) and connect_with_timeout: one
\* look at the FdCtx.  Without one, or when the user wants it nonblocking, the
\* system call is made and nothing else (and the call is over); a closed one is
\* EBADF.  A connect has the timeout of the configuration.
Begin(f, fd, op, e) ==
    /\ Running /\ pc[f] = "idle" /\ inode[fd] # 0
    /\ Cardinality({t \in tasks : t.fiber = f}) <= MaxStale
    /\ InUse(fd) /\ ~ctx[fd].user
    /\ call' = [call EXCEPT ![f] =
           [op |-> op, fd |-> fd, ev |-> e, inode |-> inode[fd],
            timed |-> op = "connect" \/ e \in ctx[fd].timed]]
    /\ Goto(f, "sys")
    /\ UNCHANGED <<evVars, fdVars, waitVars>>

\* The system call has a result: data, the end of the stream, a reset, or
\* EBADF; a connect has succeeded or failed at once.
SysReturns(f) ==
    LET c == call[f] IN
    /\ Running /\ pc[f] \in {"sys", "blocked"}
    /\ inode[c.fd] = 0 \/ c.ev \in level[c.fd] \/ c.op = "connect"
    /\ \/ level' = level
       \/ /\ c.op = "io" /\ ~hangup[c.fd]
          /\ level' = [level EXCEPT ![c.fd] = @ \ {c.ev}]
    /\ Return(f)
    /\ UNCHANGED <<type, holder, size, pending, status, interest, hangup, ready,
                   batch, closing, torn, crash, fdVars, armed>>

\* It would block although the hook relies on O_NONBLOCK: the thread hangs.
SysBlocks(f) ==
    /\ Running /\ pc[f] = "sys" /\ inode[call[f].fd] # 0
    /\ ~nonblock[call[f].fd] /\ call[f].ev \notin level[call[f].fd]
    /\ Goto(f, "blocked")
    /\ UNCHANGED <<evVars, fdVars, waitVars, call>>

\* EAGAIN (EINPROGRESS for a connect): a condition timer is added if there is
\* a timeout.
SysAgain(f) ==
    /\ Running /\ pc[f] = "sys" /\ inode[call[f].fd] # 0
    /\ nonblock[call[f].fd]
    /\ call[f].ev \notin level[call[f].fd] \/ call[f].op = "connect"
    /\ armed' = IF call[f].timed THEN armed \cup {f} ELSE armed
    /\ Goto(f, "add")
    /\ UNCHANGED <<evVars, fdVars, tasks, canceled, call>>

\* addEvent fails when somebody waits for the event already, when the number is
\* closed, or when epoll knows nothing of an fd that has events.
AddFails(fd, e) == inode[fd] = 0 \/ e \in type[fd] \/ Ev!CtlFails(fd, type[fd])

\* addEvent, and the fiber yields.
Wait(f) ==
    /\ pc[f] = "add" /\ ~AddFails(call[f].fd, call[f].ev)
    /\ Ev!AddEvent(f, call[f].fd, call[f].ev)
    /\ Goto(f, "wait")
    /\ UNCHANGED <<fdVars, waitVars, call>>

\* Mutant of WaitFails: the timer is left armed.
WaitFailsKeepsTimer(f) ==
    /\ Running /\ pc[f] = "add" /\ AddFails(call[f].fd, call[f].ev)
    /\ Return(f)
    /\ UNCHANGED <<evVars, fdVars, armed>>

\* addEvent fails: the timer is canceled and the call returns -1.
WaitFails(f) ==
    /\ Running /\ pc[f] = "add" /\ AddFails(call[f].fd, call[f].ev)
    /\ armed' = armed \ {f}
    /\ Return(f)
    /\ UNCHANGED <<evVars, fdVars>>

\* The fiber is resumed and cancels the timer.  It returns ETIMEDOUT if the
\* timer was first; otherwise do_io tries again, and connect asks for SO_ERROR.
Wake(f) ==
    /\ pc[f] = "wait"
    /\ Ev!Resume(f)
    /\ armed' = armed \ {f}
    /\ IF f \in canceled \/ call[f].op = "connect"
       THEN Return(f)
       ELSE Goto(f, "sys") /\ UNCHANGED <<tasks, canceled, call>>
    /\ UNCHANGED fdVars

\* sleep, usleep, nanosleep: a timer whose callback pushes the fiber.
Sleep(f) ==
    /\ Running /\ pc[f] = "idle"
    /\ call' = [call EXCEPT ![f] = [NoCall EXCEPT !.op = "sleep"]]
    /\ armed' = armed \cup {f}
    /\ Goto(f, "asleep")
    /\ UNCHANGED <<evVars, fdVars, tasks, canceled>>

WakeFromSleep(f) ==
    /\ pc[f] = "asleep"
    /\ Ev!Resume(f)
    /\ Return(f)
    /\ UNCHANGED <<fdVars, armed>>

\* The timer expires: its callback becomes a task.  It may do so at any time,
\* but that it does in the end is not certain (see TimersTaken).
Expire(f) ==
    /\ Running /\ f \in armed
    /\ armed' = armed \ {f}
    /\ tasks' = tasks \cup {[fiber |-> f, op |-> call[f].op, fd |-> call[f].fd,
                             ev |-> call[f].ev, live |-> TRUE]}
    /\ UNCHANGED <<evVars, fdVars, canceled, pc, call>>

-----------------------------------------------------------------------------
\* cancelEvent as a call: nothing happens when the event is not registered or
\* epoll_ctl fails.
Cancelable(fd, e) ==
    fd < size /\ e \in type[fd] /\ ~Ev!CtlFails(fd, type[fd])

CancelEvent(fd, e) ==
    IF Cancelable(fd, e) THEN Ev!CancelEvent(fd, e) ELSE UNCHANGED evVars

\* The callback of a sleeper pushes it.
RunSleepTask(t) ==
    /\ Running /\ t \in tasks /\ t.op = "sleep"
    /\ tasks' = tasks \ {t}
    /\ status' = [status EXCEPT ![t.fiber] = "queued"]
    /\ UNCHANGED <<type, holder, size, pending, interest, level, hangup, ready,
                   batch, closing, torn, crash, fdVars, armed, canceled, pc, call>>

\* Mutant of RunTimeout: the fiber is told, but not woken.
RunTimeoutSilent(t) ==
    /\ Running /\ t \in tasks /\ t.op # "sleep"
    /\ tasks' = tasks \ {t}
    /\ canceled' = IF t.live THEN canceled \cup {t.fiber} ELSE canceled
    /\ UNCHANGED <<evVars, fdVars, armed, pc, call>>

\* The callback of a condition timer: if the call is still there and has not
\* timed out yet it does so now, and whoever waits for the event is woken.
RunTimeout(t) ==
    /\ Running /\ t \in tasks /\ t.op # "sleep"
    /\ tasks' = tasks \ {t}
    /\ IF t.live /\ t.fiber \notin canceled
       THEN /\ canceled' = canceled \cup {t.fiber}
            /\ CancelEvent(t.fd, t.ev)
       ELSE UNCHANGED <<evVars, canceled>>
    /\ UNCHANGED <<fdVars, armed, pc, call>>

-----------------------------------------------------------------------------
Calls(f) ==
    \/ \E fd \in Fds : \/ SocketCall(f, fd) \/ CloseBegin(f, fd)
                       \/ \E k \in Kinds : Begin(f, fd, k[1], k[2])
    \/ f \in Sleepers /\ Sleep(f)

\* What a fiber inside a call does as soon as it is scheduled.
Step(f) ==
    \/ CreateCtx(f) \/ CloseDel(f) \/ CloseSys(f)
    \/ SysReturns(f) \/ SysBlocks(f) \/ SysAgain(f)
    \/ Wait(f) \/ WaitFails(f) \/ Wake(f) \/ WakeFromSleep(f)

RunTask(f) == \E t \in tasks : t.fiber = f /\ (RunSleepTask(t) \/ RunTimeout(t))

Options(fd) ==
    \/ \E e \in Timeouts : SetTimeout(fd, e)
    \/ \E flag \in BOOLEAN : SetFlags(fd, flag) \/ SetNonblocking(fd, flag)

\* Idle: epoll reports the fd and what has happened is triggered, in one step
\* (what may come in between is in module IOEvents).
Deliver(fd) ==
    LET real == level[fd] \cap type[fd] IN
    /\ Running /\ fd \in ready /\ real # {} /\ ~Ev!CtlFails(fd, type[fd])
    /\ Ev!Ctl(fd, type[fd] \ real)
    /\ Ev!Trigger(fd, real)
    /\ UNCHANGED <<size, level, hangup, batch, closing, torn, crash,
                   fdVars, waitVars, pc, call>>

\* The peer.
Environment(fd) ==
    /\ inode[fd] # 0
    /\ \E e \in Events : Ev!BecomesReady(fd, e)
    /\ UNCHANGED <<fdVars, waitVars, pc, call>>

Next ==
    \/ \E f \in Fibers : Calls(f) \/ Step(f) \/ Expire(f) \/ RunTask(f)
    \/ \E fd \in Fds : UnhookedClose(fd) \/ Options(fd) \/ Environment(fd)
    \/ \E fd \in Fds : Deliver(fd)

Spec == Init /\ [][Next]_vars

\* Fibers run, and so do the callbacks of expired timers.
TimerSpec == Spec /\ \A f \in Fibers : WF_vars(Step(f)) /\ WF_vars(RunTask(f))

\* A timer that stays armed expires in the end.  This is no fairness of the code:
\* listExpiredCb takes every expired timer as long as a later one is in the set
\* (LaterTimerHelps of TimerProps), and never the last of a set in which all
\* have expired (Increment of TimerManager).
TimersTaken == \A f \in Fibers : WF_vars(Expire(f))

\* And Idle delivers the events that have come.
FairSpec == TimerSpec /\ \A fd \in Fds : WF_vars(Deliver(fd))
==============================================================================
