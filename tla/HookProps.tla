----------------------------- MODULE HookProps -----------------------------
(* What the hooked calls promise, in module HookIO. *)
EXTENDS HookIO

\* The calls of the instance TLC checks.
ReadAndConnect == {<<"io", "READ">>, <<"connect", "WRITE">>}
Reads == {<<"io", "READ">>}

\* The socket an FdCtx was made for is the one its number stands for, although
\* a number is used again by another thread as soon as close_f returns: socket
\* never finds the context of a closed socket, and close never deletes the one
\* of its successor (Hook.cc:347-361, FdManager.cc:75-135).  Closing on a thread
\* without hooks is the exception: the context stays, and even a hooked close of
\* the number may pass by a socket call that finds it, or makes another.
CtxOfThisSocket ==
    \A fd \in Fds \ around :
        inode[fd] # 0 /\ ~Handling("socket", fd) /\ ~Handling("close", fd)
            => ctx[fd] # None /\ ctx[fd].inode = inode[fd]

\* A hooked call never blocks its thread: as long as the fd is the socket it was
\* made for, O_NONBLOCK is on, whatever fcntl was told.  ioctl(FIONBIO, 0) and a
\* close without hooks undo this, and a fiber woken by close may meet a new
\* socket that has no FdCtx yet.
NeverBlocks ==
    \A f \in Fibers :
        pc[f] = "blocked" =>
            call[f].fd \in around \/ call[f].inode # inode[call[f].fd]

\* A call leaves nothing behind: a fiber that is not waiting is held by no
\* event and has no timer, on every way out of do_io and connect_with_timeout
\* (timeout, error of addEvent, data, close); and one that is waiting is held by
\* one event or is about to be resumed.  As long as the process has not died of
\* an index out of m_fd_contexts.
HeldAt(f) == {x \in Fds \X Events : holder[x[1]][x[2]] = f}
NothingLeftBehind ==
    Running =>
        \A f \in Fibers :
            /\ f \in armed => pc[f] \in {"add", "wait", "asleep"}
            /\ HeldAt(f) # {} => pc[f] = "wait"
            /\ pc[f] = "wait" =>
                   Cardinality(HeldAt(f)) = IF status[f] = "queued" THEN 0 ELSE 1

Timed(f) == f \in armed \/ \E t \in tasks : t.fiber = f /\ t.live

\* A fiber that waits with a timeout does not wait for ever, whatever happens
\* to the event: the timer finds the event and wakes it.  Not if the fd was
\* closed under a registered event (torn), nor if an earlier timer of the same
\* call has expired: that is what TimeoutHonoured is about.
TimedWaitEnds ==
    \A f \in Fibers :
        pc[f] = "wait" /\ Timed(f) /\ f \notin canceled
            ~> pc[f] # "wait" \/ torn # {} \/ ~Running

\* A sleeping fiber is woken.
SleepEnds == \A f \in Sleepers : pc[f] = "asleep" ~> pc[f] # "asleep" \/ ~Running

\* Every wait that has a timer ends (Hook.cc:124-149, 163-190, 248-275), if
\* expired timers are taken: they are while the TimerManager has a later timer.
\* A timer alone need not be, and then the fiber waits for ever (Timer.cc:141).
WaitsEnd == TimersTaken => TimedWaitEnds /\ SleepEnds

\* What a timeout is for (Hook.cc:124-133, 143-149: if it expires the call
\* returns ETIMEDOUT): a wait of a call with a timeout ends, if expired timers are
\* taken.
TimeoutHonoured ==
    TimersTaken =>
        \A f \in Fibers :
            pc[f] = "wait" /\ call[f].timed
                ~> pc[f] # "wait" \/ torn # {} \/ ~Running
==============================================================================
