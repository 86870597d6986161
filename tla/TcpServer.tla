----------------------------- MODULE TcpServer -----------------------------
(***************************************************************************)
(* TcpServer (Tcp_server.cc) and the listening sockets it owns (Socket.cc): *)
(* bind, start, the accept loops, stop.  The loops and the lambda of stop   *)
(* are tasks of the accept worker; a task that waits for a client gives     *)
(* its thread back and is resumed by an event or by cancelAll.  The         *)
(* hooked accept and close are those of module HookIO, seen from here.      *)
(***************************************************************************)
EXTENDS Integers, Sequences, SequencesExt, FiniteSets

CONSTANTS
    Listeners,   \* addresses, and the sockets that listen on them
    Binds,       \* lists of addresses that bind is called with
    MaxClients,  \* bound: clients that wait at a socket at one time
    MaxThreads,  \* the accept worker has 1..MaxThreads threads
    MaxStarts    \* bound: calls of start, and of stop

ASSUME ServerAssumption ==
    /\ \A ls \in Binds : ls \in Seq(Listeners)
    /\ MaxClients \in Nat /\ MaxThreads \in Nat \ {0} /\ MaxStarts \in Nat

\* The n-th start makes a loop for each listener, the n-th stop a lambda.
Loops == {[n |-> n, sock |-> l] : n \in 1..MaxStarts, l \in Listeners}
Stoppers == 1..MaxStarts

VARIABLES
    threads,   \* threads of the accept worker (chosen once)
    isStop,    \* m_isStop
    socks,     \* m_socks
    listening, \* sockets that are bound and not closed
    closing,   \* those whose FdCtx is marked by close, and gone then
    valid,     \* sockets whose m_sockfd is not -1
    starts, stops, \* calls so far
    loop,      \* where each accept loop is
    stopper,   \* where each lambda is: a step and an index of m_socks
    knocking,  \* clients the system has connected and nobody accepted
    late,      \* per loop that runs: clients accepted since m_isStop was set (history)
    twice,     \* a number has been closed twice (history)
    wild       \* m_socks was changed under a loop over it: all is undefined

\* The prefix of these names lets a module extend both servers.
life == <<threads, isStop, socks, starts, stops, wild>>
fds  == <<listening, closing, valid, twice>>
tcpVars == <<life, fds, loop, stopper, knocking, late>>

TcpInit ==
    /\ threads \in 1..MaxThreads
    /\ isStop = TRUE /\ socks = <<>>
    /\ listening = {} /\ closing = {} /\ valid = {}
    /\ starts = 0 /\ stops = 0
    /\ loop = [t \in Loops |-> "none"]
    /\ stopper = [s \in Stoppers |-> [at |-> "none", i |-> 1]]
    /\ knocking = [l \in Listeners |-> 0] /\ late = [t \in Loops |-> 0]
    /\ twice = FALSE /\ wild = FALSE

Off == {"none", "queued", "waiting", "woken", "done"}
FreeThread ==
    Cardinality({t \in Loops : loop[t] \notin Off})
        + Cardinality({s \in Stoppers : stopper[s].at \notin Off}) < threads

GotoLoop(t, label) == loop' = [loop EXCEPT ![t] = label]

-----------------------------------------------------------------------------
\* bind: every address, or none.  The users of the class bind before they start.
\* The sockets that were bound earlier go with those of a call that fails.
Bind(ls) ==
    /\ isStop /\ starts = 0
    /\ \A i \in DOMAIN ls : ls[i] \notin listening \cup closing
    /\ \/ /\ IsInjective(ls)
          /\ socks' = socks \o ls /\ listening' = listening \cup ToSet(ls)
          /\ valid' = valid \cup ToSet(ls)
          /\ UNCHANGED knocking
       \/ /\ socks' = <<>> /\ listening' = listening \ ToSet(socks)
          /\ valid' = valid \ ToSet(socks)
          /\ knocking' = [l \in Listeners |-> IF l \in ToSet(socks) THEN 0 ELSE knocking[l]]
    /\ UNCHANGED <<threads, isStop, closing, starts, stops, loop, stopper, late, twice, wild>>

\* Lambdas of stop that are at work on m_socks, and those still in the loop over it.
AtWork    == {s \in Stoppers : stopper[s].at \notin {"none", "queued", "done"}}
Iterating == {s \in AtWork : stopper[s].i <= Len(socks)}

Started ==
    /\ isStop /\ starts < MaxStarts
    /\ isStop' = FALSE /\ starts' = starts + 1
    /\ late' = [t \in Loops |-> 0]

\* start: a loop for each listening socket.
Start ==
    /\ Started
    /\ loop' = [t \in Loops |-> IF t.n = starts' /\ t.sock \in ToSet(socks)
                                THEN "queued" ELSE loop[t]]
    /\ UNCHANGED <<threads, socks, stops, wild, fds, stopper, knocking>>

\* A lambda of an earlier stop clears m_socks while start goes through it.
StartTramples ==
    /\ Started /\ AtWork # {}
    /\ wild' = TRUE
    /\ UNCHANGED <<threads, socks, stops, fds, loop, stopper, knocking>>

\* Mutant of Stop: the flag is set, and the loops are left where they wait.
StopOnlyFlags ==
    /\ ~isStop /\ stops < MaxStarts
    /\ isStop' = TRUE /\ stops' = stops + 1
    /\ UNCHANGED <<threads, socks, starts, wild, fds, loop, stopper, knocking, late>>

\* stop: the flag, and a task of the accept worker for the rest.
Stop ==
    /\ ~isStop /\ stops < MaxStarts
    /\ isStop' = TRUE /\ stops' = stops + 1
    /\ stopper' = [stopper EXCEPT ![stops'].at = "queued"]
    /\ UNCHANGED <<threads, socks, starts, wild, fds, loop, knocking, late>>

-----------------------------------------------------------------------------
\* A thread of the accept worker takes a loop that was pushed or woken.
RunLoop(t) ==
    /\ loop[t] \in {"queued", "woken"} /\ FreeThread
    /\ GotoLoop(t, IF loop[t] = "queued" THEN "check" ELSE "retry")
    /\ UNCHANGED <<life, fds, stopper, knocking, late>>

\* Mutant of Check: the loop does not look at m_isStop.
CheckNot(t) ==
    /\ loop[t] = "check"
    /\ GotoLoop(t, "accept")
    /\ UNCHANGED <<life, fds, stopper, knocking, late>>

\* while(!m_isStop)
Check(t) ==
    /\ loop[t] = "check"
    /\ GotoLoop(t, IF isStop THEN "done" ELSE "accept")
    /\ late' = [late EXCEPT ![t] = IF isStop THEN 0 ELSE @]
    /\ UNCHANGED <<life, fds, stopper, knocking>>

\* accept finds a client, which goes to the I/O worker ...
AcceptClient(t) ==
    /\ loop[t] \in {"accept", "retry"} /\ knocking[t.sock] > 0
    /\ t.sock \in listening
    /\ knocking' = [knocking EXCEPT ![t.sock] = @ - 1]
    /\ late' = [late EXCEPT ![t] = IF isStop THEN @ + 1 ELSE @]
    /\ GotoLoop(t, "check")
    /\ UNCHANGED <<life, fds, stopper>>

\* ... or is dropped, because init finds no FdCtx for it, and its number stays
\* open, ...
AcceptDrops(t) ==
    /\ loop[t] \in {"accept", "retry"} /\ knocking[t.sock] > 0
    /\ t.sock \in listening
    /\ knocking' = [knocking EXCEPT ![t.sock] = @ - 1]
    /\ GotoLoop(t, "check")
    /\ UNCHANGED <<life, fds, stopper, late>>

\* ... or fails: the socket is closed or marked, or the process has no descriptor
\* left (EMFILE), or whatever else; in any case the loop goes on at once ...
AcceptFails(t) ==
    /\ loop[t] \in {"accept", "retry"}
    /\ GotoLoop(t, "check")
    /\ UNCHANGED <<life, fds, stopper, knocking, late>>

\* ... or finds nobody (EAGAIN).
AcceptAgain(t) ==
    /\ loop[t] \in {"accept", "retry"} /\ knocking[t.sock] = 0
    /\ t.sock \in listening
    /\ loop[t] = "accept" => t.sock \notin closing
    /\ GotoLoop(t, "register")
    /\ UNCHANGED <<life, fds, stopper, knocking, late>>

\* addEvent fails for a closed descriptor and for an event that is registered
\* already (by a loop of an earlier start).
Register(t) ==
    /\ loop[t] = "register"
    /\ GotoLoop(t, IF t.sock \notin listening
                      \/ \E u \in Loops : u.sock = t.sock /\ loop[u] = "waiting"
                   THEN "check" ELSE "waiting")
    /\ UNCHANGED <<life, fds, stopper, knocking, late>>

\* The event: a client is there.
Readable(t) ==
    /\ loop[t] = "waiting" /\ t.sock \in listening /\ knocking[t.sock] > 0
    /\ GotoLoop(t, "woken")
    /\ UNCHANGED <<life, fds, stopper, knocking, late>>

-----------------------------------------------------------------------------
GotoStop(s, label) == stopper' = [stopper EXCEPT ![s].at = label]
GoesOn(s, i) == stopper' = [stopper EXCEPT ![s] = [at |-> "cancel", i |-> i]]

CancelAll(l) ==
    loop' = [t \in Loops |-> IF t.sock = l /\ loop[t] = "waiting"
                             THEN "woken" ELSE loop[t]]
Current(s) == socks[stopper[s].i]

\* A thread takes the lambda of a stop ...
RunStop(s) ==
    /\ stopper[s].at = "queued" /\ FreeThread
    /\ GotoStop(s, "cancel")
    /\ UNCHANGED <<life, fds, loop, knocking, late>>

\* ... which wakes the loop of each socket, ...
StopCancels(s) ==
    /\ stopper[s].at = "cancel" /\ s \in Iterating
    /\ CancelAll(Current(s))
    /\ GotoStop(s, "mark")
    /\ UNCHANGED <<life, fds, knocking, late>>

\* passes by one whose m_sockfd is -1 already ...
StopPasses(s) ==
    /\ stopper[s].at = "mark" /\ s \in Iterating /\ Current(s) \notin valid
    /\ GoesOn(s, stopper[s].i + 1)
    /\ UNCHANGED <<life, fds, loop, knocking, late>>

\* or closes it: the hooked close marks the FdCtx and wakes once more, ...
StopMarks(s) ==
    /\ stopper[s].at = "mark" /\ s \in Iterating /\ Current(s) \in valid
    /\ CancelAll(Current(s)) /\ closing' = closing \cup {Current(s)}
    /\ GotoStop(s, "close")
    /\ UNCHANGED <<life, listening, valid, twice, knocking, late>>

\* the system closes the number and resets the clients that knock (if another
\* lambda has closed it before, the number may be somebody else's now), ...
StopCloses(s) ==
    /\ stopper[s].at = "close" /\ s \in Iterating
    /\ listening' = listening \ {Current(s)}
    /\ twice' = (twice \/ Current(s) \notin listening)
    /\ knocking' = [knocking EXCEPT ![Current(s)] = 0]
    /\ GotoStop(s, "reset")
    /\ UNCHANGED <<life, closing, valid, loop, late>>

\* Mutant of StopResets: it moves on two places.
StopSkipsEverySecond(s) ==
    /\ stopper[s].at = "reset" /\ s \in Iterating
    /\ valid' = valid \ {Current(s)}
    /\ GoesOn(s, stopper[s].i + 2)
    /\ UNCHANGED <<life, listening, closing, twice, loop, knocking, late>>

\* m_sockfd is -1 only now, ...
StopResets(s) ==
    /\ stopper[s].at = "reset" /\ s \in Iterating
    /\ valid' = valid \ {Current(s)}
    /\ GoesOn(s, stopper[s].i + 1)
    /\ UNCHANGED <<life, listening, closing, twice, loop, knocking, late>>

\* and at the end it forgets them all.
StopClears(s) ==
    /\ stopper[s].at = "cancel" /\ stopper[s].i > Len(socks) /\ Iterating = {}
    /\ socks' = <<>>
    /\ stopper' = [stopper EXCEPT ![s] = [at |-> "done", i |-> 1]]
    /\ UNCHANGED <<threads, isStop, starts, stops, wild, fds, loop, knocking, late>>

\* It does so while another lambda goes through m_socks, or clears it, too.
StopTramples(s) ==
    /\ stopper[s].at = "cancel" /\ stopper[s].i > Len(socks) /\ AtWork # {s}
    /\ wild' = TRUE
    /\ UNCHANGED <<threads, isStop, socks, starts, stops, fds, loop, stopper, knocking,
                   late>>

-----------------------------------------------------------------------------
\* A client connects to a socket that listens.
Knock(l) ==
    /\ l \in listening /\ knocking[l] < MaxClients
    /\ knocking' = [knocking EXCEPT ![l] = @ + 1]
    /\ UNCHANGED <<life, fds, loop, stopper, late>>

LoopStep(t) ==
    \/ RunLoop(t) \/ Check(t) \/ AcceptClient(t) \/ AcceptDrops(t)
    \/ AcceptFails(t) \/ AcceptAgain(t) \/ Register(t) \/ Readable(t)

StopStep(s) ==
    \/ RunStop(s) \/ StopCancels(s) \/ StopPasses(s) \/ StopMarks(s)
    \/ StopCloses(s) \/ StopResets(s) \/ StopClears(s) \/ StopTramples(s)

TcpNext ==
    /\ ~wild
    /\ \/ Start \/ StartTramples \/ Stop \/ \E ls \in Binds : Bind(ls)
       \/ \E l \in Listeners : Knock(l)
       \/ \E t \in Loops : LoopStep(t)
       \/ \E s \in Stoppers : StopStep(s)

TcpSpec == TcpInit /\ [][TcpNext]_tcpVars

\* The accept worker runs its tasks, and a loop that was pushed or woken gets a
\* thread in its turn, as often as threads become free (the worker's list is a
\* queue); nobody has to call start or stop.
TcpFairSpec ==
    /\ TcpSpec
    /\ \A t \in Loops :
           WF_tcpVars(~wild /\ LoopStep(t)) /\ SF_tcpVars(~wild /\ RunLoop(t))
    /\ \A s \in Stoppers :
           WF_tcpVars(~wild /\ StopStep(s))
==============================================================================
