------------------------------ MODULE HookProof ------------------------------
(***************************************************************************)
(* Proofs about module HookIO: the FdCtx of a number is that of its        *)
(* socket, a hooked call never blocks its thread, and a call leaves        *)
(* neither an event nor a timer behind, for every number of descriptors,   *)
(* fibers, sockets and calls behind the hooks' back.                       *)
(*                                                                         *)
(* Three invariants are inductive one upon the other: what a fiber at each *)
(* label is doing (CallInv), who may change the FdCtx of a number and what *)
(* it is until then (CtxInv), and where the one thing is that will resume  *)
(* a waiting or sleeping fiber (WaitInv).                                  *)
(***************************************************************************)
EXTENDS HookProps, FiniteSetTheorems, TLAPS

Labels == {"idle", "create", "del", "close", "sys", "blocked", "add", "wait",
           "asleep"}
IOLabels == {"sys", "blocked", "add", "wait"}
Ops == {"none", "socket", "close", "io", "connect", "sleep"}
Call == [op : Ops, fd : Fds \cup {None}, ev : {"READ", "WRITE"} \cup {None},
         inode : 0..MaxOpens, timed : BOOLEAN]
TimerTask == [fiber : Fibers, op : Ops, fd : Fds \cup {None},
              ev : {"READ", "WRITE"} \cup {None}, live : BOOLEAN]

CallType ==
    /\ opened \in 0..MaxOpens
    /\ inode \in [Fds -> 0..MaxOpens]
    /\ nonblock \in [Fds -> BOOLEAN]
    /\ ctx \in [Fds -> FdCtx \cup {None}]
    /\ pc \in [Fibers -> Labels]
    /\ call \in [Fibers -> Call]

\* What the call of a fiber is when the fiber is at a label.
Fits(l, c, n) ==
    /\ l = "idle" => c = NoCall
    /\ l = "create" => c.op = "socket" /\ c.fd \in Fds
    /\ l \in {"del", "close"} => c.op = "close" /\ c.fd \in Fds
    /\ l = "asleep" => c.op = "sleep" /\ c.fd = None /\ c.ev = None
    /\ l \in IOLabels => /\ c.op \in {"io", "connect"}
                         /\ c.fd \in Fds /\ c.ev \in {"READ", "WRITE"}
                         /\ c.inode \in 1..n
CallAt(f) == Fits(pc[f], call[f], opened)

CallInv ==
    /\ CallType
    /\ \A f \in Fibers : CallAt(f)
    /\ \A fd \in Fds : inode[fd] <= opened

\* No fiber but f is making or closing a socket with this number.
Alone(f, fd) == \A g \in Fibers \ {f} : ~HandledBy(g, fd)

\* The FdCtx of a number, as long as nobody has changed the socket behind it: a
\* free number has none; while a socket is made or closed nobody else touches
\* it; otherwise it is that of the socket, which does not block.
CtxOf(fd) ==
    /\ inode[fd] = 0 => ctx[fd] = None /\ \A f \in Fibers : ~HandledBy(f, fd)
    /\ \A f \in Fibers :
           HandledBy(f, fd) =>
               /\ Alone(f, fd) /\ ~InUse(fd)
               /\ pc[f] \in {"create", "close"} => ctx[fd] = None
    /\ inode[fd] # 0 /\ ~Handling("socket", fd) => nonblock[fd]
    /\ inode[fd] # 0 /\ (\A f \in Fibers : ~HandledBy(f, fd))
           => ctx[fd] # None /\ ctx[fd].inode = inode[fd]
    /\ \A f \in Fibers :
           pc[f] \in IOLabels /\ call[f].fd = fd /\ call[f].inode = inode[fd]
               => ~Handling("socket", fd)

CtxInv == \A fd \in Fds \ around : CtxOf(fd)

\* Where the one thing is that will resume a fiber that waits or sleeps.
EventType ==
    /\ type \in [Fds -> SUBSET {"READ", "WRITE"}]
    /\ holder \in [Fds -> [{"READ", "WRITE"} -> Fibers \cup {None}]]
    /\ status \in [Fibers -> {"free", "waiting", "queued"}]
    /\ armed \subseteq Fibers
    /\ tasks \subseteq TimerTask

HolderInv ==
    /\ \A fd \in Fds, e \in {"READ", "WRITE"} :
           /\ holder[fd][e] # None <=> e \in type[fd]
           /\ holder[fd][e] # None => status[holder[fd][e]] = "waiting"
    /\ \A fd, gd \in Fds, e, d \in {"READ", "WRITE"} :
           holder[fd][e] = holder[gd][d] /\ holder[fd][e] # None
               => fd = gd /\ e = d

Asleep(f) == {t \in tasks : t.fiber = f /\ t.op = "sleep"}
FiberInv(f) ==
    /\ status[f] = "waiting" =>
           pc[f] = "wait" /\ \E fd \in Fds, e \in {"READ", "WRITE"} : holder[fd][e] = f
    /\ status[f] = "queued" => pc[f] \in {"wait", "asleep"}
    /\ status[f] = "free" => pc[f] # "wait"
    /\ f \in armed => pc[f] \in {"add", "wait", "asleep"}
    /\ f \in armed /\ pc[f] = "asleep" => status[f] = "free" /\ Asleep(f) = {}

TaskInv(t) ==
    IF t.op = "sleep"
    THEN /\ pc[t.fiber] = "asleep" /\ status[t.fiber] = "free"
         /\ t.fd = None /\ t.ev = None /\ t.live
    ELSE t.fd \in Fds /\ t.ev \in {"READ", "WRITE"}

WaitInv ==
    /\ EventType /\ HolderInv
    /\ \A f \in Fibers : FiberInv(f)
    /\ \A t \in tasks : TaskInv(t)

-----------------------------------------------------------------------------
LEMMA NoCallType == NoCall \in Call /\ NoCall.op = "none"
BY HookAssumption DEF NoCall, Call, Ops

\* An FdCtx is not None, and changing its parts leaves an FdCtx.
LEMMA CtxIsFdCtx ==
    ASSUME CallInv, NEW fd \in Fds, ctx[fd] # None
    PROVE  ctx[fd] \in FdCtx
BY DEF CallInv, CallType

LEMMA InitCall == Init => CallInv
<1> SUFFICES ASSUME Init PROVE CallInv
  OBVIOUS
<1>1. CallType
  BY NoCallType, HookAssumption DEF Init, CallType, Labels
<1>2. ASSUME NEW f \in Fibers PROVE CallAt(f)
  BY DEF Init, CallAt, Fits, IOLabels
<1>3. \A fd \in Fds : inode[fd] <= opened
  BY DEF Init
<1> QED BY <1>1, <1>2, <1>3 DEF CallInv

\* A step of one fiber: it goes to l with the call c.
LEMMA CallStep ==
    ASSUME CallInv, NEW f \in Fibers, NEW l \in Labels, NEW c \in Call,
           Goto(f, l), call' = [call EXCEPT ![f] = c],
           opened' \in 0..MaxOpens, opened <= opened',
           inode' \in [Fds -> 0..MaxOpens],
           \A fd \in Fds : inode'[fd] <= opened',
           nonblock' \in [Fds -> BOOLEAN],
           ctx' \in [Fds -> FdCtx \cup {None}],
           Fits(l, c, opened')
    PROVE  CallInv'
<1>1. pc \in [Fibers -> Labels] /\ call \in [Fibers -> Call]
  BY DEF CallInv, CallType
<1>2. pc' = [pc EXCEPT ![f] = l]
  BY DEF Goto
<1>3. pc' \in [Fibers -> Labels] /\ call' \in [Fibers -> Call]
  BY <1>1, <1>2
<1>4. ASSUME NEW g \in Fibers PROVE CallAt(g)'
  <2>1. CASE g = f
    <3>1. pc'[g] = l /\ call'[g] = c
      BY <1>1, <1>2, <2>1
    <3> QED BY <3>1 DEF CallAt
  <2>2. CASE g # f
    <3>1. pc'[g] = pc[g] /\ call'[g] = call[g]
      BY <1>1, <1>2, <2>2
    <3>2. CallAt(g)
      BY DEF CallInv
    <3>3. 1..opened \subseteq 1..opened'
      BY DEF CallInv, CallType
    <3> QED BY <3>1, <3>2, <3>3 DEF CallAt, Fits
  <2> QED BY <2>1, <2>2
<1> QED BY <1>3, <1>4 DEF CallInv, CallType

\* A step that changes no call.
LEMMA CallStays ==
    ASSUME CallInv, UNCHANGED <<pc, call, opened>>,
           inode' \in [Fds -> 0..MaxOpens],
           \A fd \in Fds : inode'[fd] <= opened,
           nonblock' \in [Fds -> BOOLEAN],
           ctx' \in [Fds -> FdCtx \cup {None}]
    PROVE  CallInv'
BY DEF CallInv, CallType, CallAt

\* A step within a call leaves the descriptors alone.
LEMMA CallGoesOn ==
    ASSUME CallInv, NEW f \in Fibers, NEW l \in Labels, Goto(f, l),
           UNCHANGED <<call, fdVars>>, Fits(l, call[f], opened)
    PROVE  CallInv'
<1>1. call' = [call EXCEPT ![f] = call[f]] /\ call[f] \in Call
  BY DEF CallInv, CallType
<1>2. UNCHANGED <<opened, inode, nonblock, ctx>>
  BY DEF fdVars
<1>3. /\ opened \in 0..MaxOpens /\ inode \in [Fds -> 0..MaxOpens]
      /\ nonblock \in [Fds -> BOOLEAN] /\ ctx \in [Fds -> FdCtx \cup {None}]
      /\ opened <= opened /\ \A fd \in Fds : inode[fd] <= opened
  BY DEF CallInv, CallType
<1> QED BY <1>1, <1>2, <1>3, CallStep

\* A fiber leaves its call, and the descriptors stay.
LEMMA CallReturns ==
    ASSUME CallInv, NEW f \in Fibers, Return(f), UNCHANGED fdVars
    PROVE  CallInv'
<1>1. Goto(f, "idle") /\ call' = [call EXCEPT ![f] = NoCall]
  BY DEF Return, Forget
<1>2. UNCHANGED <<opened, inode, nonblock, ctx>>
  BY DEF fdVars
<1>3. /\ opened \in 0..MaxOpens /\ inode \in [Fds -> 0..MaxOpens]
      /\ nonblock \in [Fds -> BOOLEAN] /\ ctx \in [Fds -> FdCtx \cup {None}]
      /\ opened <= opened /\ \A fd \in Fds : inode[fd] <= opened
  BY DEF CallInv, CallType
<1>4. Fits("idle", NoCall, opened) /\ "idle" \in Labels
  BY DEF Fits, IOLabels, Labels
<1> QED BY <1>1, <1>2, <1>3, <1>4, NoCallType, CallStep

LEMMA StepCall ==
    ASSUME CallInv, NEW f \in Fibers, Step(f)
    PROVE  CallInv'
<1>0. /\ CallType /\ CallAt(f)
      /\ pc[f] \in Labels /\ call[f] \in Call
      /\ \A fd \in Fds : inode[fd] <= opened
  BY DEF CallInv, CallType
<1>l. IOLabels \subseteq Labels /\ {"idle", "close"} \subseteq Labels
  BY DEF IOLabels, Labels
<1>1. CASE CreateCtx(f)
  <2> DEFINE fd == call[f].fd
  <2>1. fd \in Fds
    BY <1>0, <1>1 DEF CreateCtx, CallAt, Fits
  <2>2. /\ UNCHANGED <<inode, opened>> /\ Goto(f, "idle")
        /\ call' = [call EXCEPT ![f] = NoCall]
        /\ \/ UNCHANGED <<ctx, nonblock>>
           \/ /\ ctx' = [ctx EXCEPT ![fd] = NewCtx(fd)]
              /\ nonblock' = [nonblock EXCEPT ![fd] = TRUE]
    BY <1>1 DEF CreateCtx
  <2>3. NewCtx(fd) \in FdCtx
    BY <1>0, <2>1 DEF NewCtx, FdCtx, CallType
  <2>4. /\ ctx' \in [Fds -> FdCtx \cup {None}]
        /\ nonblock' \in [Fds -> BOOLEAN]
    BY <1>0, <2>2, <2>3 DEF CallType
  <2>5. Fits("idle", NoCall, opened')
    BY DEF Fits, IOLabels
  <2>6. opened' \in 0..MaxOpens /\ opened <= opened'
        /\ inode' \in [Fds -> 0..MaxOpens]
        /\ \A gd \in Fds : inode'[gd] <= opened'
    BY <1>0, <2>2, HookAssumption DEF CallType
  <2> QED BY <1>l, <2>2, <2>4, <2>5, <2>6, NoCallType, CallStep
<1>2. CASE CloseDel(f)
  <2> DEFINE fd == call[f].fd
  <2>1. /\ pc[f] = "del" /\ Goto(f, "close") /\ ctx' = [ctx EXCEPT ![fd] = None]
        /\ UNCHANGED <<inode, opened, nonblock, call>>
    BY <1>2 DEF CloseDel
  <2>2. ctx' \in [Fds -> FdCtx \cup {None}]
    BY <1>0, <2>1 DEF CallType
  <2>3. Fits("close", call[f], opened)
    BY <1>0, <2>1 DEF CallAt, Fits, IOLabels
  <2>4. call' = [call EXCEPT ![f] = call[f]] /\ opened <= opened'
    BY <1>0, <2>1, HookAssumption DEF CallType
  <2> QED BY <1>0, <1>l, <2>1, <2>2, <2>3, <2>4, CallStep DEF CallType
<1>3. CASE CloseSys(f)
  <2> DEFINE fd == call[f].fd
  <2>1. /\ Goto(f, "idle") /\ call' = [call EXCEPT ![f] = NoCall]
        /\ inode' = [inode EXCEPT ![fd] = 0] /\ pc[f] = "close"
        /\ UNCHANGED <<opened, nonblock, ctx>>
    BY <1>3 DEF CloseSys
  <2>2. /\ inode' \in [Fds -> 0..MaxOpens]
        /\ \A gd \in Fds : inode'[gd] <= opened'
    <3>1. inode \in [Fds -> 0..MaxOpens] /\ opened' = opened /\ opened \in Nat
          /\ MaxOpens \in Nat /\ 0 \in 0..MaxOpens
      BY <1>0, <2>1, HookAssumption DEF CallType
    <3> HIDE DEF fd
    <3>2. inode' \in [Fds -> 0..MaxOpens]
      BY <2>1, <3>1
    <3>3. ASSUME NEW gd \in Fds PROVE inode'[gd] <= opened'
      <4>1. inode'[gd] = inode[gd] \/ inode'[gd] = 0
        BY <2>1, <3>1
      <4> QED BY <1>0, <3>1, <4>1
    <3> QED BY <3>2, <3>3
  <2>3. Fits("idle", NoCall, opened)
    BY DEF Fits, IOLabels
  <2>4. opened <= opened'
    BY <1>0, <2>1, HookAssumption DEF CallType
  <2> QED BY <1>0, <1>l, <2>1, <2>2, <2>3, <2>4, NoCallType, CallStep DEF CallType
<1>4. CASE SysReturns(f)
  BY <1>4, CallReturns DEF SysReturns
<1>5. CASE SysBlocks(f)
  <2>1. Fits("blocked", call[f], opened)
    BY <1>0, <1>5 DEF SysBlocks, CallAt, Fits, IOLabels
  <2> QED BY <1>5, <1>l, <2>1, CallGoesOn DEF SysBlocks, IOLabels
<1>6. CASE SysAgain(f)
  <2>1. Fits("add", call[f], opened)
    BY <1>0, <1>6 DEF SysAgain, CallAt, Fits, IOLabels
  <2> QED BY <1>6, <1>l, <2>1, CallGoesOn DEF SysAgain, IOLabels
<1>7. CASE Wait(f)
  <2>1. Fits("wait", call[f], opened)
    BY <1>0, <1>7 DEF Wait, CallAt, Fits, IOLabels
  <2> QED BY <1>7, <1>l, <2>1, CallGoesOn DEF Wait, IOLabels
<1>8. CASE WaitFails(f)
  BY <1>8, CallReturns DEF WaitFails
<1>9. CASE Wake(f)
  <2>1. CASE Return(f)
    BY <1>9, <2>1, CallReturns DEF Wake
  <2>2. CASE Goto(f, "sys") /\ UNCHANGED call
    <3>1. Fits("sys", call[f], opened)
      BY <1>0, <1>9 DEF Wake, CallAt, Fits, IOLabels
    <3> QED BY <1>9, <1>l, <2>2, <3>1, CallGoesOn DEF Wake, IOLabels
  <2> QED BY <1>9, <2>1, <2>2 DEF Wake
<1>10. CASE WakeFromSleep(f)
  BY <1>10, CallReturns DEF WakeFromSleep
<1> QED
  BY <1>1, <1>2, <1>3, <1>4, <1>5, <1>6, <1>7, <1>8, <1>9, <1>10 DEF Step

LEMMA CallsCall ==
    ASSUME CallInv, NEW f \in Fibers, Calls(f)
    PROVE  CallInv'
<1>0. /\ CallType /\ pc[f] \in Labels /\ call[f] \in Call
      /\ \A fd \in Fds : inode[fd] <= opened
      /\ opened \in Nat /\ MaxOpens \in Nat /\ 0 \in 0..MaxOpens
  BY HookAssumption DEF CallInv, CallType
<1>1. ASSUME NEW fd \in Fds, SocketCall(f, fd)
      PROVE  CallInv'
  <2> DEFINE c == [NoCall EXCEPT !.op = "socket", !.fd = fd, !.inode = opened']
  <2>1. /\ opened < MaxOpens /\ opened' = opened + 1
        /\ inode' = [inode EXCEPT ![fd] = opened']
        /\ nonblock' = [nonblock EXCEPT ![fd] = FALSE] /\ ctx' = ctx
        /\ call' = [call EXCEPT ![f] = c] /\ Goto(f, "create")
    BY <1>1 DEF SocketCall
  <2>2. opened' \in 0..MaxOpens /\ opened <= opened'
    BY <1>0, <2>1
  <2>3. c \in Call
    BY <2>2 DEF NoCall, Call, Ops
  <2>4. Fits("create", c, opened') /\ "create" \in Labels
    BY DEF Fits, NoCall, IOLabels, Labels
  <2>5. /\ nonblock' \in [Fds -> BOOLEAN] /\ ctx' \in [Fds -> FdCtx \cup {None}]
        /\ inode' \in [Fds -> 0..MaxOpens]
    BY <1>0, <2>1, <2>2 DEF CallType
  <2>6. ASSUME NEW gd \in Fds PROVE inode'[gd] <= opened'
    <3>1. inode'[gd] = inode[gd] \/ inode'[gd] = opened'
      BY <1>0, <2>1 DEF CallType
    <3>2. inode[gd] \in 0..MaxOpens
      BY <1>0 DEF CallType
    <3> QED BY <1>0, <2>1, <3>1, <3>2
  <2> HIDE DEF c
  <2> QED BY <2>1, <2>2, <2>3, <2>4, <2>5, <2>6, CallStep
<1>2. ASSUME NEW fd \in Fds, CloseBegin(f, fd)
      PROVE  CallInv'
  <2> DEFINE c == [NoCall EXCEPT !.op = "close", !.fd = fd]
  <2>1. /\ ctx[fd] # None /\ ctx' = [ctx EXCEPT ![fd].closed = TRUE]
        /\ call' = [call EXCEPT ![f] = c] /\ Goto(f, "del")
        /\ UNCHANGED <<inode, opened, nonblock>>
    BY <1>2 DEF CloseBegin, InUse
  <2>2. c \in Call
    BY <1>0 DEF NoCall, Call, Ops
  <2>3. Fits("del", c, opened') /\ "del" \in Labels
    BY DEF Fits, NoCall, IOLabels, Labels
  <2>4. ctx' \in [Fds -> FdCtx \cup {None}]
    <3>1. ctx[fd] \in FdCtx
      BY <2>1, CtxIsFdCtx
    <3>2. [ctx[fd] EXCEPT !.closed = TRUE] \in FdCtx
      BY <3>1 DEF FdCtx
    <3> QED BY <1>0, <2>1, <3>2 DEF CallType
  <2> HIDE DEF c
  <2>5. opened' \in 0..MaxOpens /\ opened <= opened'
    BY <1>0, <2>1 DEF CallType
  <2> QED BY <1>0, <2>1, <2>2, <2>3, <2>4, <2>5, CallStep DEF CallType
<1>3. ASSUME NEW fd \in Fds, NEW k \in Kinds, Begin(f, fd, k[1], k[2])
      PROVE  CallInv'
  <2>k. k[1] \in {"io", "connect"} /\ k[2] \in {"READ", "WRITE"}
    BY HookAssumption
  <2> DEFINE c == [op |-> k[1], fd |-> fd, ev |-> k[2], inode |-> inode[fd],
                   timed |-> k[1] = "connect" \/ k[2] \in ctx[fd].timed]
  <2>1. /\ inode[fd] # 0 /\ call' = [call EXCEPT ![f] = c] /\ Goto(f, "sys")
        /\ UNCHANGED fdVars
    BY <1>3 DEF Begin
  <2>2. c \in Call
    <3>1. inode[fd] \in 0..MaxOpens
      BY <1>0 DEF CallType
    <3> QED BY <2>k, <3>1 DEF Call, Ops
  <2>3. inode[fd] \in 1..opened
    <3>1. inode[fd] \in 0..MaxOpens /\ inode[fd] <= opened
      BY <1>0 DEF CallType
    <3> QED BY <1>0, <2>1, <3>1
  <2>4. Fits("sys", c, opened) /\ "sys" \in Labels
    BY <2>k, <2>3 DEF Fits, IOLabels, Labels
  <2> HIDE DEF c
  <2>5. UNCHANGED <<inode, opened, nonblock, ctx>>
    BY <2>1 DEF fdVars
  <2>6. opened' \in 0..MaxOpens /\ opened <= opened'
    BY <1>0, <2>5 DEF CallType
  <2> QED BY <1>0, <2>1, <2>2, <2>4, <2>5, <2>6, CallStep DEF CallType
<1>4. CASE Sleep(f)
  <2> DEFINE c == [NoCall EXCEPT !.op = "sleep"]
  <2>1. /\ call' = [call EXCEPT ![f] = c] /\ Goto(f, "asleep")
        /\ UNCHANGED <<inode, opened, nonblock, ctx>>
    BY <1>4 DEF Sleep, fdVars
  <2>2. c \in Call
    BY <1>0 DEF NoCall, Call, Ops
  <2>3. Fits("asleep", c, opened) /\ "asleep" \in Labels
    BY DEF Fits, NoCall, IOLabels, Labels
  <2> HIDE DEF c
  <2>4. opened' \in 0..MaxOpens /\ opened <= opened'
    BY <1>0, <2>1 DEF CallType
  <2> QED BY <1>0, <2>1, <2>2, <2>3, <2>4, CallStep DEF CallType
<1> QED BY <1>1, <1>2, <1>3, <1>4 DEF Calls

LEMMA OptionsCall ==
    ASSUME CallInv, NEW fd \in Fds, Options(fd)
    PROVE  CallInv'
<1>0. /\ CallType /\ \A gd \in Fds : inode[gd] <= opened
  BY DEF CallInv
<1>1. UNCHANGED <<pc, call, opened, inode>> /\ ctx[fd] # None
  BY DEF Options, SetTimeout, SetFlags, SetNonblocking, InUse
<1>2. ctx[fd] \in FdCtx
  BY <1>1, CtxIsFdCtx
<1>3. ctx' \in [Fds -> FdCtx \cup {None}]
  <2>1. ASSUME NEW e \in Timeouts, SetTimeout(fd, e)
        PROVE  ctx' \in [Fds -> FdCtx \cup {None}]
    <3>1. [ctx[fd] EXCEPT !.timed = @ \cup {e}] \in FdCtx
      BY <1>2, HookAssumption DEF FdCtx
    <3> QED BY <1>0, <2>1, <3>1 DEF SetTimeout, CallType
  <2>2. ASSUME NEW flag \in BOOLEAN,
               SetFlags(fd, flag) \/ SetNonblocking(fd, flag)
        PROVE  ctx' \in [Fds -> FdCtx \cup {None}]
    <3>1. [ctx[fd] EXCEPT !.user = flag] \in FdCtx
      BY <1>2 DEF FdCtx
    <3>2. ctx' = [ctx EXCEPT ![fd].user = flag]
      BY <2>2 DEF SetFlags, SetNonblocking
    <3> QED BY <1>0, <3>1, <3>2 DEF CallType
  <2> QED BY <2>1, <2>2 DEF Options
<1>4. nonblock' \in [Fds -> BOOLEAN]
  BY <1>0 DEF Options, SetTimeout, SetFlags, SetNonblocking, CallType
<1> QED BY <1>0, <1>1, <1>3, <1>4, CallStays DEF CallType

LEMMA OthersCall ==
    ASSUME CallInv, UNCHANGED <<pc, call, opened, nonblock, ctx>>,
           inode' = inode \/ \E fd \in Fds : inode' = [inode EXCEPT ![fd] = 0]
    PROVE  CallInv'
<1>0. /\ CallType /\ opened \in Nat /\ MaxOpens \in Nat
      /\ inode \in [Fds -> 0..MaxOpens] /\ \A gd \in Fds : inode[gd] <= opened
  BY HookAssumption DEF CallInv, CallType
<1>1. CASE inode' = inode
  BY <1>0, <1>1, CallStays DEF CallType
<1>2. ASSUME NEW fd \in Fds, inode' = [inode EXCEPT ![fd] = 0]
      PROVE  CallInv'
  <2>1. inode' \in [Fds -> 0..MaxOpens]
    BY <1>0, <1>2
  <2>2. ASSUME NEW gd \in Fds PROVE inode'[gd] <= opened
    BY <1>0, <1>2
  <2> QED BY <1>0, <2>1, <2>2, CallStays DEF CallType
<1> QED BY <1>1, <1>2

LEMMA NextCall == CallInv /\ [Next]_vars => CallInv'
<1> SUFFICES ASSUME CallInv, [Next]_vars PROVE CallInv'
  OBVIOUS
<1>1. ASSUME NEW f \in Fibers, Calls(f) \/ Step(f)
      PROVE  CallInv'
  BY <1>1, CallsCall, StepCall
<1>2. ASSUME NEW f \in Fibers, Expire(f) \/ RunTask(f)
      PROVE  CallInv'
  BY <1>2, OthersCall DEF Expire, RunTask, RunSleepTask, RunTimeout, fdVars
<1>3. ASSUME NEW fd \in Fds, UnhookedClose(fd) \/ Environment(fd) \/ Deliver(fd)
      PROVE  CallInv'
  BY <1>3, OthersCall DEF UnhookedClose, Environment, Deliver, fdVars
<1>4. CASE UNCHANGED vars
  BY <1>4, OthersCall DEF vars, fdVars
<1> QED BY <1>1, <1>2, <1>3, <1>4, OptionsCall DEF Next

-----------------------------------------------------------------------------
LEMMA InitCtx == Init => CtxInv
<1> SUFFICES ASSUME Init, NEW fd \in Fds PROVE CtxOf(fd)
  BY DEF CtxInv
<1>1. /\ inode[fd] = 0 /\ ctx[fd] = None
      /\ \A f \in Fibers : pc[f] = "idle" /\ call[f] = NoCall
  BY DEF Init
<1>2. NoCall.op = "none"
  BY DEF NoCall
<1> QED BY <1>1, <1>2 DEF CtxOf, HandledBy, IOLabels

\* Who makes or closes a socket is where those calls are.
LEMMA HandlersAt ==
    ASSUME CallInv, NEW f \in Fibers
    PROVE  /\ \A fd : HandledBy(f, fd) => pc[f] \in {"create", "del", "close"}
           /\ call[f].op = "socket" => pc[f] = "create"
           /\ pc[f] \in {"create", "del", "close"} =>
                  call[f].fd \in Fds /\ HandledBy(f, call[f].fd)
           /\ pc[f] = "create" => call[f].op = "socket"
           /\ pc[f] \in {"del", "close"} => call[f].op = "close"
<1>1. Fits(pc[f], call[f], opened) /\ pc[f] \in Labels
  BY DEF CallInv, CallType, CallAt
<1> QED BY <1>1, NoCallType DEF Fits, HandledBy, Labels, IOLabels

\* A step that does not concern a number leaves its FdCtx as it should be.
LEMMA OtherNumber ==
    ASSUME CallInv, NEW fd \in Fds, CtxOf(fd),
           ctx'[fd] = ctx[fd], inode'[fd] = inode[fd],
           nonblock'[fd] = nonblock[fd],
           \A g \in Fibers : HandledBy(g, fd)' <=> HandledBy(g, fd),
           \A g \in Fibers : HandledBy(g, fd) => pc'[g] = pc[g] /\ call'[g] = call[g],
           \A g \in Fibers : pc'[g] \in IOLabels /\ call'[g].fd = fd =>
               \/ pc[g] \in IOLabels /\ call'[g] = call[g]
               \/ InUse(fd)
    PROVE  CtxOf(fd)'
<1>1. /\ InUse(fd)' <=> InUse(fd)
      /\ \A g \in Fibers : Alone(g, fd)' <=> Alone(g, fd)
  BY DEF InUse, Alone
<1>2. Handling("socket", fd)' <=> Handling("socket", fd)
  BY DEF Handling, HandledBy
<1>3. InUse(fd) => ~Handling("socket", fd)
  BY HandlersAt DEF CtxOf, InUse, Handling
<1>4. inode'[fd] = 0 =>
          ctx'[fd] = None /\ \A f \in Fibers : ~HandledBy(f, fd)'
  BY DEF CtxOf
<1>5. ASSUME NEW f \in Fibers, HandledBy(f, fd)'
      PROVE  /\ Alone(f, fd)' /\ ~InUse(fd)'
             /\ pc'[f] \in {"create", "close"} => ctx'[fd] = None
  BY <1>1, <1>5 DEF CtxOf
<1>6. inode'[fd] # 0 /\ ~Handling("socket", fd)' => nonblock'[fd]
  BY <1>2 DEF CtxOf
<1>7. inode'[fd] # 0 /\ (\A f \in Fibers : ~HandledBy(f, fd)')
          => ctx'[fd] # None /\ ctx'[fd].inode = inode'[fd]
  BY DEF CtxOf
<1>8. ASSUME NEW f \in Fibers, pc'[f] \in IOLabels, call'[f].fd = fd,
             call'[f].inode = inode'[fd]
      PROVE  ~Handling("socket", fd)'
  BY <1>2, <1>3, <1>8 DEF CtxOf
<1> QED BY <1>4, <1>5, <1>6, <1>7, <1>8 DEF CtxOf

\* A fiber that neither makes nor closes a socket takes a step.
LEMMA CtxStays ==
    ASSUME CallInv, CtxInv, NEW f \in Fibers, NEW l \in Labels, NEW c \in Call,
           Goto(f, l), call' = [call EXCEPT ![f] = c],
           pc[f] \notin {"create", "del", "close"},
           c.op \notin {"socket", "close"},
           l \in IOLabels =>
               \/ pc[f] \in IOLabels /\ c = call[f]
               \/ InUse(c.fd),
           UNCHANGED <<inode, nonblock, ctx, around>>
    PROVE  CtxInv'
<1> SUFFICES ASSUME NEW fd \in Fds, fd \notin around PROVE CtxOf(fd)'
  BY DEF CtxInv
<1>1. pc \in [Fibers -> Labels] /\ call \in [Fibers -> Call]
  BY DEF CallInv, CallType
<1>2. pc' = [pc EXCEPT ![f] = l]
  BY DEF Goto
<1>3. CtxOf(fd)
  BY DEF CtxInv
<1>4. ~HandledBy(f, fd) /\ ~HandledBy(f, fd)'
  <2>1. call'[f] = c
    BY <1>1
  <2> QED BY <2>1, HandlersAt DEF HandledBy
<1>5. \A g \in Fibers \ {f} : pc'[g] = pc[g] /\ call'[g] = call[g]
  BY <1>1, <1>2
<1>6. pc'[f] = l /\ call'[f] = c
  BY <1>1, <1>2
<1>7. \A g \in Fibers : HandledBy(g, fd)' <=> HandledBy(g, fd)
  BY <1>4, <1>5 DEF HandledBy
<1>8. \A g \in Fibers :
          HandledBy(g, fd) => pc'[g] = pc[g] /\ call'[g] = call[g]
  BY <1>4, <1>5
<1>9. \A g \in Fibers : pc'[g] \in IOLabels /\ call'[g].fd = fd =>
          \/ pc[g] \in IOLabels /\ call'[g] = call[g]
          \/ InUse(fd)
  BY <1>5, <1>6
<1> QED BY <1>3, <1>7, <1>8, <1>9, OtherNumber

LEMMA ReturnCtx ==
    ASSUME CallInv, CtxInv, NEW f \in Fibers, Return(f),
           pc[f] \notin {"create", "del", "close"}, UNCHANGED fdVars
    PROVE  CtxInv'
<1>1. /\ Goto(f, "idle") /\ call' = [call EXCEPT ![f] = NoCall]
      /\ "idle" \in Labels \ IOLabels
  BY DEF Return, Forget, Labels, IOLabels
<1>2. UNCHANGED <<inode, nonblock, ctx, around>>
  BY DEF fdVars
<1> QED BY <1>1, <1>2, NoCallType, CtxStays

LEMMA GoOnCtx ==
    ASSUME CallInv, CtxInv, NEW f \in Fibers, pc[f] \in IOLabels,
           NEW l \in IOLabels, Goto(f, l), UNCHANGED <<call, fdVars>>
    PROVE  CtxInv'
<1>1. /\ call' = [call EXCEPT ![f] = call[f]] /\ call[f] \in Call
      /\ Fits(pc[f], call[f], opened)
  BY DEF CallInv, CallType, CallAt
<1>2. UNCHANGED <<inode, nonblock, ctx, around>>
  BY DEF fdVars
<1>3. /\ l \in Labels /\ pc[f] \notin {"create", "del", "close"}
      /\ call[f].op \in {"io", "connect"}
  BY <1>1 DEF IOLabels, Labels, Fits
<1> QED BY <1>1, <1>2, <1>3, CtxStays

\* A step of socket or close is about one number.
LEMMA Elsewhere ==
    ASSUME CallInv, NEW f \in Fibers, NEW l \in Labels \ IOLabels, NEW c \in Call,
           Goto(f, l), call' = [call EXCEPT ![f] = c],
           NEW fd \in Fds, c = NoCall \/ c.fd = fd,
           pc[f] = "idle" \/ call[f].fd = fd,
           NEW gd \in Fds, gd # fd, CtxOf(gd),
           ctx'[gd] = ctx[gd], inode'[gd] = inode[gd],
           nonblock'[gd] = nonblock[gd]
    PROVE  CtxOf(gd)'
<1>1. pc \in [Fibers -> Labels] /\ call \in [Fibers -> Call]
  BY DEF CallInv, CallType
<1>2. /\ pc'[f] = l /\ call'[f] = c
      /\ \A g \in Fibers \ {f} : pc'[g] = pc[g] /\ call'[g] = call[g]
  BY <1>1 DEF Goto
<1>3. ~HandledBy(f, gd) /\ ~HandledBy(f, gd)'
  <2>1. ~HandledBy(f, gd)
    BY HandlersAt DEF HandledBy
  <2>2. ~HandledBy(f, gd)'
    BY <1>2, NoCallType DEF HandledBy
  <2> QED BY <2>1, <2>2
<1>4. \A g \in Fibers : HandledBy(g, gd)' <=> HandledBy(g, gd)
  BY <1>2, <1>3 DEF HandledBy
<1>5. \A g \in Fibers :
          HandledBy(g, gd) => pc'[g] = pc[g] /\ call'[g] = call[g]
  BY <1>2, <1>3
<1>6. \A g \in Fibers : pc'[g] \in IOLabels /\ call'[g].fd = gd =>
          pc[g] \in IOLabels /\ call'[g] = call[g]
  BY <1>2
<1> QED BY <1>4, <1>5, <1>6, OtherNumber

\* The fibers at or past a system call on a socket know the socket by its
\* inode, and a number that is free has none.
LEMMA SocketCtx ==
    ASSUME CallInv, CallInv', CtxInv, NEW f \in Fibers, NEW fd \in Fds,
           SocketCall(f, fd)
    PROVE  CtxInv'
<1> DEFINE c == [NoCall EXCEPT !.op = "socket", !.fd = fd, !.inode = opened']
<1>0. /\ pc \in [Fibers -> Labels] /\ call \in [Fibers -> Call]
      /\ inode \in [Fds -> 0..MaxOpens] /\ nonblock \in [Fds -> BOOLEAN]
      /\ opened \in Nat /\ opened' = opened + 1
  BY HookAssumption DEF CallInv, CallType, SocketCall
<1>1. /\ pc[f] = "idle" /\ inode[fd] = 0
      /\ inode' = [inode EXCEPT ![fd] = opened']
      /\ nonblock' = [nonblock EXCEPT ![fd] = FALSE]
      /\ call' = [call EXCEPT ![f] = c] /\ Goto(f, "create")
      /\ ctx' = ctx /\ around' = around
  BY DEF SocketCall
<1>2. c.op = "socket" /\ c.fd = fd
  BY DEF NoCall
<1>3. c \in Call /\ "create" \in Labels \ IOLabels
  <2>1. call'[f] = c
    BY <1>0, <1>1
  <2>2. call'[f] \in Call
    BY DEF CallInv, CallType
  <2> QED BY <2>1, <2>2 DEF Labels, IOLabels
<1> HIDE DEF c
<1>4. ASSUME NEW gd \in Fds, gd \notin around, gd # fd
      PROVE  CtxOf(gd)'
  <2>1. /\ ctx'[gd] = ctx[gd] /\ inode'[gd] = inode[gd]
        /\ nonblock'[gd] = nonblock[gd] /\ CtxOf(gd)
    BY <1>0, <1>1, <1>4 DEF CtxInv
  <2> QED BY <1>1, <1>2, <1>3, <1>4, <2>1, Elsewhere
<1>5. ASSUME fd \notin around PROVE CtxOf(fd)'
  <2>1. ctx[fd] = None /\ \A g \in Fibers : ~HandledBy(g, fd)
    BY <1>1, <1>5 DEF CtxInv, CtxOf
  <2>2. /\ pc'[f] = "create" /\ call'[f] = c
        /\ \A g \in Fibers \ {f} : pc'[g] = pc[g] /\ call'[g] = call[g]
    BY <1>0, <1>1 DEF Goto
  <2>3. /\ \A g \in Fibers \ {f} : ~HandledBy(g, fd)'
        /\ HandledBy(f, fd)' /\ Handling("socket", fd)'
    BY <1>2, <2>1, <2>2 DEF HandledBy, Handling
  <2>4. Alone(f, fd)' /\ ctx'[fd] = None /\ ~InUse(fd)'
    BY <1>1, <2>1, <2>3 DEF Alone, InUse
  <2>5. inode'[fd] = opened + 1
    BY <1>0, <1>1
  <2>6. ASSUME NEW g \in Fibers, pc'[g] \in IOLabels, call'[g].fd = fd,
               call'[g].inode = inode'[fd]
        PROVE  FALSE
    <3>1. g # f /\ pc'[g] = pc[g] /\ call'[g] = call[g]
      BY <2>2, <2>6 DEF IOLabels
    <3>2. call[g].inode \in 1..opened
      BY <2>6, <3>1 DEF CallInv, CallAt, Fits
    <3> QED BY <1>0, <2>5, <2>6, <3>1, <3>2
  <2>7. inode'[fd] # 0
    BY <1>0, <2>5
  <2> QED BY <2>3, <2>4, <2>6, <2>7 DEF CtxOf
<1> QED BY <1>1, <1>4, <1>5 DEF CtxInv

LEMMA CreateCtxStep ==
    ASSUME CallInv, CtxInv, NEW f \in Fibers, NEW fd \in Fds,
           fd = call[f].fd, CreateCtx(f)
    PROVE  CtxInv'
<1>0. /\ pc \in [Fibers -> Labels] /\ call \in [Fibers -> Call]
      /\ inode \in [Fds -> 0..MaxOpens] /\ nonblock \in [Fds -> BOOLEAN]
      /\ ctx \in [Fds -> FdCtx \cup {None}]
  BY DEF CallInv, CallType
<1>1. /\ pc[f] = "create" /\ fd \in Fds /\ HandledBy(f, fd)
      /\ call[f].op = "socket"
  BY HandlersAt DEF CreateCtx
<1>2. /\ call' = [call EXCEPT ![f] = NoCall] /\ Goto(f, "idle")
      /\ "idle" \in Labels \ IOLabels
      /\ UNCHANGED <<inode, around>>
  BY DEF CreateCtx, Labels, IOLabels
<1>3. \/ ctx[fd] # None /\ UNCHANGED <<ctx, nonblock>>
      \/ /\ ctx[fd] = None
         /\ ctx' = [ctx EXCEPT ![fd] = NewCtx(fd)]
         /\ nonblock' = [nonblock EXCEPT ![fd] = TRUE]
  BY DEF CreateCtx
<1>n. NewCtx(fd) \in FdCtx /\ NewCtx(fd).inode = inode[fd]
  BY <1>0, <1>1 DEF NewCtx, FdCtx
<1>4. ASSUME NEW gd \in Fds, gd \notin around, gd # fd
      PROVE  CtxOf(gd)'
  <2>1. /\ ctx'[gd] = ctx[gd] /\ inode'[gd] = inode[gd]
        /\ nonblock'[gd] = nonblock[gd] /\ CtxOf(gd)
    BY <1>0, <1>2, <1>3, <1>4 DEF CtxInv
  <2> QED BY <1>1, <1>2, <1>4, <2>1, NoCallType, Elsewhere
<1>5. ASSUME fd \notin around PROVE CtxOf(fd)'
  <2>0. CtxOf(fd)
    BY <1>1, <1>5 DEF CtxInv
  <2>1. Alone(f, fd) /\ ctx[fd] = None /\ inode[fd] # 0
    BY <1>1, <2>0 DEF CtxOf
  <2>2. /\ pc'[f] = "idle" /\ call'[f] = NoCall
        /\ \A g \in Fibers \ {f} : pc'[g] = pc[g] /\ call'[g] = call[g]
    BY <1>0, <1>2 DEF Goto
  <2>3. \A g \in Fibers : ~HandledBy(g, fd)'
    BY <2>1, <2>2, NoCallType DEF Alone, HandledBy
  <2>4. ~Handling("socket", fd)'
    BY <2>3 DEF Handling, HandledBy
  <2>5. ctx'[fd] = NewCtx(fd) /\ nonblock'[fd] /\ inode'[fd] = inode[fd]
    BY <1>0, <1>1, <1>2, <1>3, <2>1
  <2>6. ctx'[fd] # None /\ ctx'[fd].inode = inode'[fd]
    BY <1>n, <2>5, HookAssumption
  <2> QED BY <2>1, <2>3, <2>4, <2>5, <2>6 DEF CtxOf
<1> QED BY <1>2, <1>4, <1>5 DEF CtxInv

LEMMA CloseBeginCtx ==
    ASSUME CallInv, CallInv', CtxInv, NEW f \in Fibers, NEW fd \in Fds,
           CloseBegin(f, fd)
    PROVE  CtxInv'
<1> DEFINE c == [NoCall EXCEPT !.op = "close", !.fd = fd]
<1>0. /\ pc \in [Fibers -> Labels] /\ call \in [Fibers -> Call]
      /\ ctx \in [Fds -> FdCtx \cup {None}]
  BY DEF CallInv, CallType
<1>1. /\ pc[f] = "idle" /\ InUse(fd) /\ inode[fd] # 0
      /\ ctx' = [ctx EXCEPT ![fd].closed = TRUE]
      /\ call' = [call EXCEPT ![f] = c] /\ Goto(f, "del")
      /\ UNCHANGED <<inode, nonblock, around>>
  BY DEF CloseBegin
<1>2. c.op = "close" /\ c.fd = fd
  BY DEF NoCall
<1>3. c \in Call /\ "del" \in Labels \ IOLabels
  <2>1. call'[f] = c
    BY <1>0, <1>1
  <2>2. call'[f] \in Call
    BY DEF CallInv, CallType
  <2> QED BY <2>1, <2>2 DEF Labels, IOLabels
<1> HIDE DEF c
<1>4. ASSUME NEW gd \in Fds, gd \notin around, gd # fd
      PROVE  CtxOf(gd)'
  <2>1. /\ ctx'[gd] = ctx[gd] /\ inode'[gd] = inode[gd]
        /\ nonblock'[gd] = nonblock[gd] /\ CtxOf(gd)
    BY <1>0, <1>1, <1>4 DEF CtxInv
  <2> QED BY <1>1, <1>2, <1>3, <1>4, <2>1, Elsewhere
<1>5. ASSUME fd \notin around PROVE CtxOf(fd)'
  <2>0. CtxOf(fd)
    BY <1>5 DEF CtxInv
  <2>1. \A g \in Fibers : ~HandledBy(g, fd)
    BY <1>1, <2>0 DEF CtxOf
  <2>2. /\ pc'[f] = "del" /\ call'[f] = c
        /\ \A g \in Fibers \ {f} : pc'[g] = pc[g] /\ call'[g] = call[g]
    BY <1>0, <1>1 DEF Goto
  <2>3. /\ \A g \in Fibers \ {f} : ~HandledBy(g, fd)'
        /\ HandledBy(f, fd)' /\ ~Handling("socket", fd)'
    BY <1>2, <2>1, <2>2 DEF HandledBy, Handling
  <2>4. ~Handling("socket", fd) /\ nonblock'[fd] /\ inode'[fd] # 0
    BY <1>1, <2>0, <2>1 DEF Handling, HandledBy, CtxOf
  <2>5. ~InUse(fd)'
    <3>1. ctx[fd] \in FdCtx
      BY <1>0, <1>1 DEF InUse
    <3>2. ctx'[fd] = [ctx[fd] EXCEPT !.closed = TRUE]
      BY <1>0, <1>1
    <3>3. ctx'[fd].closed
      BY <3>1, <3>2 DEF FdCtx
    <3> QED BY <3>3 DEF InUse
  <2>6. Alone(f, fd)'
    BY <2>3 DEF Alone
  <2> QED BY <2>2, <2>3, <2>4, <2>5, <2>6 DEF CtxOf
<1> QED BY <1>1, <1>4, <1>5 DEF CtxInv

LEMMA CloseDelCtx ==
    ASSUME CallInv, CtxInv, NEW f \in Fibers, NEW fd \in Fds,
           fd = call[f].fd, CloseDel(f)
    PROVE  CtxInv'
<1>0. /\ pc \in [Fibers -> Labels] /\ call \in [Fibers -> Call]
      /\ ctx \in [Fds -> FdCtx \cup {None}]
  BY DEF CallInv, CallType
<1>1. /\ pc[f] = "del" /\ fd \in Fds /\ HandledBy(f, fd)
      /\ call[f].op = "close" /\ call[f] \in Call
  BY <1>0, HandlersAt DEF CloseDel
<1>2. /\ call' = call /\ Goto(f, "close")
      /\ "close" \in Labels \ IOLabels
      /\ ctx' = [ctx EXCEPT ![fd] = None]
      /\ UNCHANGED <<inode, nonblock, around>>
  BY DEF CloseDel, Labels, IOLabels
<1>f. call' = [call EXCEPT ![f] = call[f]]
  BY <1>0, <1>2
<1>4. ASSUME NEW gd \in Fds, gd \notin around, gd # fd
      PROVE  CtxOf(gd)'
  <2>1. /\ ctx'[gd] = ctx[gd] /\ inode'[gd] = inode[gd]
        /\ nonblock'[gd] = nonblock[gd] /\ CtxOf(gd)
    BY <1>0, <1>2, <1>4 DEF CtxInv
  <2> QED BY <1>1, <1>2, <1>4, <1>f, <2>1, Elsewhere
<1>5. ASSUME fd \notin around PROVE CtxOf(fd)'
  <2>0. CtxOf(fd)
    BY <1>1, <1>5 DEF CtxInv
  <2>1. Alone(f, fd) /\ inode[fd] # 0
    BY <1>1, <2>0 DEF CtxOf
  <2>2. /\ pc'[f] = "close" /\ call' = call
        /\ \A g \in Fibers \ {f} : pc'[g] = pc[g]
    BY <1>0, <1>2 DEF Goto
  <2>3. /\ \A g \in Fibers : HandledBy(g, fd)' <=> HandledBy(g, fd)
        /\ Handling("socket", fd)' <=> Handling("socket", fd)
        /\ Alone(f, fd)'
    BY <2>1, <2>2 DEF HandledBy, Handling, Alone
  <2>4. ~Handling("socket", fd)
    BY <1>1, <2>1 DEF Alone, HandledBy, Handling
  <2>5. ctx'[fd] = None /\ ~InUse(fd)'
    BY <1>0, <1>1, <1>2 DEF InUse
  <2>6. \A g \in Fibers : HandledBy(g, fd)' => g = f
    BY <2>1, <2>3 DEF Alone
  <2>7. nonblock'[fd] /\ inode'[fd] # 0 /\ HandledBy(f, fd)'
    BY <1>1, <1>2, <2>0, <2>1, <2>3, <2>4 DEF CtxOf
  <2> QED BY <2>3, <2>4, <2>5, <2>6, <2>7 DEF CtxOf
<1> QED BY <1>2, <1>4, <1>5 DEF CtxInv

LEMMA CloseSysCtx ==
    ASSUME CallInv, CtxInv, NEW f \in Fibers, NEW fd \in Fds,
           fd = call[f].fd, CloseSys(f)
    PROVE  CtxInv'
<1>0. /\ pc \in [Fibers -> Labels] /\ call \in [Fibers -> Call]
      /\ inode \in [Fds -> 0..MaxOpens]
  BY DEF CallInv, CallType
<1>1. /\ pc[f] = "close" /\ fd \in Fds /\ HandledBy(f, fd)
      /\ call[f].op = "close"
  BY HandlersAt DEF CloseSys
<1>2. /\ call' = [call EXCEPT ![f] = NoCall] /\ Goto(f, "idle")
      /\ "idle" \in Labels \ IOLabels
      /\ inode' = [inode EXCEPT ![fd] = 0]
      /\ \/ around' = around
         \/ around' = around \ {fd} /\ ctx[fd] = None /\ Alone(f, fd)
      /\ UNCHANGED <<nonblock, ctx>>
  BY DEF CloseSys, Labels, IOLabels, Alone
<1>4. ASSUME NEW gd \in Fds, gd \notin around', gd # fd
      PROVE  CtxOf(gd)'
  <2>1. /\ ctx'[gd] = ctx[gd] /\ inode'[gd] = inode[gd]
        /\ nonblock'[gd] = nonblock[gd] /\ CtxOf(gd)
    BY <1>0, <1>2, <1>4 DEF CtxInv
  <2> QED BY <1>1, <1>2, <1>4, <2>1, NoCallType, Elsewhere
<1>5. ASSUME fd \notin around' PROVE CtxOf(fd)'
  <2>1. Alone(f, fd) /\ ctx[fd] = None
    <3>1. CASE fd \in around
      BY <1>2, <1>5, <3>1
    <3>2. CASE fd \notin around
      BY <1>1, <3>2 DEF CtxInv, CtxOf
    <3> QED BY <3>1, <3>2
  <2>2. /\ pc'[f] = "idle" /\ call'[f] = NoCall
        /\ \A g \in Fibers \ {f} : pc'[g] = pc[g] /\ call'[g] = call[g]
    BY <1>0, <1>2 DEF Goto
  <2>3. \A g \in Fibers : ~HandledBy(g, fd)'
    BY <2>1, <2>2, NoCallType DEF Alone, HandledBy
  <2>4. ~Handling("socket", fd)'
    BY <2>3 DEF Handling, HandledBy
  <2>5. ctx'[fd] = None /\ inode'[fd] = 0
    BY <1>0, <1>1, <1>2, <2>1
  <2> QED BY <2>3, <2>4, <2>5 DEF CtxOf
<1> QED BY <1>4, <1>5 DEF CtxInv

\* What an option leaves alone of the FdCtx of fd, and of the others.
KeepsOwner(fd) ==
    /\ \A gd \in Fds \ {fd} : ctx'[gd] = ctx[gd] /\ nonblock'[gd] = nonblock[gd]
    /\ ctx'[fd].inode = ctx[fd].inode /\ ctx'[fd] # None
    /\ ctx'[fd].closed = ctx[fd].closed
    /\ fd \notin around' => nonblock'[fd] = nonblock[fd] \/ nonblock'[fd]

\* Options change neither whether an FdCtx is in use nor whose it is.
LEMMA OptionsCtx ==
    ASSUME CallInv, CtxInv, NEW fd \in Fds, Options(fd)
    PROVE  CtxInv'
<1>0. /\ ctx \in [Fds -> FdCtx \cup {None}] /\ nonblock \in [Fds -> BOOLEAN]
  BY DEF CallInv, CallType
<1>1. /\ UNCHANGED <<pc, call, inode>> /\ ctx[fd] # None /\ ctx[fd] \in FdCtx
      /\ around \subseteq around'
  BY <1>0 DEF Options, SetTimeout, SetFlags, SetNonblocking, InUse
<1>k. KeepsOwner(fd)
  <2>1. ASSUME NEW e \in Timeouts, SetTimeout(fd, e)
        PROVE  KeepsOwner(fd)
    <3>1. ctx' = [ctx EXCEPT ![fd].timed = @ \cup {e}] /\ nonblock' = nonblock
      BY <2>1 DEF SetTimeout
    <3>2. ctx'[fd] = [ctx[fd] EXCEPT !.timed = @ \cup {e}]
      BY <1>0, <3>1
    <3>3. ctx'[fd] \in FdCtx
      BY <1>1, <3>2, HookAssumption DEF FdCtx
    <3>4. ctx'[fd].inode = ctx[fd].inode /\ ctx'[fd].closed = ctx[fd].closed
      BY <1>1, <3>2 DEF FdCtx
    <3>5. \A gd \in Fds \ {fd} : ctx'[gd] = ctx[gd] /\ nonblock'[gd] = nonblock[gd]
      BY <1>0, <3>1
    <3> QED BY <3>1, <3>3, <3>4, <3>5, HookAssumption DEF KeepsOwner
  <2>2. ASSUME NEW flag \in BOOLEAN,
               SetFlags(fd, flag) \/ SetNonblocking(fd, flag)
        PROVE  KeepsOwner(fd)
    <3>1. ctx' = [ctx EXCEPT ![fd].user = flag]
      BY <2>2 DEF SetFlags, SetNonblocking
    <3>2. ctx'[fd] = [ctx[fd] EXCEPT !.user = flag]
      BY <1>0, <3>1
    <3>3. ctx'[fd] \in FdCtx
      BY <1>1, <3>2 DEF FdCtx
    <3>4. ctx'[fd].inode = ctx[fd].inode /\ ctx'[fd].closed = ctx[fd].closed
      BY <1>1, <3>2 DEF FdCtx
    <3>5. \A gd \in Fds \ {fd} : ctx'[gd] = ctx[gd] /\ nonblock'[gd] = nonblock[gd]
      BY <1>0, <2>2, <3>1 DEF SetFlags, SetNonblocking
    <3>6. fd \notin around' => nonblock'[fd]
      BY <1>0, <2>2 DEF SetFlags, SetNonblocking
    <3> QED BY <3>3, <3>4, <3>5, <3>6, HookAssumption DEF KeepsOwner
  <2> QED BY <2>1, <2>2 DEF Options
<1>2. /\ \A gd \in Fds \ {fd} : ctx'[gd] = ctx[gd] /\ nonblock'[gd] = nonblock[gd]
      /\ ctx'[fd].inode = ctx[fd].inode /\ ctx'[fd] # None
      /\ ctx'[fd].closed = ctx[fd].closed
      /\ fd \notin around' => nonblock'[fd] = nonblock[fd] \/ nonblock'[fd]
  BY <1>k DEF KeepsOwner
<1>3. \A g \in Fibers : \A gd \in Fds : HandledBy(g, gd)' <=> HandledBy(g, gd)
  BY <1>1 DEF HandledBy
<1>4. ASSUME NEW gd \in Fds, gd \notin around', gd # fd
      PROVE  CtxOf(gd)'
  <2>1. /\ ctx'[gd] = ctx[gd] /\ inode'[gd] = inode[gd]
        /\ nonblock'[gd] = nonblock[gd] /\ CtxOf(gd)
    BY <1>1, <1>2, <1>4 DEF CtxInv
  <2> QED BY <1>1, <1>3, <2>1, OtherNumber
<1>5. ASSUME fd \notin around' PROVE CtxOf(fd)'
  <2>0. CtxOf(fd) /\ inode'[fd] = inode[fd] /\ UNCHANGED <<pc, call>>
    BY <1>1, <1>5 DEF CtxInv
  <2>1. /\ \A g \in Fibers : Alone(g, fd)' <=> Alone(g, fd)
        /\ Handling("socket", fd)' <=> Handling("socket", fd)
        /\ InUse(fd)' <=> InUse(fd)
    BY <1>1, <1>2, <1>3 DEF Alone, Handling, InUse
  <2>2. \A g \in Fibers : HandledBy(g, fd) => pc[g] = "del"
    BY <1>1, <2>0, HandlersAt DEF CtxOf
  <2>3. inode[fd] # 0
    BY <1>1, <2>0 DEF CtxOf
  <2>4. ~Handling("socket", fd)' => nonblock'[fd]
    BY <1>2, <1>5, <2>0, <2>1, <2>3 DEF CtxOf
  <2>5. (\A g \in Fibers : ~HandledBy(g, fd)') => ctx'[fd].inode = inode'[fd]
    BY <1>2, <1>3, <2>0, <2>3 DEF CtxOf
  <2>6. ASSUME NEW g \in Fibers, HandledBy(g, fd)'
        PROVE  Alone(g, fd)' /\ ~InUse(fd)' /\ pc'[g] = "del"
    BY <1>3, <2>0, <2>1, <2>2, <2>6 DEF CtxOf
  <2>7. ASSUME NEW g \in Fibers, pc'[g] \in IOLabels, call'[g].fd = fd,
               call'[g].inode = inode'[fd]
        PROVE  ~Handling("socket", fd)'
    BY <2>0, <2>1, <2>7 DEF CtxOf
  <2> QED BY <1>2, <2>0, <2>3, <2>4, <2>5, <2>6, <2>7 DEF CtxOf
<1> QED BY <1>4, <1>5 DEF CtxInv

LEMMA NextCtx == CallInv /\ CallInv' /\ CtxInv /\ [Next]_vars => CtxInv'
<1> SUFFICES ASSUME CallInv, CallInv', CtxInv, [Next]_vars PROVE CtxInv'
  OBVIOUS
<1>l. /\ \A l \in IOLabels \cup {"idle"} : l \notin {"create", "del", "close"}
      /\ {"sys", "blocked", "add", "wait"} \subseteq IOLabels
  BY DEF IOLabels
<1>1. ASSUME NEW f \in Fibers, Calls(f)
      PROVE  CtxInv'
  <2>0. /\ call \in [Fibers -> Call] /\ call'[f] \in Call
    BY DEF CallInv, CallType
  <2>1. ASSUME NEW fd \in Fds, NEW k \in Kinds, Begin(f, fd, k[1], k[2])
        PROVE  CtxInv'
    <3> DEFINE c == [op |-> k[1], fd |-> fd, ev |-> k[2], inode |-> inode[fd],
                     timed |-> k[1] = "connect" \/ k[2] \in ctx[fd].timed]
    <3>1. /\ pc[f] = "idle" /\ InUse(fd) /\ Goto(f, "sys")
          /\ call' = [call EXCEPT ![f] = c]
          /\ UNCHANGED <<inode, nonblock, ctx, around>>
      BY <2>1 DEF Begin, fdVars
    <3>2. c.op \notin {"socket", "close"} /\ c.fd = fd /\ c \in Call
      <4>1. call'[f] = c
        BY <2>0, <3>1
      <4> QED BY <2>0, <4>1, HookAssumption
    <3>3. "sys" \in Labels
      BY DEF Labels
    <3> HIDE DEF c
    <3> QED BY <1>l, <3>1, <3>2, <3>3, CtxStays
  <2>2. CASE Sleep(f)
    <3> DEFINE c == [NoCall EXCEPT !.op = "sleep"]
    <3>1. /\ pc[f] = "idle" /\ Goto(f, "asleep")
          /\ call' = [call EXCEPT ![f] = c]
          /\ UNCHANGED <<inode, nonblock, ctx, around>>
      BY <2>2 DEF Sleep, fdVars
    <3>2. c.op \notin {"socket", "close"} /\ c \in Call
      <4>1. call'[f] = c
        BY <2>0, <3>1
      <4>2. c.op = "sleep"
        BY DEF NoCall
      <4> QED BY <2>0, <4>1, <4>2
    <3>3. "asleep" \in Labels \ IOLabels
      BY DEF Labels, IOLabels
    <3> HIDE DEF c
    <3> QED BY <1>l, <3>1, <3>2, <3>3, CtxStays
  <2> QED BY <1>1, <2>1, <2>2, SocketCtx, CloseBeginCtx DEF Calls
<1>2. ASSUME NEW f \in Fibers, Step(f)
      PROVE  CtxInv'
  <2>1. CASE CreateCtx(f)
    <3>1. PICK fd \in Fds : fd = call[f].fd
      BY <2>1, HandlersAt DEF CreateCtx
    <3> QED BY <2>1, <3>1, CreateCtxStep
  <2>2. CASE CloseDel(f)
    <3>1. PICK fd \in Fds : fd = call[f].fd
      BY <2>2, HandlersAt DEF CloseDel
    <3> QED BY <2>2, <3>1, CloseDelCtx
  <2>3. CASE CloseSys(f)
    <3>1. PICK fd \in Fds : fd = call[f].fd
      BY <2>3, HandlersAt DEF CloseSys
    <3> QED BY <2>3, <3>1, CloseSysCtx
  <2>4. CASE SysReturns(f)
    BY <2>4, <1>l, ReturnCtx DEF SysReturns
  <2>5. CASE SysBlocks(f)
    BY <2>5, <1>l, GoOnCtx DEF SysBlocks
  <2>6. CASE SysAgain(f)
    BY <2>6, <1>l, GoOnCtx DEF SysAgain
  <2>7. CASE Wait(f)
    BY <2>7, <1>l, GoOnCtx DEF Wait
  <2>8. CASE WaitFails(f)
    BY <2>8, <1>l, ReturnCtx DEF WaitFails
  <2>9. CASE Wake(f)
    <3>1. CASE Return(f)
      BY <2>9, <3>1, <1>l, ReturnCtx DEF Wake
    <3>2. CASE Goto(f, "sys") /\ UNCHANGED call
      BY <2>9, <3>2, <1>l, GoOnCtx DEF Wake
    <3> QED BY <2>9, <3>1, <3>2 DEF Wake
  <2>10. CASE WakeFromSleep(f)
    BY <2>10, ReturnCtx DEF WakeFromSleep
  <2> QED
    BY <1>2, <2>1, <2>2, <2>3, <2>4, <2>5, <2>6, <2>7, <2>8, <2>9, <2>10 DEF Step
\* Everything else moves no fiber.
<1>3. ASSUME UNCHANGED <<pc, call, ctx, nonblock>>, around \subseteq around',
             \A fd \in Fds \ around' : inode'[fd] = inode[fd]
      PROVE  CtxInv'
  <2> SUFFICES ASSUME NEW fd \in Fds, fd \notin around' PROVE CtxOf(fd)'
    BY DEF CtxInv
  <2>1. CtxOf(fd) /\ inode'[fd] = inode[fd]
    BY <1>3 DEF CtxInv
  <2>2. \A g \in Fibers : HandledBy(g, fd)' <=> HandledBy(g, fd)
    BY <1>3 DEF HandledBy
  <2> QED BY <1>3, <2>1, <2>2, OtherNumber
<1>4. ASSUME NEW f \in Fibers, Expire(f) \/ RunTask(f)
      PROVE  CtxInv'
  BY <1>3, <1>4 DEF Expire, RunTask, RunSleepTask, RunTimeout, fdVars
<1>5. ASSUME NEW fd \in Fds, Environment(fd) \/ Deliver(fd)
      PROVE  CtxInv'
  BY <1>3, <1>5 DEF Environment, Deliver, fdVars
<1>6. ASSUME NEW fd \in Fds, UnhookedClose(fd)
      PROVE  CtxInv'
  <2>1. /\ UNCHANGED <<pc, call, ctx, nonblock>>
        /\ around' = around \cup {fd} /\ inode' = [inode EXCEPT ![fd] = 0]
    BY <1>6 DEF UnhookedClose
  <2>2. \A gd \in Fds \ around' : inode'[gd] = inode[gd]
    BY <2>1 DEF CallInv, CallType
  <2> QED BY <1>3, <2>1, <2>2
<1>7. CASE UNCHANGED vars
  BY <1>3, <1>7 DEF vars, fdVars
<1> QED BY <1>1, <1>2, <1>4, <1>5, <1>6, <1>7, OptionsCtx DEF Next

LEMMA CtxIsEnough == CtxInv => CtxOfThisSocket
<1> SUFFICES ASSUME CtxInv, NEW fd \in Fds \ around, inode[fd] # 0,
                    ~Handling("socket", fd), ~Handling("close", fd)
             PROVE  ctx[fd] # None /\ ctx[fd].inode = inode[fd]
  BY DEF CtxOfThisSocket
<1>1. \A f \in Fibers : ~HandledBy(f, fd)
  BY DEF Handling, HandledBy
<1> QED BY <1>1 DEF CtxInv, CtxOf

LEMMA CallAndCtx == Spec => [](CallInv /\ CtxInv)
<1>1. Init => CallInv /\ CtxInv
  BY InitCall, InitCtx
<1>2. CallInv /\ CtxInv /\ [Next]_vars => CallInv' /\ CtxInv'
  BY NextCall, NextCtx
<1> QED BY <1>1, <1>2, PTL DEF Spec

\* The FdCtx a hooked call finds is that of the socket its number stands for,
\* however socket, close and the reuse of numbers interleave: del comes before
\* close_f, and nobody can use a number that is being made or closed.
THEOREM CtxIsOfItsSocket == Spec => []CtxOfThisSocket
<1>1. CallInv /\ CtxInv => CtxOfThisSocket
  BY CtxIsEnough
<1> QED BY <1>1, CallAndCtx, PTL

-----------------------------------------------------------------------------
\* A step by which no fiber comes to block a thread; a number that gets a new
\* socket, or loses it, is not the one a blocked fiber means any more.
NobodyBlocks ==
    /\ \A g \in Fibers : pc'[g] = "blocked" => pc[g] = "blocked" /\ call'[g] = call[g]
    /\ \A fd \in Fds :
           inode'[fd] \in 1..opened =>
               /\ inode'[fd] = inode[fd]
               /\ fd \in around => fd \in around'

LEMMA BlocksNobody ==
    ASSUME CallInv, CallInv', NeverBlocks, NobodyBlocks
    PROVE  NeverBlocks'
<1> SUFFICES ASSUME NEW f \in Fibers, pc'[f] = "blocked",
                    call'[f].inode = inode'[call'[f].fd]
             PROVE  call'[f].fd \in around'
  BY DEF NeverBlocks
<1>1. pc[f] = "blocked" /\ call'[f] = call[f]
  BY DEF NobodyBlocks
<1>2. call[f].fd \in Fds /\ call[f].inode \in 1..opened
  BY <1>1 DEF CallInv, CallAt, Fits, IOLabels
<1> QED BY <1>1, <1>2 DEF NeverBlocks, NobodyBlocks

\* A fiber goes somewhere else than into a blocking call.
LEMMA GoesElsewhere ==
    ASSUME CallInv, NEW f \in Fibers, NEW l, l # "blocked", Goto(f, l),
           NEW c, call' = [call EXCEPT ![f] = c]
    PROVE  \A g \in Fibers :
               pc'[g] = "blocked" => pc[g] = "blocked" /\ call'[g] = call[g]
BY DEF Goto, CallInv, CallType

LEMMA NextNeverBlocks ==
    CallInv /\ CallInv' /\ CtxInv /\ NeverBlocks /\ [Next]_vars => NeverBlocks'
<1> SUFFICES ASSUME CallInv, CallInv', CtxInv, NeverBlocks, [Next]_vars
             PROVE  NeverBlocks'
  OBVIOUS
<1>0. /\ inode \in [Fds -> 0..MaxOpens] /\ opened \in Nat
      /\ pc \in [Fibers -> Labels] /\ call \in [Fibers -> Call]
  BY HookAssumption DEF CallInv, CallType
\* Most steps change no socket.
<1>s. ASSUME UNCHANGED <<inode, around>>,
             \A g \in Fibers :
                 pc'[g] = "blocked" => pc[g] = "blocked" /\ call'[g] = call[g]
      PROVE  NeverBlocks'
  BY <1>s, BlocksNobody DEF NobodyBlocks
<1>g. ASSUME NEW f \in Fibers, NEW l, l # "blocked", Goto(f, l), call' = call,
             UNCHANGED <<inode, around>>
      PROVE  NeverBlocks'
  BY <1>0, <1>g, <1>s DEF Goto
<1>r. ASSUME NEW f \in Fibers, Return(f), UNCHANGED fdVars
      PROVE  NeverBlocks'
  <2>1. Goto(f, "idle") /\ call' = [call EXCEPT ![f] = NoCall]
    BY <1>r DEF Return, Forget
  <2> QED BY <1>r, <1>s, <2>1, GoesElsewhere DEF fdVars
<1>1. ASSUME NEW f \in Fibers, Calls(f)
      PROVE  NeverBlocks'
  <2>1. ASSUME NEW fd \in Fds, SocketCall(f, fd)
        PROVE  NeverBlocks'
    <3> DEFINE c == [NoCall EXCEPT !.op = "socket", !.fd = fd, !.inode = opened']
    <3>1. /\ opened' = opened + 1 /\ inode' = [inode EXCEPT ![fd] = opened']
          /\ call' = [call EXCEPT ![f] = c] /\ Goto(f, "create")
          /\ around' = around
      BY <2>1 DEF SocketCall
    <3> HIDE DEF c
    <3>2. \A gd \in Fds : inode'[gd] \in 1..opened => inode'[gd] = inode[gd]
      BY <1>0, <3>1
    <3> QED BY <3>1, <3>2, GoesElsewhere, BlocksNobody DEF NobodyBlocks
  <2>2. ASSUME NEW fd \in Fds, CloseBegin(f, fd)
        PROVE  NeverBlocks'
    BY <2>2, <1>s, GoesElsewhere DEF CloseBegin
  <2>3. ASSUME NEW fd \in Fds, NEW k \in Kinds, Begin(f, fd, k[1], k[2])
        PROVE  NeverBlocks'
    BY <2>3, <1>s, GoesElsewhere DEF Begin, fdVars
  <2>4. CASE Sleep(f)
    BY <2>4, <1>s, GoesElsewhere DEF Sleep, fdVars
  <2> QED BY <1>1, <2>1, <2>2, <2>3, <2>4 DEF Calls
<1>2. ASSUME NEW f \in Fibers, Step(f)
      PROVE  NeverBlocks'
  <2>1. CASE CreateCtx(f)
    BY <2>1, <1>s, GoesElsewhere DEF CreateCtx
  <2>2. CASE CloseDel(f)
    BY <2>2, <1>g DEF CloseDel
  <2>3. CASE CloseSys(f)
    <3>1. PICK fd \in Fds : fd = call[f].fd
      BY <2>3, HandlersAt DEF CloseSys
    <3>2. /\ inode' = [inode EXCEPT ![fd] = 0]
          /\ around' = around \/ around' = around \ {fd}
          /\ Goto(f, "idle") /\ call' = [call EXCEPT ![f] = NoCall]
      BY <2>3, <3>1 DEF CloseSys
    <3>3. \A gd \in Fds : inode'[gd] \in 1..opened =>
              /\ inode'[gd] = inode[gd] /\ gd # fd
      BY <1>0, <3>2
    <3>4. \A gd \in Fds : gd # fd /\ gd \in around => gd \in around'
      BY <3>2
    <3> QED BY <3>2, <3>3, <3>4, GoesElsewhere, BlocksNobody DEF NobodyBlocks
  <2>4. CASE SysReturns(f)
    BY <2>4, <1>r DEF SysReturns
  <2>5. CASE SysBlocks(f)
    <3> SUFFICES ASSUME NEW g \in Fibers, pc'[g] = "blocked",
                        call'[g].inode = inode'[call'[g].fd]
                 PROVE  call'[g].fd \in around'
      BY DEF NeverBlocks
    <3>1. /\ pc[f] = "sys" /\ ~nonblock[call[f].fd] /\ inode[call[f].fd] # 0
          /\ Goto(f, "blocked") /\ UNCHANGED <<inode, around, call>>
      BY <2>5 DEF SysBlocks, fdVars
    <3>2. CASE g = f
      <4>1. PICK fd \in Fds : fd = call[f].fd
        BY <3>1 DEF CallInv, CallAt, Fits, IOLabels
      <4>2. CASE fd \notin around
        <5>1. CtxOf(fd)
          BY <4>2 DEF CtxInv
        <5>2. ~Handling("socket", fd)
          BY <3>1, <3>2, <4>1, <5>1 DEF CtxOf, IOLabels
        <5> QED BY <3>1, <4>1, <5>1, <5>2 DEF CtxOf
      <4> QED BY <3>1, <3>2, <4>1, <4>2
    <3>3. CASE g # f
      <4>1. pc[g] = "blocked"
        BY <1>0, <3>1, <3>3 DEF Goto
      <4> QED BY <3>1, <4>1 DEF NeverBlocks
    <3> QED BY <3>2, <3>3
  <2>6. CASE SysAgain(f)
    BY <2>6, <1>g DEF SysAgain, fdVars
  <2>7. CASE Wait(f)
    BY <2>7, <1>g DEF Wait, fdVars
  <2>8. CASE WaitFails(f)
    BY <2>8, <1>r DEF WaitFails
  <2>9. CASE Wake(f)
    <3>1. CASE Return(f)
      BY <2>9, <3>1, <1>r DEF Wake
    <3>2. CASE Goto(f, "sys") /\ UNCHANGED call
      BY <2>9, <3>2, <1>g DEF Wake, fdVars
    <3> QED BY <2>9, <3>1, <3>2 DEF Wake
  <2>10. CASE WakeFromSleep(f)
    BY <2>10, <1>r DEF WakeFromSleep
  <2> QED
    BY <1>2, <2>1, <2>2, <2>3, <2>4, <2>5, <2>6, <2>7, <2>8, <2>9, <2>10 DEF Step
<1>3. ASSUME NEW f \in Fibers, Expire(f) \/ RunTask(f)
      PROVE  NeverBlocks'
  BY <1>3, <1>s DEF Expire, RunTask, RunSleepTask, RunTimeout, fdVars
<1>4. ASSUME NEW fd \in Fds, Environment(fd) \/ Deliver(fd)
      PROVE  NeverBlocks'
  BY <1>4, <1>s DEF Environment, Deliver, fdVars
<1>5. ASSUME NEW fd \in Fds, UnhookedClose(fd)
      PROVE  NeverBlocks'
  <2>1. /\ UNCHANGED <<pc, call>> /\ around' = around \cup {fd}
        /\ inode' = [inode EXCEPT ![fd] = 0]
    BY <1>5 DEF UnhookedClose
  <2>2. \A gd \in Fds : inode'[gd] \in 1..opened => inode'[gd] = inode[gd]
    BY <1>0, <2>1
  <2> QED BY <2>1, <2>2, BlocksNobody DEF NobodyBlocks
<1>6. ASSUME NEW fd \in Fds, Options(fd)
      PROVE  NeverBlocks'
  <2>1. UNCHANGED <<pc, call, inode>> /\ around \subseteq around'
    BY <1>6 DEF Options, SetTimeout, SetFlags, SetNonblocking
  <2> QED BY <2>1, BlocksNobody DEF NobodyBlocks
<1>7. CASE UNCHANGED vars
  BY <1>7, <1>s DEF vars, fdVars
<1> QED BY <1>1, <1>2, <1>3, <1>4, <1>5, <1>6, <1>7 DEF Next

\* A hooked call never blocks its thread: whatever fcntl was told, the socket
\* an FdCtx was made for is nonblocking by the time a fiber can use it.
THEOREM CallsNeverBlock == Spec => []NeverBlocks
<1>1. Init => NeverBlocks
  BY DEF Init, NeverBlocks
<1>2. CallInv /\ CtxInv /\ CallInv' /\ NeverBlocks /\ [Next]_vars => NeverBlocks'
  BY NextNeverBlocks
<1> QED BY <1>1, <1>2, CallAndCtx, PTL DEF Spec

-----------------------------------------------------------------------------
\* What a step that at most wakes fibers does: events lose their holders, who
\* are queued, and every fiber that goes on waiting has an event.
Woken ==
    /\ type' \in [Fds -> SUBSET {"READ", "WRITE"}]
    /\ holder' \in [Fds -> [{"READ", "WRITE"} -> Fibers \cup {None}]]
    /\ status' \in [Fibers -> {"free", "waiting", "queued"}]
    /\ HolderInv'
    /\ \A g \in Fibers : \/ status'[g] = status[g]
                         \/ status[g] = "waiting" /\ status'[g] = "queued"
    /\ \A g \in Fibers :
           status'[g] = "waiting" =>
               \E fd \in Fds, e \in {"READ", "WRITE"} : holder'[fd][e] = g

LEMMA NobodyWoken ==
    ASSUME WaitInv, UNCHANGED <<type, holder, status>>
    PROVE  Woken
BY DEF WaitInv, EventType, HolderInv, FiberInv, Woken

LEMMA TriggerWakes ==
    ASSUME WaitInv, NEW fd \in Fds, NEW S, S \subseteq type[fd],
           Ev!Trigger(fd, S)
    PROVE  Woken
<1>0. /\ type \in [Fds -> SUBSET {"READ", "WRITE"}]
      /\ holder \in [Fds -> [{"READ", "WRITE"} -> Fibers \cup {None}]]
      /\ status \in [Fibers -> {"free", "waiting", "queued"}]
      /\ None \notin Fibers
  BY HookAssumption DEF WaitInv, EventType
<1>1. /\ type' = [type EXCEPT ![fd] = @ \ S]
      /\ holder' = [holder EXCEPT ![fd] =
                        [e \in {"READ", "WRITE"} |-> IF e \in S THEN None ELSE @[e]]]
      /\ status' = [w \in Fibers |-> IF \E e \in S : holder[fd][e] = w
                                     THEN "queued" ELSE status[w]]
  BY DEF Ev!Trigger, Ev!Events
<1>2. S \subseteq {"READ", "WRITE"}
  BY <1>0
<1>3. /\ type' \in [Fds -> SUBSET {"READ", "WRITE"}]
      /\ holder' \in [Fds -> [{"READ", "WRITE"} -> Fibers \cup {None}]]
      /\ status' \in [Fibers -> {"free", "waiting", "queued"}]
  BY <1>0, <1>1
<1>4. \A gd \in Fds, e \in {"READ", "WRITE"} :
          /\ holder'[gd][e] = IF gd = fd /\ e \in S THEN None ELSE holder[gd][e]
          /\ e \in type'[gd] <=> e \in type[gd] /\ ~(gd = fd /\ e \in S)
  BY <1>0, <1>1
<1>h. HolderInv
  BY DEF WaitInv
<1>5. \A gd \in Fds, e \in {"READ", "WRITE"} :
          holder'[gd][e] # None => status'[holder'[gd][e]] = "waiting"
  <2> SUFFICES ASSUME NEW gd \in Fds, NEW e \in {"READ", "WRITE"},
                      holder'[gd][e] # None
               PROVE  status'[holder'[gd][e]] = "waiting"
    OBVIOUS
  <2>1. /\ holder'[gd][e] = holder[gd][e] /\ ~(gd = fd /\ e \in S)
        /\ holder[gd][e] \in Fibers /\ status[holder[gd][e]] = "waiting"
    BY <1>0, <1>3, <1>4, <1>h DEF HolderInv
  <2>2. ~\E d \in S : holder[fd][d] = holder[gd][e]
    BY <1>2, <1>h, <2>1, <1>0 DEF HolderInv
  <2> QED BY <1>1, <2>1, <2>2
<1>6. HolderInv'
  <2>1. \A gd \in Fds, e \in {"READ", "WRITE"} :
            holder'[gd][e] # None <=> e \in type'[gd]
    <3> SUFFICES ASSUME NEW gd \in Fds, NEW e \in {"READ", "WRITE"}
                 PROVE  holder'[gd][e] # None <=> e \in type'[gd]
      OBVIOUS
    <3>1. holder[gd][e] # None <=> e \in type[gd]
      BY <1>h DEF HolderInv
    <3> QED BY <1>4, <3>1
  <2>2. \A gd, hd \in Fds, e, d \in {"READ", "WRITE"} :
            holder'[gd][e] = holder'[hd][d] /\ holder'[gd][e] # None
                => gd = hd /\ e = d
    BY <1>4, <1>h DEF HolderInv
  <2> QED BY <1>5, <2>1, <2>2 DEF HolderInv
<1>7. ASSUME NEW g \in Fibers
      PROVE  /\ \/ status'[g] = status[g]
                \/ status[g] = "waiting" /\ status'[g] = "queued"
             /\ status'[g] = "waiting" =>
                    \E gd \in Fds, e \in {"READ", "WRITE"} : holder'[gd][e] = g
  <2>1. CASE \E e \in S : holder[fd][e] = g
    <3>1. status[g] = "waiting"
      BY <1>0, <1>2, <1>h, <2>1 DEF HolderInv
    <3> QED BY <1>1, <2>1, <3>1
  <2>2. CASE ~\E e \in S : holder[fd][e] = g
    <3>1. status'[g] = status[g]
      BY <1>1, <2>2
    <3>2. ASSUME status[g] = "waiting"
          PROVE  \E gd \in Fds, e \in {"READ", "WRITE"} : holder'[gd][e] = g
      <4>1. PICK gd \in Fds, e \in {"READ", "WRITE"} : holder[gd][e] = g
        BY <3>2 DEF WaitInv, FiberInv
      <4>2. ~(gd = fd /\ e \in S)
        BY <2>2, <4>1
      <4> QED BY <1>4, <4>1, <4>2
    <3> QED BY <3>1, <3>2
  <2> QED BY <2>1, <2>2
<1> QED BY <1>3, <1>6, <1>7 DEF Woken

\* The callbacks to be run are those of before, but for what f forgets.
SameTask(u, t, f) ==
    /\ u.fiber = t.fiber /\ u.op = t.op /\ u.fd = t.fd /\ u.ev = t.ev
    /\ t.fiber # f /\ t.live => u.live
TasksFrom(f) ==
    \A u \in tasks' : u \in TimerTask /\ \E t \in tasks : SameTask(u, t, f)

LEMMA NoTaskMore ==
    ASSUME WaitInv, NEW f, tasks' \subseteq tasks
    PROVE  TasksFrom(f)
BY DEF WaitInv, EventType, TasksFrom, SameTask

LEMMA ForgottenTasks ==
    ASSUME WaitInv, NEW f \in Fibers, Forget(f)
    PROVE  TasksFrom(f)
<1> SUFFICES ASSUME NEW u \in tasks'
             PROVE  u \in TimerTask /\ \E t \in tasks : SameTask(u, t, f)
  BY DEF TasksFrom
<1>1. PICK t \in tasks : u = [t EXCEPT !.live = @ /\ t.fiber # f]
  BY DEF Forget
<1>2. t \in TimerTask
  BY DEF WaitInv, EventType
<1>3. /\ u.fiber = t.fiber /\ u.op = t.op /\ u.fd = t.fd /\ u.ev = t.ev
      /\ u.live = (t.live /\ t.fiber # f) /\ u \in TimerTask
  BY <1>1, <1>2 DEF TimerTask
<1> QED BY <1>3 DEF SameTask

LEMMA TasksStay ==
    ASSUME WaitInv, NEW f, TasksFrom(f),
           \A g \in Fibers : pc[g] = "asleep" /\ status[g] = "free" =>
               g # f /\ pc'[g] = "asleep" /\ status'[g] = "free"
    PROVE  /\ tasks' \subseteq TimerTask
           /\ \A u \in tasks' : TaskInv(u)'
           /\ \A g \in Fibers : Asleep(g) = {} => Asleep(g)' = {}
<1>1. ASSUME NEW u \in tasks' PROVE TaskInv(u)'
  <2>1. PICK t \in tasks : SameTask(u, t, f)
    BY DEF TasksFrom
  <2>2. TaskInv(t) /\ t \in TimerTask
    BY DEF WaitInv, EventType
  <2>3. t.fiber \in Fibers
    BY <2>2 DEF TimerTask
  <2> QED BY <2>1, <2>2, <2>3 DEF SameTask, TaskInv
<1>2. tasks' \subseteq TimerTask
  BY DEF TasksFrom
<1>3. ASSUME NEW g \in Fibers, Asleep(g) = {}, NEW u \in Asleep(g)'
      PROVE  FALSE
  <2>1. u \in tasks' /\ u.fiber = g /\ u.op = "sleep"
    BY <1>3 DEF Asleep
  <2>2. PICK t \in tasks : SameTask(u, t, f)
    BY <2>1 DEF TasksFrom
  <2> QED BY <1>3, <2>1, <2>2 DEF SameTask, Asleep
<1> QED BY <1>1, <1>2, <1>3

\* A fiber that takes no step goes on waiting, or is woken.
LEMMA OthersWait ==
    ASSUME WaitInv, Woken, NEW g \in Fibers, pc'[g] = pc[g],
           g \in armed' => g \in armed,
           Asleep(g) = {} => Asleep(g)' = {}
    PROVE  FiberInv(g)'
BY DEF WaitInv, FiberInv, Woken

-----------------------------------------------------------------------------
LEMMA InitWait == Init => WaitInv
<1> SUFFICES ASSUME Init PROVE WaitInv
  OBVIOUS
<1>1. /\ type = [fd \in Fds |-> {}]
      /\ holder = [fd \in Fds |-> [e \in {"READ", "WRITE"} |-> None]]
      /\ status = [f \in Fibers |-> "free"]
      /\ armed = {} /\ tasks = {} /\ pc = [f \in Fibers |-> "idle"]
  BY DEF Init, Ev!Init, Ev!Events
<1> QED BY <1>1 DEF WaitInv, EventType, HolderInv, FiberInv

\* A step that moves no fiber, and adds no timer and no callback.
LEMMA NobodyMoves ==
    ASSUME WaitInv, UNCHANGED pc, Woken, armed' \subseteq armed,
           tasks' \subseteq tasks
    PROVE  WaitInv'
<1>1. TasksFrom(None)
  BY NoTaskMore
<1>2. \A g \in Fibers : pc[g] = "asleep" /\ status[g] = "free" =>
          g # None /\ pc'[g] = "asleep" /\ status'[g] = "free"
  BY HookAssumption DEF Woken
<1>3. /\ tasks' \subseteq TimerTask
      /\ \A u \in tasks' : TaskInv(u)'
      /\ \A g \in Fibers : Asleep(g) = {} => Asleep(g)' = {}
  BY <1>1, <1>2, TasksStay
<1>4. \A g \in Fibers : FiberInv(g)'
  BY <1>3, OthersWait
<1>5. EventType' /\ HolderInv'
  BY <1>3 DEF Woken, EventType, WaitInv
<1> QED BY <1>3, <1>4, <1>5 DEF WaitInv

\* A step of a fiber that is not waiting and does not begin to.
LEMMA FiberMoves ==
    ASSUME CallInv, WaitInv, NEW f \in Fibers, NEW l, Goto(f, l),
           pc[f] \notin {"wait", "asleep"}, l \notin {"wait", "asleep"},
           Woken, TasksFrom(f),
           armed' \subseteq armed \cup {f}, f \in armed' => l = "add"
    PROVE  WaitInv'
<1>0. pc \in [Fibers -> Labels] /\ FiberInv(f) /\ armed \subseteq Fibers
  BY DEF CallInv, CallType, WaitInv, EventType
<1>1. /\ pc'[f] = l
      /\ \A g \in Fibers \ {f} : pc'[g] = pc[g] /\ (g \in armed' => g \in armed)
  BY <1>0 DEF Goto
<1>2. \A g \in Fibers : pc[g] = "asleep" /\ status[g] = "free" =>
          g # f /\ pc'[g] = "asleep" /\ status'[g] = "free"
  BY <1>1 DEF Woken
<1>3. /\ tasks' \subseteq TimerTask
      /\ \A u \in tasks' : TaskInv(u)'
      /\ \A g \in Fibers : Asleep(g) = {} => Asleep(g)' = {}
  BY <1>2, TasksStay
<1>4. status'[f] = "free"
  <2>1. status[f] = "free"
    BY <1>0 DEF FiberInv, WaitInv, EventType
  <2> QED BY <2>1 DEF Woken
<1>5. FiberInv(f)'
  BY <1>1, <1>4 DEF FiberInv
<1>6. \A g \in Fibers \ {f} : FiberInv(g)'
  BY <1>1, <1>3, OthersWait
<1>7. EventType' /\ HolderInv'
  BY <1>0, <1>3 DEF Woken, EventType, WaitInv
<1> QED BY <1>3, <1>5, <1>6, <1>7 DEF WaitInv

\* A fiber that was woken is resumed, and its timer is not armed any more.
LEMMA FiberResumes ==
    ASSUME CallInv, WaitInv, NEW f \in Fibers, NEW l, Goto(f, l),
           l \notin {"wait", "asleep"}, Ev!Resume(f), TasksFrom(f),
           armed' \subseteq armed, f \notin armed'
    PROVE  WaitInv'
<1>0. /\ pc \in [Fibers -> Labels] /\ EventType /\ HolderInv
      /\ None \notin Fibers
  BY HookAssumption DEF CallInv, CallType, WaitInv
<1>1. /\ pc'[f] = l /\ status[f] = "queued"
      /\ status' = [status EXCEPT ![f] = "free"] /\ UNCHANGED <<type, holder>>
      /\ \A g \in Fibers \ {f} : pc'[g] = pc[g]
  BY <1>0 DEF Goto, Ev!Resume
<1>2. \A g \in Fibers \ {f} : status'[g] = status[g]
  BY <1>1
<1>3. /\ tasks' \subseteq TimerTask
      /\ \A u \in tasks' : TaskInv(u)'
      /\ \A g \in Fibers : Asleep(g) = {} => Asleep(g)' = {}
  BY <1>1, <1>2, TasksStay
<1>4. FiberInv(f)'
  <2>1. status'[f] = "free"
    BY <1>0, <1>1 DEF EventType
  <2> QED BY <1>1, <2>1 DEF FiberInv
<1>5. \A g \in Fibers \ {f} : FiberInv(g)'
  BY <1>1, <1>2, <1>3 DEF FiberInv, WaitInv
<1>6. EventType'
  BY <1>0, <1>1, <1>3 DEF EventType
<1>7. HolderInv'
  <2>1. \A fd \in Fds, e \in {"READ", "WRITE"} :
            holder[fd][e] # None =>
                holder[fd][e] \in Fibers \ {f} /\ status[holder[fd][e]] = "waiting"
    BY <1>0, <1>1 DEF HolderInv, EventType
  <2> QED BY <1>0, <1>1, <1>2, <2>1 DEF HolderInv
<1> QED BY <1>3, <1>4, <1>5, <1>6, <1>7 DEF WaitInv

\* addEvent, and the fiber yields: the event was free, since no call of this
\* process may register it twice, and the fiber is its holder from now on.
LEMMA WaitWaits ==
    ASSUME CallInv, WaitInv, Running', NEW f \in Fibers, Wait(f)
    PROVE  WaitInv'
<1>0. /\ pc \in [Fibers -> Labels] /\ None \notin Fibers
      /\ type \in [Fds -> SUBSET {"READ", "WRITE"}]
      /\ holder \in [Fds -> [{"READ", "WRITE"} -> Fibers \cup {None}]]
      /\ status \in [Fibers -> {"free", "waiting", "queued"}]
      /\ EventType /\ HolderInv /\ FiberInv(f) /\ CallAt(f)
  BY HookAssumption DEF CallInv, CallType, WaitInv, EventType
<1>1. /\ pc[f] = "add" /\ Goto(f, "wait")
      /\ Ev!AddEvent(f, call[f].fd, call[f].ev) /\ UNCHANGED waitVars
  BY DEF Wait
<1>2. PICK fd \in Fds, e \in {"READ", "WRITE"} : fd = call[f].fd /\ e = call[f].ev
  BY <1>0, <1>1 DEF CallAt, Fits, IOLabels
<1>3. /\ status[f] = "free" /\ e \notin type[fd]
      /\ type' = [type EXCEPT ![fd] = @ \cup {e}]
      /\ holder' = [holder EXCEPT ![fd][e] = f]
      /\ status' = [status EXCEPT ![f] = "waiting"]
  BY <1>1, <1>2 DEF Ev!AddEvent, Running
<1>4. /\ pc'[f] = "wait" /\ \A g \in Fibers \ {f} : pc'[g] = pc[g]
      /\ UNCHANGED <<armed, tasks>>
  BY <1>0, <1>1 DEF Goto, waitVars
<1>5. /\ status'[f] = "waiting" /\ \A g \in Fibers \ {f} : status'[g] = status[g]
      /\ holder'[fd][e] = f
      /\ \A gd \in Fds, d \in {"READ", "WRITE"} :
             ~(gd = fd /\ d = e) =>
                 /\ holder'[gd][d] = holder[gd][d]
                 /\ d \in type'[gd] <=> d \in type[gd]
      /\ e \in type'[fd]
  BY <1>0, <1>3
<1>6. \A gd \in Fds, d \in {"READ", "WRITE"} :
          holder[gd][d] # None =>
              holder[gd][d] \in Fibers \ {f} /\ status[holder[gd][d]] = "waiting"
  BY <1>0, <1>3 DEF HolderInv
<1>7. HolderInv'
  <2>1. \A gd \in Fds, d \in {"READ", "WRITE"} :
            /\ holder'[gd][d] # None <=> d \in type'[gd]
            /\ holder'[gd][d] # None => status'[holder'[gd][d]] = "waiting"
    <3> SUFFICES ASSUME NEW gd \in Fds, NEW d \in {"READ", "WRITE"}
                 PROVE  /\ holder'[gd][d] # None <=> d \in type'[gd]
                        /\ holder'[gd][d] # None => status'[holder'[gd][d]] = "waiting"
      OBVIOUS
    <3>1. CASE gd = fd /\ d = e
      BY <1>0, <1>5, <3>1
    <3>2. CASE ~(gd = fd /\ d = e)
      <4>1. holder[gd][d] # None <=> d \in type[gd]
        BY <1>0 DEF HolderInv
      <4> QED BY <1>5, <1>6, <3>2, <4>1
    <3> QED BY <3>1, <3>2
  <2>2. \A gd, hd \in Fds, d, c \in {"READ", "WRITE"} :
            holder'[gd][d] = holder'[hd][c] /\ holder'[gd][d] # None
                => gd = hd /\ d = c
    <3> SUFFICES ASSUME NEW gd \in Fds, NEW hd \in Fds,
                        NEW d \in {"READ", "WRITE"}, NEW c \in {"READ", "WRITE"},
                        holder'[gd][d] = holder'[hd][c], holder'[gd][d] # None
                 PROVE  gd = hd /\ d = c
      OBVIOUS
    <3>1. holder[gd][d] = holder[hd][c] /\ holder[gd][d] # None => gd = hd /\ d = c
      BY <1>0 DEF HolderInv
    <3> QED BY <1>5, <1>6, <3>1
  <2> QED BY <2>1, <2>2 DEF HolderInv
<1>8. EventType'
  <2>1. /\ type' \in [Fds -> SUBSET {"READ", "WRITE"}]
        /\ holder' \in [Fds -> [{"READ", "WRITE"} -> Fibers \cup {None}]]
        /\ status' \in [Fibers -> {"free", "waiting", "queued"}]
    BY <1>0, <1>3
  <2> QED BY <1>0, <1>4, <2>1 DEF EventType
<1>9. ASSUME NEW g \in Fibers PROVE FiberInv(g)'
  <2>1. CASE g = f
    BY <1>4, <1>5, <2>1 DEF FiberInv
  <2>2. CASE g # f
    <3>1. /\ FiberInv(g) /\ pc'[g] = pc[g] /\ status'[g] = status[g]
          /\ Asleep(g)' = Asleep(g)
      BY <1>4, <1>5, <2>2 DEF WaitInv, Asleep
    <3>2. ASSUME status'[g] = "waiting"
          PROVE  \E gd \in Fds, d \in {"READ", "WRITE"} : holder'[gd][d] = g
      <4>1. PICK gd \in Fds, d \in {"READ", "WRITE"} : holder[gd][d] = g
        BY <3>1, <3>2 DEF FiberInv
      <4>2. ~(gd = fd /\ d = e)
        BY <1>0, <1>3, <4>1 DEF HolderInv
      <4> QED BY <1>5, <4>1, <4>2
    <3> QED BY <1>4, <3>1, <3>2 DEF FiberInv
  <2> QED BY <2>1, <2>2
<1>10. ASSUME NEW t \in tasks' PROVE TaskInv(t)'
  <2>1. t \in tasks /\ TaskInv(t) /\ t.fiber \in Fibers
    BY <1>4 DEF WaitInv, EventType, TimerTask
  <2>2. t.op = "sleep" => t.fiber # f
    BY <1>1, <2>1 DEF TaskInv
  <2> QED BY <1>4, <1>5, <2>1, <2>2 DEF TaskInv
<1> QED BY <1>7, <1>8, <1>9, <1>10 DEF WaitInv

\* A fiber goes to sleep with a timer armed and no callback left of another sleep.
LEMMA SleepWaits ==
    ASSUME CallInv, WaitInv, NEW f \in Fibers, Sleep(f)
    PROVE  WaitInv'
<1>0. pc \in [Fibers -> Labels] /\ EventType /\ FiberInv(f)
  BY DEF CallInv, CallType, WaitInv
<1>1. /\ pc[f] = "idle" /\ pc'[f] = "asleep" /\ armed' = armed \cup {f}
      /\ UNCHANGED <<type, holder, status, tasks>>
      /\ \A g \in Fibers \ {f} : pc'[g] = pc[g]
  BY <1>0 DEF Sleep, Goto, evVars
<1>2. status[f] = "free"
  BY <1>0, <1>1 DEF FiberInv, EventType
<1>3. Asleep(f) = {}
  BY <1>1 DEF Asleep, WaitInv, TaskInv
<1>4. \A g \in Fibers : Asleep(g)' = Asleep(g)
  BY <1>1 DEF Asleep
<1>5. ASSUME NEW g \in Fibers PROVE FiberInv(g)'
  <2>1. CASE g = f
    BY <1>1, <1>2, <1>3, <1>4, <2>1 DEF FiberInv
  <2>2. CASE g # f
    BY <1>1, <1>4, <2>2 DEF FiberInv, WaitInv
  <2> QED BY <2>1, <2>2
<1>6. ASSUME NEW t \in tasks' PROVE TaskInv(t)'
  <2>1. TaskInv(t) /\ t.fiber \in Fibers
    BY <1>1 DEF WaitInv, EventType, TimerTask
  <2>2. t.op = "sleep" => t.fiber # f
    BY <1>1, <2>1 DEF TaskInv
  <2> QED BY <1>1, <2>1, <2>2 DEF TaskInv
<1>7. EventType' /\ HolderInv'
  BY <1>0, <1>1 DEF EventType, HolderInv, WaitInv
<1> QED BY <1>5, <1>6, <1>7 DEF WaitInv

\* A timer expires: its callback is of the call the fiber is in.
LEMMA ExpireWaits ==
    ASSUME CallInv, WaitInv, NEW f \in Fibers, Expire(f)
    PROVE  WaitInv'
<1> DEFINE t == [fiber |-> f, op |-> call[f].op, fd |-> call[f].fd,
                 ev |-> call[f].ev, live |-> TRUE]
<1>0. EventType /\ FiberInv(f) /\ CallAt(f) /\ call[f] \in Call
  BY DEF CallInv, CallType, WaitInv
<1>1. /\ f \in armed /\ armed' = armed \ {f} /\ tasks' = tasks \cup {t}
      /\ UNCHANGED <<pc, type, holder, status>>
  BY DEF Expire, evVars
<1>2. t \in TimerTask
  BY <1>0 DEF TimerTask, Call
<1>3. TaskInv(t)
  <2>1. CASE pc[f] = "asleep"
    BY <1>0, <1>1, <2>1 DEF FiberInv, CallAt, Fits, TaskInv
  <2>2. CASE pc[f] \in {"add", "wait"}
    BY <1>0, <2>2 DEF CallAt, Fits, IOLabels, TaskInv
  <2> QED BY <1>0, <1>1, <2>1, <2>2 DEF FiberInv
<1>f. t.fiber = f
  OBVIOUS
<1> HIDE DEF t
<1>4. \A u \in tasks' : TaskInv(u)'
  BY <1>1, <1>3 DEF WaitInv, TaskInv
<1>5. \A g \in Fibers \ {f} : Asleep(g)' = Asleep(g)
  BY <1>1, <1>f DEF Asleep
<1>6. \A g \in Fibers : FiberInv(g)'
  BY <1>1, <1>5 DEF WaitInv, FiberInv
<1>7. EventType' /\ HolderInv'
  BY <1>0, <1>1, <1>2 DEF EventType, HolderInv, WaitInv
<1> QED BY <1>4, <1>6, <1>7 DEF WaitInv

\* The callback of a sleep: it is the only one of its fiber, whose timer is not
\* armed any more.
LEMMA SleepTaskWaits ==
    ASSUME WaitInv, NEW t \in tasks, RunSleepTask(t)
    PROVE  WaitInv'
<1>0. /\ t \in TimerTask /\ TaskInv(t) /\ EventType /\ HolderInv
      /\ status \in [Fibers -> {"free", "waiting", "queued"}]
  BY DEF WaitInv, EventType
<1>1. PICK f \in Fibers : f = t.fiber
  BY <1>0 DEF TimerTask
<1>2. /\ t.op = "sleep" /\ tasks' = tasks \ {t}
      /\ status' = [status EXCEPT ![f] = "queued"]
      /\ UNCHANGED <<pc, type, holder, armed>>
  BY <1>1 DEF RunSleepTask
<1>3. pc[f] = "asleep" /\ status[f] = "free" /\ t.fd = None /\ t.ev = None /\ t.live
  BY <1>0, <1>1, <1>2 DEF TaskInv
<1>4. \A u \in tasks' : u.op = "sleep" => u.fiber # f
  <2> SUFFICES ASSUME NEW u \in tasks', u.op = "sleep", u.fiber = f PROVE FALSE
    OBVIOUS
  <2>1. u \in TimerTask /\ TaskInv(u) /\ u \in tasks
    BY <1>2 DEF WaitInv, EventType
  <2>2. u.fd = None /\ u.ev = None /\ u.live
    BY <2>1 DEF TaskInv
  <2>3. u.live = t.live
    BY <1>0, <1>3, <2>1, <2>2 DEF TimerTask
  <2>4. u = t
    BY <1>0, <1>1, <1>2, <1>3, <2>1, <2>2, <2>3 DEF TimerTask
  <2> QED BY <1>2, <2>4
<1>5. f \notin armed
  <2>1. t \in Asleep(f)
    BY <1>1, <1>2 DEF Asleep
  <2>2. FiberInv(f)
    BY DEF WaitInv
  <2> QED BY <1>3, <2>1, <2>2 DEF FiberInv
<1>6. status'[f] = "queued" /\ \A g \in Fibers \ {f} : status'[g] = status[g]
  BY <1>0, <1>2
<1>7. ASSUME NEW g \in Fibers PROVE FiberInv(g)'
  <2>1. CASE g = f
    BY <1>2, <1>3, <1>5, <1>6, <2>1 DEF FiberInv
  <2>2. CASE g # f
    <3>1. FiberInv(g) /\ (Asleep(g) = {} => Asleep(g)' = {})
      BY <1>2 DEF WaitInv, Asleep
    <3> QED BY <1>2, <1>6, <2>2, <3>1 DEF FiberInv
  <2> QED BY <2>1, <2>2
<1>8. ASSUME NEW u \in tasks' PROVE TaskInv(u)'
  <2>1. TaskInv(u) /\ u.fiber \in Fibers
    BY <1>2 DEF WaitInv, EventType, TimerTask
  <2> QED BY <1>2, <1>4, <1>6, <2>1 DEF TaskInv
<1>9. EventType' /\ HolderInv'
  <2>1. EventType'
    BY <1>0, <1>2 DEF EventType
  <2>2. \A fd \in Fds, e \in {"READ", "WRITE"} :
            holder[fd][e] # None =>
                holder[fd][e] \in Fibers \ {f} /\ status[holder[fd][e]] = "waiting"
    BY <1>0, <1>3 DEF HolderInv, EventType
  <2> QED BY <1>0, <1>2, <1>6, <2>1, <2>2 DEF HolderInv
<1> QED BY <1>7, <1>8, <1>9 DEF WaitInv

LEMMA CallsWait ==
    ASSUME CallInv, WaitInv, NEW f \in Fibers, Calls(f)
    PROVE  WaitInv'
<1>1. ASSUME NEW fd \in Fds, SocketCall(f, fd)
      PROVE  WaitInv'
  <2>1. /\ pc[f] = "idle" /\ Goto(f, "create")
        /\ UNCHANGED <<type, holder, status, armed, tasks>>
    BY <1>1 DEF SocketCall, evVars, waitVars
  <2>2. TasksFrom(f) /\ Woken
    BY <2>1, NoTaskMore, NobodyWoken
  <2>3. f \notin armed
    BY <2>1 DEF WaitInv, FiberInv
  <2> QED BY <2>1, <2>2, <2>3, FiberMoves
<1>2. ASSUME NEW fd \in Fds, CloseBegin(f, fd)
      PROVE  WaitInv'
  <2>1. /\ pc[f] = "idle" /\ Goto(f, "del") /\ UNCHANGED <<armed, tasks>>
        /\ Ev!CancelAll(fd)
    BY <1>2 DEF CloseBegin, Ev!CloseCancels, waitVars
  <2>2. Ev!Trigger(fd, type[fd]) \/ UNCHANGED <<type, holder, status>>
    BY <2>1 DEF Ev!CancelAll
  <2>3. Woken
    BY <2>2, TriggerWakes, NobodyWoken
  <2>4. TasksFrom(f) /\ f \notin armed
    BY <2>1, NoTaskMore DEF WaitInv, FiberInv
  <2> QED BY <2>1, <2>3, <2>4, FiberMoves
<1>3. ASSUME NEW fd \in Fds, NEW k \in Kinds, Begin(f, fd, k[1], k[2])
      PROVE  WaitInv'
  <2>1. /\ pc[f] = "idle" /\ Goto(f, "sys")
        /\ UNCHANGED <<type, holder, status, armed, tasks>>
    BY <1>3 DEF Begin, evVars, waitVars
  <2>2. TasksFrom(f) /\ Woken
    BY <2>1, NoTaskMore, NobodyWoken
  <2>3. f \notin armed
    BY <2>1 DEF WaitInv, FiberInv
  <2> QED BY <2>1, <2>2, <2>3, FiberMoves
<1> QED BY <1>1, <1>2, <1>3, SleepWaits DEF Calls

LEMMA StepWait ==
    ASSUME CallInv, WaitInv, Running', NEW f \in Fibers, Step(f)
    PROVE  WaitInv'
\* A step inside a call that touches neither events, timers nor callbacks.
<1>g. ASSUME NEW l, Goto(f, l), l \notin {"add", "wait", "asleep"},
             pc[f] \notin {"add", "wait", "asleep"},
             UNCHANGED <<type, holder, status, armed, tasks>>
      PROVE  WaitInv'
  <2>1. TasksFrom(f) /\ Woken
    BY <1>g, NoTaskMore, NobodyWoken
  <2>2. f \notin armed
    BY <1>g DEF WaitInv, FiberInv
  <2> QED BY <1>g, <2>1, <2>2, FiberMoves
\* The fiber leaves its call, with no timer armed.
<1>r. ASSUME Return(f), pc[f] \notin {"wait", "asleep"},
             UNCHANGED <<type, holder, status>>,
             armed' \subseteq armed, f \notin armed'
      PROVE  WaitInv'
  <2>1. Goto(f, "idle") /\ TasksFrom(f) /\ Woken
    BY <1>r, ForgottenTasks, NobodyWoken DEF Return
  <2> QED BY <1>r, <2>1, FiberMoves
<1>1. CASE CreateCtx(f)
  BY <1>1, <1>g DEF CreateCtx, evVars, waitVars
<1>2. CASE CloseDel(f)
  BY <1>2, <1>g DEF CloseDel, evVars, waitVars
<1>3. CASE CloseSys(f)
  BY <1>3, <1>g DEF CloseSys, Ev!CloseFd, waitVars
<1>4. CASE SysReturns(f)
  <2>1. f \notin armed /\ armed' = armed
    BY <1>4 DEF SysReturns, WaitInv, FiberInv
  <2> QED BY <1>4, <1>r, <2>1 DEF SysReturns
<1>5. CASE SysBlocks(f)
  BY <1>5, <1>g DEF SysBlocks, evVars, waitVars
<1>6. CASE SysAgain(f)
  <2>1. /\ pc[f] = "sys" /\ Goto(f, "add") /\ armed' \subseteq armed \cup {f}
        /\ UNCHANGED <<type, holder, status, tasks>>
    BY <1>6 DEF SysAgain, evVars
  <2>2. TasksFrom(f) /\ Woken
    BY <2>1, NoTaskMore, NobodyWoken
  <2> QED BY <2>1, <2>2, FiberMoves
<1>7. CASE Wait(f)
  BY <1>7, WaitWaits
<1>8. CASE WaitFails(f)
  BY <1>8, <1>r DEF WaitFails, evVars
<1>9. CASE Wake(f)
  <2>1. Ev!Resume(f) /\ armed' \subseteq armed /\ f \notin armed'
    BY <1>9 DEF Wake
  <2>2. CASE Return(f)
    <3>1. Goto(f, "idle") /\ TasksFrom(f)
      BY <2>2, ForgottenTasks DEF Return
    <3> QED BY <2>1, <3>1, FiberResumes
  <2>3. CASE Goto(f, "sys") /\ UNCHANGED tasks
    BY <2>1, <2>3, NoTaskMore, FiberResumes
  <2> QED BY <1>9, <2>2, <2>3 DEF Wake
<1>10. CASE WakeFromSleep(f)
  <2>1. /\ Ev!Resume(f) /\ armed' = armed /\ Return(f) /\ pc[f] = "asleep"
        /\ status[f] = "queued"
    BY <1>10 DEF WakeFromSleep, Ev!Resume
  <2>2. f \notin armed
    BY <2>1 DEF WaitInv, FiberInv
  <2>3. Goto(f, "idle") /\ TasksFrom(f)
    BY <2>1, ForgottenTasks DEF Return
  <2> QED BY <2>1, <2>2, <2>3, FiberResumes
<1> QED
  BY <1>1, <1>2, <1>3, <1>4, <1>5, <1>6, <1>7, <1>8, <1>9, <1>10 DEF Step

\* A process that has died stays dead.
LEMMA NobodyRevives == [Next]_vars /\ Running' => Running
<1> SUFFICES ASSUME [Next]_vars, Running' PROVE Running
  OBVIOUS
<1>1. ASSUME NEW f \in Fibers, Calls(f)
      PROVE  Running
  BY <1>1 DEF Calls, SocketCall, CloseBegin, Begin, Sleep, Running,
              Ev!CloseCancels, Ev!Running
<1>2. ASSUME NEW f \in Fibers, Step(f)
      PROVE  Running
  <2>1. CASE \/ CreateCtx(f) \/ CloseDel(f) \/ SysReturns(f) \/ SysBlocks(f)
             \/ SysAgain(f) \/ WaitFails(f)
    BY <2>1 DEF CreateCtx, CloseDel, SysReturns, SysBlocks, SysAgain, WaitFails
  <2>2. CASE CloseSys(f) \/ Wait(f) \/ Wake(f) \/ WakeFromSleep(f)
    BY <2>2 DEF CloseSys, Wait, Wake, WakeFromSleep, Ev!CloseFd, Ev!AddEvent,
                Ev!Resume, Running, Ev!Running
  <2> QED BY <1>2, <2>1, <2>2 DEF Step
<1>3. ASSUME NEW f \in Fibers, Expire(f) \/ RunTask(f)
      PROVE  Running
  BY <1>3 DEF Expire, RunTask, RunSleepTask, RunTimeout
<1>4. ASSUME NEW fd \in Fds, UnhookedClose(fd) \/ Options(fd) \/ Deliver(fd)
      PROVE  Running
  BY <1>4 DEF UnhookedClose, Options, SetTimeout, SetFlags, SetNonblocking, Deliver
<1>5. ASSUME NEW fd \in Fds, Environment(fd)
      PROVE  Running
  BY <1>5 DEF Environment, Ev!BecomesReady, Running, Ev!Running
<1>6. CASE UNCHANGED vars
  BY <1>6 DEF vars, evVars, Running
<1> QED BY <1>1, <1>2, <1>3, <1>4, <1>5, <1>6 DEF Next

LEMMA NextWait ==
    CallInv /\ (Running => WaitInv) /\ [Next]_vars => (Running => WaitInv)'
<1> SUFFICES ASSUME CallInv, Running => WaitInv, [Next]_vars, Running'
             PROVE  WaitInv'
  OBVIOUS
<1>w. WaitInv
  BY NobodyRevives
<1>1. ASSUME NEW f \in Fibers, Calls(f) \/ Step(f) \/ Expire(f)
      PROVE  WaitInv'
  BY <1>1, <1>w, CallsWait, StepWait, ExpireWaits
<1>2. ASSUME NEW f \in Fibers, RunTask(f)
      PROVE  WaitInv'
  <2>1. PICK t \in tasks : RunSleepTask(t) \/ RunTimeout(t)
    BY <1>2 DEF RunTask
  <2>2. CASE RunTimeout(t)
    <3>1. t.fd \in Fds /\ t.ev \in {"READ", "WRITE"}
      BY <1>w, <2>2 DEF RunTimeout, WaitInv, TaskInv
    <3>2. UNCHANGED <<pc, armed>> /\ tasks' \subseteq tasks
      BY <2>2 DEF RunTimeout
    <3>3. \/ t.ev \in type[t.fd] /\ Ev!Trigger(t.fd, {t.ev})
          \/ UNCHANGED <<type, holder, status>>
      BY <2>2 DEF RunTimeout, CancelEvent, Cancelable, Ev!CancelEvent, evVars
    <3>4. Woken
      BY <1>w, <3>1, <3>3, TriggerWakes, NobodyWoken
    <3> QED BY <1>w, <3>2, <3>4, NobodyMoves
  <2> QED BY <1>w, <2>1, <2>2, SleepTaskWaits
<1>3. ASSUME NEW fd \in Fds, Deliver(fd)
      PROVE  WaitInv'
  <2>1. /\ Ev!Trigger(fd, level[fd] \cap type[fd])
        /\ UNCHANGED <<pc, armed, tasks>>
    BY <1>3 DEF Deliver, waitVars
  <2>2. Woken
    BY <1>w, <2>1, TriggerWakes
  <2> QED BY <1>w, <2>1, <2>2, NobodyMoves
<1>4. ASSUME UNCHANGED <<pc, type, holder, status, armed, tasks>>
      PROVE  WaitInv'
  BY <1>w, <1>4, NobodyWoken, NobodyMoves
<1>5. ASSUME NEW fd \in Fds, UnhookedClose(fd) \/ Options(fd) \/ Environment(fd)
      PROVE  WaitInv'
  BY <1>4, <1>5 DEF UnhookedClose, Options, SetTimeout, SetFlags, SetNonblocking,
                    Environment, Ev!BecomesReady, evVars, waitVars
<1>6. CASE UNCHANGED vars
  BY <1>4, <1>6 DEF vars, evVars, waitVars
<1> QED BY <1>1, <1>2, <1>3, <1>5, <1>6 DEF Next

LEMMA WaitIsEnough == CallInv /\ (Running => WaitInv) => NothingLeftBehind
<1> SUFFICES ASSUME CallInv, WaitInv, NEW f \in Fibers
             PROVE  /\ f \in armed => pc[f] \in {"add", "wait", "asleep"}
                    /\ HeldAt(f) # {} => pc[f] = "wait"
                    /\ pc[f] = "wait" =>
                           Cardinality(HeldAt(f)) =
                               IF status[f] = "queued" THEN 0 ELSE 1
  BY DEF NothingLeftBehind
<1>0. /\ HolderInv /\ FiberInv(f) /\ f # None
      /\ status[f] \in {"free", "waiting", "queued"}
  BY HookAssumption DEF WaitInv, EventType
<1>1. HeldAt(f) # {} => status[f] = "waiting"
  BY <1>0 DEF HeldAt, HolderInv, Events, Ev!Events
<1>2. CASE status[f] = "waiting"
  <2>1. PICK fd \in Fds, e \in {"READ", "WRITE"} : holder[fd][e] = f
    BY <1>0, <1>2 DEF FiberInv
  <2>2. \A gd \in Fds, d \in {"READ", "WRITE"} :
            holder[gd][d] = f => gd = fd /\ d = e
    BY <1>0, <2>1 DEF HolderInv
  <2>3. HeldAt(f) = {<<fd, e>>}
    BY <2>1, <2>2 DEF HeldAt, Events, Ev!Events
  <2>4. Cardinality(HeldAt(f)) = 1
    BY <2>3, FS_Singleton
  <2> QED BY <1>0, <1>2, <2>4 DEF FiberInv
<1>3. CASE status[f] # "waiting"
  <2>1. HeldAt(f) = {} /\ Cardinality(HeldAt(f)) = 0
    BY <1>1, <1>3, FS_EmptySet
  <2> QED BY <1>0, <1>3, <2>1 DEF FiberInv
<1> QED BY <1>2, <1>3

\* A call leaves neither an event nor a timer behind, on whatever way it ends,
\* and a waiting fiber is held by exactly one event or is about to be resumed:
\* a sleep, a timeout, an event and a close can all come in any order.
THEOREM CallsLeaveNothing == Spec => []NothingLeftBehind
<1>1. Init => (Running => WaitInv)
  BY InitWait
<1>2. CallInv /\ (Running => WaitInv) /\ [Next]_vars => (Running => WaitInv)'
  BY NextWait
<1>3. CallInv /\ (Running => WaitInv) => NothingLeftBehind
  BY WaitIsEnough
<1> QED BY <1>1, <1>2, <1>3, CallAndCtx, PTL DEF Spec
=============================================================================
