--------------------------- MODULE SchedulerProof ---------------------------
(***************************************************************************)
(* Proofs about module Scheduler, for every number of threads, callbacks   *)
(* and waits, with and without use_main.                                   *)
(***************************************************************************)
EXTENDS SchedulerProps, SequenceTheorems, FiniteSetTheorems, TLAPS

LEMMA RunnersAreProcs == Runners \subseteq Procs /\ Main \in Procs
BY DEF Runners, Procs

\* Taking a task out of the list, as Run does under m_mutex, leaves a list.
LEMMA RemoveAtType ==
    ASSUME NEW S, NEW s \in Seq(S), NEW i \in 1..Len(s)
    PROVE  RemoveAt(s, i) \in Seq(S)
<1>1. SubSeq(s, 1, i - 1) \in Seq(S)
  BY SubSeqProperties
<1>2. SubSeq(s, i + 1, Len(s)) \in Seq(S)
  BY SubSeqProperties
<1> QED BY <1>1, <1>2, ConcatProperties DEF RemoveAt

LEMMA TaskTypes ==
    /\ \A j \in Jobs : CbTask(j) \in Task /\ FiberTask(j) \in Task
    /\ NoTask \notin Task
<1>1. \A j \in Jobs : CbTask(j) \in Task
  BY PinAssumption DEF CbTask, Task
<1>2. \A j \in Jobs : FiberTask(j) \in Task
  BY DEF FiberTask, Task
<1>3. NoTask \notin Task
  BY JobAssumption DEF NoTask, Task
<1> QED BY <1>1, <1>2, <1>3

\* A task that is not empty names a callback or a fiber.
LEMMA KindOfTask ==
    \A t \in Task \cup {NoTask} : t.kind \in {"cb", "fiber"} => t.id \in Jobs
BY DEF Task, NoTask

LEMMA InitTypeOK == Init => TypeOK
<1> SUFFICES ASSUME Init PROVE TypeOK
  OBVIOUS
<1>1. pc \in [Procs -> Labels]
  BY DEF Init, Labels
<1>2. tasks \in Seq(Task) /\ cur \in [Procs -> Task \cup {NoTask}]
  BY DEF Init
<1>3. left \in [Jobs -> 0..MaxWaits]
  BY JobAssumption DEF Init
<1>4. /\ exec \in [Procs -> OnStack]
      /\ ctx \in [Jobs -> Context]
  BY DEF Init, OffCpu, OnStack, Context
<1>5. /\ cbFiber \in [Procs -> Jobs \cup {None}]
      /\ fstate \in [Jobs -> {"INIT", "RUNNING", "TERM", "HOLD"}]
      /\ reg \in [Jobs -> Jobs \cup {None}]
      /\ fdLock \in [Jobs -> Procs \cup {None}]
      /\ evs \in [Procs -> SUBSET (Jobs \cup {Efd})]
  BY DEF Init
<1>6. active \in Int /\ idle \in Int /\ pending \in Int
  BY DEF Init
<1>7. /\ enableStop \in BOOLEAN /\ efdCnt \in BOOLEAN
      /\ ready \subseteq Jobs \cup {Efd}
      /\ submitted \subseteq Jobs /\ done \subseteq Jobs
      /\ crash \in Reasons
  BY Zenon DEF Init, Reasons
<1> QED BY <1>1, <1>2, <1>3, <1>4, <1>5, <1>6, <1>7, Zenon DEF TypeOK

LEMMA SwapInType ==
    ASSUME TypeOK, NEW p \in Procs, NEW f \in Jobs, NEW c \in Context,
           SwapIn(p, f, c)
    PROVE  exec' \in [Procs -> OnStack] /\ crash' \in Reasons
<1>1. exec' \in {exec, [exec EXCEPT ![p] = [fiber |-> f, job |-> c.job]]}
  BY DEF SwapIn
<1>2. crash' \in {crash, "shared stack", "never reach"}
  BY DEF SwapIn, Abort
<1>3. exec \in [Procs -> OnStack] /\ crash \in Reasons
  BY DEF TypeOK
<1>4. [fiber |-> f, job |-> c.job] \in OnStack
  BY DEF Context, OnStack
<1>5. exec' \in [Procs -> OnStack]
  BY <1>1, <1>3, <1>4
<1>6. crash' \in Reasons
  BY <1>2, <1>3 DEF Reasons
<1> QED BY <1>5, <1>6

LEMMA RunStepTypeOK ==
    ASSUME TypeOK, NEW p \in Runners, RunStep(p)
    PROVE  TypeOK'
<1> USE RunnersAreProcs
<1> p \in Procs
  OBVIOUS
<1>1. CASE Take(p)
  <2>1. CASE Takeable(p) = {}
    BY <1>1, <2>1
    DEF Take, At, Goto, fiberVars, ioVars, jobVars, TypeOK, Labels
  <2>2. ASSUME NEW i \in Takeable(p),
               cur' = [cur EXCEPT ![p] = tasks[i]],
               tasks' = RemoveAt(tasks, i),
               Goto(p, IF Len(tasks) = 1 THEN "dispatch" ELSE "notify")
        PROVE  TypeOK'
    <3>1. i \in 1..Len(tasks) /\ tasks[i] \in Task
      <4>1. tasks \in Seq(Task) /\ i \in DOMAIN tasks
        BY DEF Takeable, TypeOK
      <4> QED BY <4>1
    <3>2. tasks' \in Seq(Task)
      BY <2>2, <3>1, RemoveAtType DEF TypeOK
    <3> QED
      BY <1>1, <2>2, <3>1, <3>2
      DEF Take, At, Goto, fiberVars, ioVars, jobVars, TypeOK, Labels
  <2> QED BY <1>1, <2>1, <2>2 DEF Take
<1>2. CASE RunNotify(p)
  BY <1>2 DEF RunNotify, Notify, At, Goto, fiberVars, jobVars, TypeOK, Labels
<1>3. CASE DispatchCb(p)
  <2> DEFINE j == cur[p].id
             f == IF cbFiber[p] = None THEN j ELSE cbFiber[p]
             c == [at |-> "entry", job |-> j]
  <2>1. j \in Jobs
    BY <1>3, KindOfTask DEF DispatchCb, TypeOK
  <2>2. f \in Jobs /\ c \in Context
    BY <2>1 DEF TypeOK, Context
  <2>3. /\ cbFiber' = [cbFiber EXCEPT ![p] = f]
        /\ ctx' = [ctx EXCEPT ![f] = c]
        /\ fstate' = [fstate EXCEPT ![f] = "RUNNING"]
        /\ SwapIn(p, f, c)
    BY <1>3 DEF DispatchCb
  <2>4. exec' \in [Procs -> OnStack] /\ crash' \in Reasons
    BY <2>1, <2>2, <2>3, SwapInType
  <2>6. pc' \in [Procs -> Labels] /\ active' \in Int
    BY <1>3 DEF DispatchCb, At, Goto, ioVars, jobVars, TypeOK, Labels
  <2>7. cbFiber' \in [Procs -> Jobs \cup {None}] /\ ctx' \in [Jobs -> Context]
    BY <2>2, <2>3 DEF TypeOK
  <2>8. fstate' \in [Jobs -> {"INIT", "RUNNING", "TERM", "HOLD"}]
    BY <2>2, <2>3 DEF TypeOK
  <2> QED
    BY <1>3, <2>4, <2>6, <2>7, <2>8
    DEF DispatchCb, ioVars, jobVars, TypeOK
<1>4. CASE DispatchFiber(p)
  <2>1. cur[p].id \in Jobs
    BY <1>4, KindOfTask DEF DispatchFiber, TypeOK
  <2>2. CASE fstate[cur[p].id] = "TERM"
    BY <1>4, <2>2
    DEF DispatchFiber, At, Goto, ioVars, jobVars, TypeOK, Labels
  <2>3. CASE fstate[cur[p].id] # "TERM"
    <3>1. ctx[cur[p].id] \in Context
      BY <2>1 DEF TypeOK
    <3>2. /\ SwapIn(p, cur[p].id, ctx[cur[p].id]) /\ cur' = cur
          /\ fstate' = [fstate EXCEPT ![cur[p].id] = "RUNNING"]
      BY <1>4, <2>3 DEF DispatchFiber
    <3>3. exec' \in [Procs -> OnStack] /\ crash' \in Reasons
      BY <2>1, <3>1, <3>2, SwapInType
    <3>4. pc' = [pc EXCEPT ![p] = "job"] /\ active' = active + 1
      BY <1>4, <2>3 DEF DispatchFiber, Goto
    <3>5. pc' \in [Procs -> Labels] /\ active' \in Int
      <4>1. pc \in [Procs -> Labels] /\ active \in Int
        BY DEF TypeOK
      <4> QED BY <3>4, <4>1 DEF Labels
    <3> QED
      BY <1>4, <3>2, <3>3, <3>5 DEF DispatchFiber, ioVars, jobVars, TypeOK
  <2> QED BY <2>2, <2>3
<1>5. CASE AfterSwapIn(p)
  BY <1>5
  DEF AfterSwapIn, At, Goto, fiberVars, ioVars, jobVars, TypeOK, Labels
<1>6. CASE CheckCb(p)
  <2>1. /\ pc' = [pc EXCEPT ![p] = "take"]
        /\ cur' = [cur EXCEPT ![p] = NoTask]
    BY <1>6 DEF CheckCb, Goto
  <2>2. pc' \in [Procs -> Labels] /\ cur' \in [Procs -> Task \cup {NoTask}]
    BY <2>1 DEF TypeOK, Labels
  <2>3. /\ \/ fstate' = [fstate EXCEPT ![cbFiber[p]] = "INIT"]
           \/ fstate' = fstate
        /\ \/ ctx' = [ctx EXCEPT ![cbFiber[p]] = [at |-> "entry", job |-> None]]
           \/ ctx' = ctx
        /\ \/ cbFiber' = [cbFiber EXCEPT ![p] = None]
           \/ cbFiber' = cbFiber
    BY <1>6 DEF CheckCb
  <2>4. /\ fstate' \in [Jobs -> {"INIT", "RUNNING", "TERM", "HOLD"}]
        /\ cbFiber' \in [Procs -> Jobs \cup {None}]
    BY <2>3 DEF TypeOK
  <2>5. ctx' \in [Jobs -> Context]
    <3>1. [at |-> "entry", job |-> None] \in Context
      BY DEF Context
    <3>2. ctx \in [Jobs -> Context]
      BY DEF TypeOK
    <3> QED BY <2>3, <3>1, <3>2
  <2> QED
    BY <1>6, <2>2, <2>4, <2>5 DEF CheckCb, ioVars, jobVars, TypeOK
<1>7. CASE CheckFiber(p)
  BY <1>7
  DEF CheckFiber, At, Goto, fiberVars, ioVars, jobVars, TypeOK, Labels
<1>8. CASE SetHold(p)
  BY <1>8 DEF SetHold, At, Goto, ioVars, jobVars, TypeOK, Labels
<1>9. CASE RunCanStop(p)
  BY <1>9
  DEF RunCanStop, ReadPending, ReadScheduler, At, Goto, fiberVars, ioVars,
      jobVars, TypeOK, Labels
<1> QED BY <1>1, <1>2, <1>3, <1>4, <1>5, <1>6, <1>7, <1>8, <1>9 DEF RunStep

LEMMA JobStepTypeOK ==
    ASSUME TypeOK, NEW p \in Runners, JobStep(p)
    PROVE  TypeOK'
<1> USE RunnersAreProcs
<1> p \in Procs
  OBVIOUS
<1>1. CASE AddEvent(p)
  <2> DEFINE f == exec[p].fiber
             j == exec[p].job
  <2>1. j # None /\ left[j] > 0 /\ left' = [left EXCEPT ![j] = @ - 1]
    BY <1>1 DEF AddEvent
  <2>2. reg' = [reg EXCEPT ![j] = f]
    BY <1>1 DEF AddEvent
  <2>3. pc' = [pc EXCEPT ![p] = "yield"]
    BY <1>1 DEF AddEvent, Goto
  <2>4. crash' \in {crash, "addEvent: state"} /\ pending' = pending + 1
    BY <1>1 DEF AddEvent, Abort
  <2>5. j \in Jobs /\ f \in Jobs \cup {None}
    BY <2>1 DEF TypeOK, OnStack
  <2> HIDE DEF f, j
  <2>6. left' \in [Jobs -> 0..MaxWaits]
    <3>1. left \in [Jobs -> 0..MaxWaits]
      BY DEF TypeOK
    <3> QED BY <2>1, <2>5, <3>1, JobAssumption
  <2>7. reg' \in [Jobs -> Jobs \cup {None}]
    BY <2>2, <2>5 DEF TypeOK
  <2>8. pc' \in [Procs -> Labels]
    BY <2>3 DEF TypeOK, Labels
  <2>9. pending' \in Int /\ crash' \in Reasons
    <3>1. pending \in Int /\ crash \in Reasons
      BY DEF TypeOK
    <3>2. pending' = pending + 1
      BY <2>4
    <3>3. crash' \in Reasons
      BY <2>4, <3>1, Zenon DEF Reasons
    <3> QED BY <3>1, <3>2, <3>3
  <2> QED
    BY <1>1, <2>6, <2>7, <2>8, <2>9 DEF AddEvent, fiberVars, TypeOK
<1>2. CASE YieldToHold(p)
  <2>1. /\ pc' = [pc EXCEPT ![p] = "after"]
        /\ exec' = [exec EXCEPT ![p] = OffCpu]
    BY <1>2 DEF YieldToHold, Goto
  <2>2. /\ fstate' = [fstate EXCEPT ![exec[p].fiber] = "HOLD"]
        /\ crash' \in {crash, "yield: state"}
    BY <1>2 DEF YieldToHold, Abort
  <2>3. ctx' = [ctx EXCEPT ![exec[p].fiber] =
                    [at |-> "yield", job |-> exec[p].job]]
    BY <1>2 DEF YieldToHold
  <2>4. ctx' \in [Jobs -> Context]
    BY <2>3 DEF TypeOK, Context, OnStack
  <2>5. pc' \in [Procs -> Labels] /\ exec' \in [Procs -> OnStack]
    BY <2>1 DEF TypeOK, Labels, OnStack, OffCpu
  <2>6. /\ fstate' \in [Jobs -> {"INIT", "RUNNING", "TERM", "HOLD"}]
        /\ crash' \in Reasons
    BY <2>2 DEF TypeOK, Reasons
  <2> QED
    BY <1>2, <2>4, <2>5, <2>6 DEF YieldToHold, ioVars, jobVars, TypeOK
<1>3. CASE Return(p)
  <2>1. /\ pc' = [pc EXCEPT ![p] = "term"]
        /\ fstate' = [fstate EXCEPT ![exec[p].fiber] = "TERM"]
    BY <1>3 DEF Return, Goto
  <2>2. done' = done \cup ({exec[p].job} \ {None})
    BY <1>3 DEF Return
  <2>3. done' \subseteq Jobs
    BY <2>2 DEF TypeOK, OnStack
  <2>4. /\ pc' \in [Procs -> Labels]
        /\ fstate' \in [Jobs -> {"INIT", "RUNNING", "TERM", "HOLD"}]
    BY <2>1 DEF TypeOK, Labels
  <2> QED BY <1>3, <2>3, <2>4 DEF Return, ioVars, TypeOK
<1>4. CASE TermSwapOut(p)
  <2>1. /\ pc' = [pc EXCEPT ![p] = "after"]
        /\ exec' = [exec EXCEPT ![p] = OffCpu]
    BY <1>4 DEF TermSwapOut, Goto
  <2>2. ctx' = [ctx EXCEPT ![exec[p].fiber] = [at |-> "exit", job |-> None]]
    BY <1>4 DEF TermSwapOut
  <2>3. ctx' \in [Jobs -> Context]
    BY <2>2 DEF TypeOK, Context
  <2>4. pc' \in [Procs -> Labels] /\ exec' \in [Procs -> OnStack]
    BY <2>1 DEF TypeOK, Labels, OnStack, OffCpu
  <2> QED
    BY <1>4, <2>3, <2>4 DEF TermSwapOut, ioVars, jobVars, TypeOK
<1>5. ASSUME NEW k \in Jobs, JobPush(p, k)
      PROVE  TypeOK'
  BY <1>5, TaskTypes
  DEF JobPush, Push, At, Goto, fiberVars, ioVars, TypeOK, Labels
<1>6. CASE JobNotify(p)
  BY <1>6 DEF JobNotify, Notify, At, Goto, fiberVars, jobVars, TypeOK, Labels
<1> QED BY <1>1, <1>2, <1>3, <1>4, <1>5, <1>6 DEF JobStep

LEMMA IdleStepTypeOK ==
    ASSUME TypeOK, NEW p \in Runners, IdleStep(p)
    PROVE  TypeOK'
<1> USE RunnersAreProcs
<1> p \in Procs
  OBVIOUS
<1>1. CASE GoIdle(p)
  BY <1>1 DEF GoIdle, At, Goto, fiberVars, ioVars, jobVars, TypeOK, Labels
<1>2. CASE IdleCanStop(p)
  BY <1>2
  DEF IdleCanStop, ReadPending, ReadScheduler, At, Goto, fiberVars, ioVars,
      jobVars, TypeOK, Labels
<1>3. CASE EpollWait(p)
  BY <1>3 DEF EpollWait, At, Goto, fiberVars, jobVars, TypeOK, Labels
<1>4. CASE DrainEventfd(p)
  BY <1>4 DEF DrainEventfd, At, fiberVars, jobVars, TypeOK
<1>5. ASSUME NEW j \in Jobs, SkipEvent(p, j)
      PROVE  TypeOK'
  BY <1>5 DEF SkipEvent, At, fiberVars, jobVars, TypeOK
<1>6. ASSUME NEW j \in Jobs, TriggerEvent(p, j)
      PROVE  TypeOK'
  BY <1>6, TaskTypes
  DEF TriggerEvent, Push, At, Goto, fiberVars, jobVars, TypeOK, Labels
<1>7. CASE EventNotify(p)
  <2>1. fdLock' \in [Jobs -> Procs \cup {None}]
    BY <1>7 DEF EventNotify, TypeOK
  <2>2. pc' \in [Procs -> Labels] /\ pending' \in Int
    BY <1>7 DEF EventNotify, Notify, At, Goto, fiberVars, jobVars, TypeOK, Labels
  <2> QED
    BY <1>7, <2>1, <2>2 DEF EventNotify, Notify, fiberVars, jobVars, TypeOK
<1>8. CASE IdleYield(p)
  BY <1>8 DEF IdleYield, At, Goto, fiberVars, ioVars, jobVars, TypeOK, Labels
<1>9. CASE IdleBack(p)
  BY <1>9 DEF IdleBack, At, Goto, fiberVars, ioVars, jobVars, TypeOK, Labels
<1> QED BY <1>1, <1>2, <1>3, <1>4, <1>5, <1>6, <1>7, <1>8, <1>9 DEF IdleStep

LEMMA MainStepTypeOK ==
    ASSUME TypeOK, MainStep
    PROVE  TypeOK'
<1> USE RunnersAreProcs
<1>1. ASSUME NEW j \in Jobs, MainPush(j)
      PROVE  TypeOK'
  BY <1>1, TaskTypes
  DEF MainPush, Push, At, Goto, fiberVars, ioVars, TypeOK, Labels
<1>2. CASE MainNotify
  BY <1>2 DEF MainNotify, Notify, At, Goto, fiberVars, jobVars, TypeOK, Labels
<1>3. CASE Stop
  BY <1>3 DEF Stop, At, Goto, fiberVars, ioVars, jobVars, TypeOK, Labels
<1>4. CASE Join
  BY <1>4 DEF Join, At, Goto, fiberVars, ioVars, jobVars, TypeOK, Labels
<1> QED BY <1>1, <1>2, <1>3, <1>4 DEF MainStep

LEMMA NextTypeOK == TypeOK /\ [Next]_vars => TypeOK'
<1> SUFFICES ASSUME TypeOK, [Next]_vars
             PROVE  TypeOK'
  OBVIOUS
<1>1. ASSUME NEW p \in Runners, RunStep(p) \/ JobStep(p) \/ IdleStep(p)
      PROVE  TypeOK'
  BY <1>1, RunStepTypeOK, JobStepTypeOK, IdleStepTypeOK
<1>2. ASSUME NEW j \in Jobs, FdReady(j)
      PROVE  TypeOK'
  BY <1>2 DEF FdReady, fiberVars, jobVars, TypeOK
<1>3. CASE Over \/ UNCHANGED vars
  BY <1>3 DEF Over, vars, TypeOK
<1> QED BY <1>1, <1>2, <1>3, MainStepTypeOK DEF Next

\* Every variable of the scheduler keeps its type; in particular only real
\* tasks are ever queued (a triggered event always has a fiber to hand over).
THEOREM TypeCorrect == Spec => []TypeOK
BY InitTypeOK, NextTypeOK, PTL DEF Spec

-----------------------------------------------------------------------------
(***************************************************************************)
(* A callback is started at most once.  StartedOnce counts the places a    *)
(* callback waits in; the proof works with the places themselves, and with *)
(* the fact that the local variable task of Run is empty again whenever    *)
(* its thread asks for the next task.                                      *)
(***************************************************************************)
FreeLabels == {"main", "mainNotify", "take", "goIdle", "runStop", "runStop2"}
                  \cup IdleLabels
FreeInv == \A p \in Procs : pc[p] \in FreeLabels => cur[p] = NoTask

Once(j) ==
    /\ \A i, k \in QueuedAt(j) : i = k
    /\ \A p, q \in TakenBy(j) : p = q
    /\ QueuedAt(j) = {} \/ TakenBy(j) = {}
    /\ Begun(j) => QueuedAt(j) = {} /\ TakenBy(j) = {}
    /\ j \notin submitted => /\ QueuedAt(j) = {} /\ TakenBy(j) = {}
                             /\ ~Begun(j)

OnceInv == FreeInv /\ \A j \in Jobs : Once(j)

\* A finite set has at most one member exactly when any two are equal.
LEMMA OneAtMost ==
    ASSUME NEW S, IsFiniteSet(S)
    PROVE  /\ Cardinality(S) \in Nat
           /\ Cardinality(S) = 0 <=> S = {}
           /\ (\A x, y \in S : x = y) => Cardinality(S) <= 1
<1>1. Cardinality(S) \in Nat
  BY FS_CardinalityType
<1>2. Cardinality(S) = 0 <=> S = {}
  BY FS_EmptySet
<1>3. ASSUME \A x, y \in S : x = y
      PROVE  Cardinality(S) <= 1
  <2>1. CASE S = {}
    BY <2>1, <1>2
  <2>2. CASE S # {}
    <3>1. PICK x \in S : S = {x}
      BY <1>3, <2>2
    <3>2. Cardinality(S) = 1
      BY <3>1, FS_Singleton
    <3> QED BY <3>2
  <2> QED BY <2>1, <2>2
<1> QED BY <1>1, <1>2, <1>3

LEMMA PlacesAreFinite ==
    ASSUME TypeOK, NEW j \in Jobs
    PROVE  IsFiniteSet(QueuedAt(j)) /\ IsFiniteSet(TakenBy(j))
<1>1. IsFiniteSet(QueuedAt(j))
  <2>1. tasks \in Seq(Task)
    BY DEF TypeOK
  <2>2. DOMAIN tasks = 1..Len(tasks) /\ Len(tasks) \in Nat
    BY <2>1
  <2>3. IsFiniteSet(1..Len(tasks))
    BY <2>2, FS_Interval
  <2>4. QueuedAt(j) \subseteq 1..Len(tasks)
    BY <2>2 DEF QueuedAt
  <2> QED BY <2>3, <2>4, FS_Subset
<1>2. IsFiniteSet(TakenBy(j))
  <2>1. IsFiniteSet(Procs)
    BY ProcAssumption, FS_AddElement DEF Procs
  <2>2. TakenBy(j) \subseteq Procs
    BY DEF TakenBy
  <2> QED BY <2>1, <2>2, FS_Subset
<1> QED BY <1>1, <1>2

LEMMA OnceIsEnough == TypeOK /\ OnceInv => StartedOnce
<1> SUFFICES ASSUME TypeOK, OnceInv, NEW j \in Jobs
             PROVE  LET places == Cardinality(QueuedAt(j))
                                      + Cardinality(TakenBy(j))
                    IN  /\ places <= 1
                        /\ Begun(j) => places = 0
                        /\ (j \notin submitted) => places = 0 /\ ~Begun(j)
  BY DEF StartedOnce
<1>1. Once(j)
  BY DEF OnceInv
<1> DEFINE q == Cardinality(QueuedAt(j))
           t == Cardinality(TakenBy(j))
<1>2. /\ q \in Nat /\ (q = 0 <=> QueuedAt(j) = {})
      /\ q <= 1
  BY <1>1, PlacesAreFinite, OneAtMost DEF Once
<1>3. /\ t \in Nat /\ (t = 0 <=> TakenBy(j) = {})
      /\ t <= 1
  BY <1>1, PlacesAreFinite, OneAtMost DEF Once
<1>4. /\ q = 0 \/ t = 0
      /\ Begun(j) => q = 0 /\ t = 0
      /\ j \notin submitted => q = 0 /\ t = 0 /\ ~Begun(j)
  BY <1>1, <1>2, <1>3 DEF Once
<1> HIDE DEF q, t
<1>5. /\ q + t <= 1
      /\ Begun(j) => q + t = 0
      /\ (j \notin submitted) => q + t = 0 /\ ~Begun(j)
  BY <1>2, <1>3, <1>4
<1> QED BY <1>5 DEF q, t

LEMMA InitOnce == Init => OnceInv
<1> SUFFICES ASSUME Init PROVE OnceInv
  OBVIOUS
<1>1. FreeInv
  BY DEF Init, FreeInv
<1>2. ASSUME NEW j \in Jobs PROVE Once(j)
  <2>1. QueuedAt(j) = {}
    BY DEF Init, QueuedAt
  <2>2. TakenBy(j) = {}
    BY DEF Init, TakenBy, NoTask
  <2>3. ~Begun(j)
    BY JobAssumption DEF Init, Begun, OffCpu
  <2> QED BY <2>1, <2>2, <2>3 DEF Once
<1> QED BY <1>1, <1>2 DEF OnceInv

\* Steps that add no place for a callback and begin none.
Quiet(j) ==
    /\ \A i \in QueuedAt(j)' : i \in QueuedAt(j)
    /\ \A p \in TakenBy(j)' : p \in TakenBy(j)
    /\ Begun(j)' => Begun(j)
    /\ submitted \subseteq submitted'

LEMMA QuietOnce ==
    ASSUME NEW j \in Jobs, Once(j), Quiet(j)
    PROVE  Once(j)'
BY DEF Once, Quiet

LEMMA PushedFiber ==
    ASSUME TypeOK, NEW f \in Jobs, Push(FiberTask(f)), NEW j \in Jobs
    PROVE  \A i \in QueuedAt(j)' : i \in QueuedAt(j)
<1> DEFINE t == FiberTask(f)
<1>1. tasks \in Seq(Task) /\ tasks' = Append(tasks, t)
  BY DEF TypeOK, Push
<1>2. t \in Task /\ t.kind = "fiber"
  BY TaskTypes DEF FiberTask
<1> HIDE DEF t
<1>3. /\ DOMAIN tasks' = 1..(Len(tasks) + 1) /\ Len(tasks) \in Nat
      /\ DOMAIN tasks = 1..Len(tasks)
      /\ \A i \in 1..Len(tasks) : tasks'[i] = tasks[i]
      /\ tasks'[Len(tasks) + 1] = t
  BY <1>1, <1>2
<1> QED BY <1>2, <1>3 DEF QueuedAt

LEMMA PushedCb ==
    ASSUME TypeOK, NEW k \in Jobs, Push(CbTask(k)), NEW j \in Jobs
    PROVE  \A i \in QueuedAt(j)' :
               i \in QueuedAt(j) \/ (j = k /\ i = Len(tasks) + 1)
<1> DEFINE t == CbTask(k)
<1>1. tasks \in Seq(Task) /\ tasks' = Append(tasks, t)
  BY DEF TypeOK, Push
<1>2. t \in Task /\ t.id = k
  BY TaskTypes DEF CbTask
<1> HIDE DEF t
<1>3. /\ DOMAIN tasks' = 1..(Len(tasks) + 1) /\ Len(tasks) \in Nat
      /\ DOMAIN tasks = 1..Len(tasks)
      /\ \A i \in 1..Len(tasks) : tasks'[i] = tasks[i]
      /\ tasks'[Len(tasks) + 1] = t
  BY <1>1, <1>2
<1> QED BY <1>2, <1>3 DEF QueuedAt

\* A thread that goes anywhere but on to dispatching holds no callback.
LEMMA Leaves ==
    ASSUME TypeOK, NEW p \in Procs, NEW l, l \notin {"notify", "dispatch"},
           Goto(p, l), cur' = cur \/ cur' = [cur EXCEPT ![p] = NoTask],
           NEW j \in Jobs
    PROVE  \A q \in TakenBy(j)' : q \in TakenBy(j)
<1> SUFFICES ASSUME NEW q \in TakenBy(j)' PROVE q \in TakenBy(j)
  OBVIOUS
<1>1. pc' = [pc EXCEPT ![p] = l]
  BY DEF Goto
<1>2. /\ q \in Procs /\ cur'[q].kind = "cb" /\ cur'[q].id = j
      /\ pc'[q] \in {"notify", "dispatch"}
  BY DEF TakenBy
<1>3. pc \in [Procs -> Labels] /\ cur \in [Procs -> Task \cup {NoTask}]
  BY DEF TypeOK
<1>4. q # p /\ pc[q] = pc'[q]
  BY <1>1, <1>2, <1>3
<1>5. cur'[q] = cur[q]
  BY <1>2, <1>3, <1>4
<1> QED BY <1>2, <1>4, <1>5 DEF TakenBy

\* ... and its local variable task is empty when it asks for the next one.
LEMMA FreeAfter ==
    ASSUME TypeOK, FreeInv, NEW p \in Procs, NEW l, Goto(p, l),
           \/ cur' = cur /\ (l \in FreeLabels => pc[p] \in FreeLabels)
           \/ cur' = [cur EXCEPT ![p] = NoTask]
    PROVE  FreeInv'
<1>1. pc' = [pc EXCEPT ![p] = l]
  BY DEF Goto
<1>2. pc \in [Procs -> Labels] /\ cur \in [Procs -> Task \cup {NoTask}]
  BY DEF TypeOK
<1> QED BY <1>1, <1>2, Zenon DEF FreeInv

\* What begins a callback is on some stack, in a context, or waiting.
LEMMA BegunAsBefore ==
    ASSUME TypeOK, NEW j \in Jobs,
           \A p \in Procs : exec'[p].job = j => Begun(j),
           \A f \in Jobs : ctx'[f].job = j => Begun(j),
           done' = done \/ (j \in done' => Begun(j)),
           left' = left \/ (left'[j] < MaxWaits => Begun(j)),
           reg' = reg \/ (reg'[j] # None => Begun(j))
    PROVE  Begun(j)' => Begun(j)
BY DEF Begun

LEMMA BegunOnStack ==
    ASSUME NEW j \in Jobs
    PROVE  /\ \A p \in Procs : exec[p].job = j => Begun(j)
           /\ \A f \in Jobs : ctx[f].job = j => Begun(j)
BY DEF Begun

\* Switching a thread to a callback that has begun begins no other one.
LEMMA StackChange ==
    ASSUME TypeOK, NEW p \in Procs, NEW j \in Jobs, NEW f, NEW k,
           \/ exec' = exec
           \/ exec' = [exec EXCEPT ![p] = [fiber |-> f, job |-> k]],
           k = j => Begun(j)
    PROVE  \A q \in Procs : exec'[q].job = j => Begun(j)
<1>1. exec \in [Procs -> OnStack]
  BY DEF TypeOK
<1>2. CASE exec' = exec
  BY <1>2, BegunOnStack
<1>3. CASE exec' = [exec EXCEPT ![p] = [fiber |-> f, job |-> k]]
  <2> SUFFICES ASSUME NEW q \in Procs, exec'[q].job = j PROVE Begun(j)
    OBVIOUS
  <2>1. CASE q = p
    <3>1. exec'[q] = [fiber |-> f, job |-> k]
      BY <1>1, <1>3, <2>1
    <3>2. exec'[q].job = k
      BY <3>1
    <3> QED BY <3>2
  <2>2. CASE q # p
    <3>1. exec'[q] = exec[q]
      BY <1>1, <1>3, <2>2
    <3> QED BY <3>1, BegunOnStack
  <2> QED BY <2>1, <2>2
<1> QED BY <1>2, <1>3

LEMMA SameBegun ==
    ASSUME NEW j \in Jobs, UNCHANGED <<exec, ctx, reg, left, done>>
    PROVE  Begun(j)' => Begun(j)
BY DEF Begun

LEMMA SameQueue ==
    ASSUME NEW j \in Jobs, tasks' = tasks
    PROVE  \A i \in QueuedAt(j)' : i \in QueuedAt(j)
BY DEF QueuedAt

\* Most steps move one thread and leave the list and the fibers alone.
LEMMA QuietMove ==
    ASSUME TypeOK, OnceInv, NEW p \in Procs, NEW l,
           l \notin {"notify", "dispatch"}, Goto(p, l),
           \/ cur' = cur /\ (l \in FreeLabels => pc[p] \in FreeLabels)
           \/ cur' = [cur EXCEPT ![p] = NoTask],
           \A j \in Jobs : Begun(j)' => Begun(j),
           submitted \subseteq submitted',
           \/ tasks' = tasks
           \/ \E f \in Jobs : Push(FiberTask(f))
    PROVE  OnceInv'
<1>1. FreeInv'
  BY FreeAfter DEF OnceInv
<1>2. ASSUME NEW j \in Jobs PROVE Once(j)'
  <2>1. \A i \in QueuedAt(j)' : i \in QueuedAt(j)
    BY PushedFiber, SameQueue
  <2>2. \A q \in TakenBy(j)' : q \in TakenBy(j)
    BY Leaves
  <2>3. Quiet(j)
    BY <2>1, <2>2 DEF Quiet
  <2> QED BY <2>3, QuietOnce DEF OnceInv
<1> QED BY <1>1, <1>2 DEF OnceInv

\* What moving one element out of a list leaves behind.
LEMMA RemoveAtIs ==
    ASSUME NEW S, NEW s \in Seq(S), NEW i \in 1..Len(s)
    PROVE  /\ Len(RemoveAt(s, i)) = Len(s) - 1
           /\ \A k \in 1..(Len(s) - 1) :
                  RemoveAt(s, i)[k] = IF k < i THEN s[k] ELSE s[k + 1]
<1> DEFINE a == SubSeq(s, 1, i - 1)
           b == SubSeq(s, i + 1, Len(s))
<1>1. /\ a \in Seq(S) /\ Len(a) = i - 1
      /\ \A k \in 1..(i - 1) : a[k] = s[k]
  BY SubSeqProperties
<1>2. /\ b \in Seq(S) /\ Len(b) = Len(s) - i
      /\ \A k \in 1..(Len(s) - i) : b[k] = s[k + i]
  <2>1. \A k \in 1..(Len(s) - i) : (i + 1) + k - 1 = k + i
    OBVIOUS
  <2>2. Len(s) - (i + 1) + 1 = Len(s) - i
    OBVIOUS
  <2> QED BY <2>1, <2>2, SubSeqProperties
<1>3. RemoveAt(s, i) = a \o b
  BY DEF RemoveAt
<1> HIDE DEF a, b
<1>4. /\ Len(a \o b) = Len(a) + Len(b)
      /\ \A k \in 1..(Len(a) + Len(b)) :
             (a \o b)[k] = IF k <= Len(a) THEN a[k] ELSE b[k - Len(a)]
  BY <1>1, <1>2, ConcatProperties
<1>5. Len(a) + Len(b) = Len(s) - 1
  BY <1>1, <1>2
<1>6. ASSUME NEW k \in 1..(Len(s) - 1)
      PROVE  (a \o b)[k] = IF k < i THEN s[k] ELSE s[k + 1]
  <2>1. CASE k < i
    BY <2>1, <1>1, <1>4, <1>5
  <2>2. CASE ~(k < i)
    <3>1. k - (i - 1) \in 1..(Len(s) - i) /\ (k - (i - 1)) + i = k + 1
      BY <2>2
    <3>2. (a \o b)[k] = b[k - (i - 1)]
      BY <2>2, <1>1, <1>4, <1>5
    <3> QED BY <2>2, <3>1, <3>2, <1>2
  <2> QED BY <2>1, <2>2
<1> QED BY <1>3, <1>4, <1>5, <1>6

LEMMA SameOnce ==
    ASSUME OnceInv,
           UNCHANGED <<pc, tasks, cur, exec, ctx, reg, left, submitted, done>>
    PROVE  OnceInv'
<1>1. FreeInv'
  BY DEF OnceInv, FreeInv
<1>2. ASSUME NEW j \in Jobs PROVE Once(j)'
  <2>1. TakenBy(j)' = TakenBy(j)
    BY DEF TakenBy
  <2>2. Quiet(j)
    BY <2>1, SameQueue, SameBegun DEF Quiet
  <2> QED BY <2>2, QuietOnce DEF OnceInv
<1> QED BY <1>1, <1>2 DEF OnceInv

\* pushtask gives a callback its first place.
LEMMA PushOnce ==
    ASSUME TypeOK, OnceInv, NEW p \in Procs, NEW k \in Jobs, NEW l \in Labels,
           k \notin submitted, Push(CbTask(k)),
           submitted' = submitted \cup {k},
           Goto(p, l), l \notin {"notify", "dispatch"},
           l \in FreeLabels => pc[p] \in FreeLabels,
           UNCHANGED <<cur, exec, ctx, reg, left, done>>
    PROVE  OnceInv'
<1>1. FreeInv'
  BY FreeAfter DEF OnceInv
<1>2. ASSUME NEW j \in Jobs PROVE Once(j)'
  <2>1. \A i \in QueuedAt(j)' :
            i \in QueuedAt(j) \/ (j = k /\ i = Len(tasks) + 1)
    BY PushedCb
  <2>2. \A q \in TakenBy(j)' : q \in TakenBy(j)
    BY Leaves
  <2>3. Begun(j)' => Begun(j)
    BY SameBegun
  <2>4. Once(j)
    BY DEF OnceInv
  <2>5. CASE j # k
    BY <2>1, <2>2, <2>3, <2>4, <2>5, QuietOnce DEF Quiet
  <2>6. CASE j = k
    <3>1. QueuedAt(j) = {} /\ TakenBy(j) = {} /\ ~Begun(j)
      BY <2>4, <2>6 DEF Once
    <3>2. /\ \A i \in QueuedAt(j)' : i = Len(tasks) + 1
          /\ TakenBy(j)' = {} /\ ~Begun(j)' /\ j \in submitted'
      BY <2>1, <2>2, <2>3, <2>6, <3>1
    <3> QED BY <3>2 DEF Once
  <2> QED BY <2>5, <2>6
<1> QED BY <1>1, <1>2 DEF OnceInv

\* Taking a task moves it from the list to the thread.
LEMMA TakeOnce ==
    ASSUME TypeOK, OnceInv, NEW p \in Runners, Take(p)
    PROVE  OnceInv'
<1>0. p \in Procs /\ pc[p] = "take" /\ cur[p] = NoTask
  BY RunnersAreProcs DEF Take, At, OnceInv, FreeInv, FreeLabels
<1>t. /\ pc \in [Procs -> Labels] /\ cur \in [Procs -> Task \cup {NoTask}]
      /\ tasks \in Seq(Task)
  BY DEF TypeOK
<1>b. ASSUME NEW j \in Jobs
      PROVE  (Begun(j)' => Begun(j)) /\ submitted' = submitted
  BY SameBegun DEF Take, fiberVars, ioVars, jobVars
<1>1. CASE UNCHANGED <<tasks, cur>> /\ Goto(p, "goIdle")
  <2>1. Goto(p, "goIdle") /\ cur' = cur /\ tasks' = tasks
        /\ pc[p] \in FreeLabels
    BY <1>0, <1>1 DEF FreeLabels
  <2>2. submitted \subseteq submitted'
    BY DEF Take, jobVars
  <2>3. \A j \in Jobs : Begun(j)' => Begun(j)
    BY <1>b
  <2> QED BY <1>0, <2>1, <2>2, <2>3, QuietMove
<1>2. CASE UNCHANGED <<tasks, cur>> /\ Goto(p, "notify")
  <2>1. FreeInv'
    BY <1>0, <1>2, <1>t DEF Goto, OnceInv, FreeInv, FreeLabels, IdleLabels
  <2>2. ASSUME NEW j \in Jobs PROVE Once(j)'
    <3>1. \A q \in TakenBy(j)' : q \in TakenBy(j)
      BY <1>0, <1>2, <1>t DEF TakenBy, Goto, NoTask
    <3>2. Quiet(j)
      BY <1>2, <1>b, <3>1, SameQueue DEF Quiet
    <3> QED BY <3>2, QuietOnce DEF OnceInv
  <2> QED BY <2>1, <2>2 DEF OnceInv
<1>3. ASSUME NEW i \in Takeable(p),
             cur' = [cur EXCEPT ![p] = tasks[i]],
             tasks' = RemoveAt(tasks, i),
             Goto(p, IF Len(tasks) = 1 THEN "dispatch" ELSE "notify")
      PROVE  OnceInv'
  <2>1. i \in 1..Len(tasks) /\ tasks[i] \in Task /\ Len(tasks) \in Nat
        /\ DOMAIN tasks = 1..Len(tasks)
    <3>1. i \in DOMAIN tasks
      BY DEF Takeable
    <3> QED BY <1>t, <3>1
  <2>2. tasks' \in Seq(Task) /\ Len(tasks') = Len(tasks) - 1
    BY <1>3, <1>t, <2>1, RemoveAtIs, RemoveAtType
  <2>3. \A k \in 1..(Len(tasks) - 1) :
            tasks'[k] = IF k < i THEN tasks[k] ELSE tasks[k + 1]
    BY <1>3, <1>t, <2>1, RemoveAtIs
  <2>4. DOMAIN tasks' = 1..(Len(tasks) - 1)
    BY <2>2
  <2> DEFINE Before(k) == IF k < i THEN k ELSE k + 1
  <2>5. ASSUME NEW j \in Jobs, NEW k \in QueuedAt(j)'
        PROVE  /\ k \in 1..(Len(tasks) - 1)
               /\ Before(k) \in QueuedAt(j) /\ Before(k) # i
    <3>1. k \in 1..(Len(tasks) - 1)
          /\ tasks'[k].kind = "cb" /\ tasks'[k].id = j
      BY <2>4, <2>5 DEF QueuedAt
    <3>2. Before(k) \in 1..Len(tasks) /\ Before(k) # i
      BY <2>1, <3>1
    <3>3. tasks'[k] = tasks[Before(k)]
      BY <2>3, <3>1
    <3> HIDE DEF Before
    <3> QED BY <2>1, <3>1, <3>2, <3>3 DEF QueuedAt
  <2>6. \A k, m \in 1..(Len(tasks) - 1) : Before(k) = Before(m) => k = m
    BY <2>1
  <2> HIDE DEF Before
  <2>7. FreeInv'
    BY <1>0, <1>3, <1>t DEF Goto, OnceInv, FreeInv, FreeLabels, IdleLabels
  <2>8. ASSUME NEW j \in Jobs, NEW q \in TakenBy(j)'
        PROVE  q \in TakenBy(j) \/ (q = p /\ i \in QueuedAt(j))
    <3>1. q \in Procs /\ cur'[q].kind = "cb" /\ cur'[q].id = j
          /\ pc'[q] \in {"notify", "dispatch"}
      BY <2>8 DEF TakenBy
    <3>2. CASE q = p
      BY <1>0, <1>3, <1>t, <2>1, <3>1, <3>2 DEF QueuedAt
    <3>3. CASE q # p
      <4>1. cur'[q] = cur[q] /\ pc'[q] = pc[q]
        BY <1>0, <1>3, <1>t, <3>1, <3>3 DEF Goto
      <4> QED BY <3>1, <4>1 DEF TakenBy
    <3> QED BY <3>2, <3>3
  <2>9. ASSUME NEW j \in Jobs PROVE Once(j)'
    <3>1. Once(j)
      BY DEF OnceInv
    <3>2. CASE i \in QueuedAt(j)
      <4>1. QueuedAt(j)' = {}
        BY <2>5, <3>1, <3>2 DEF Once
      <4>2. \A q \in TakenBy(j)' : q = p
        BY <2>8, <3>1, <3>2 DEF Once
      <4>3. ~Begun(j)' /\ j \in submitted'
        BY <1>b, <3>1, <3>2 DEF Once
      <4> QED BY <4>1, <4>2, <4>3 DEF Once
    <3>3. CASE i \notin QueuedAt(j)
      <4>1. \A q \in TakenBy(j)' : q \in TakenBy(j)
        BY <2>8, <3>3
      <4>2. \A k, m \in QueuedAt(j)' : k = m
        BY <2>5, <2>6, <3>1 DEF Once
      <4>3. QueuedAt(j) = {} => QueuedAt(j)' = {}
        BY <2>5
      <4> QED BY <1>b, <3>1, <4>1, <4>2, <4>3 DEF Once
    <3> QED BY <3>2, <3>3
  <2> QED BY <2>7, <2>9 DEF OnceInv
<1>4. \/ UNCHANGED <<tasks, cur>> /\ Goto(p, "goIdle")
      \/ UNCHANGED <<tasks, cur>> /\ Goto(p, "notify")
      \/ \E i \in Takeable(p) :
             /\ cur' = [cur EXCEPT ![p] = tasks[i]]
             /\ tasks' = RemoveAt(tasks, i)
             /\ Goto(p, IF Len(tasks) = 1 THEN "dispatch" ELSE "notify")
  BY Zenon DEF Take
<1> QED BY <1>1, <1>2, <1>3, <1>4

\* A callback begins when Run dispatches it, and leaves its last place then.
LEMMA DispatchOnce ==
    ASSUME TypeOK, OnceInv, NEW p \in Runners, DispatchCb(p)
    PROVE  OnceInv'
<1> DEFINE f == IF cbFiber[p] = None THEN cur[p].id ELSE cbFiber[p]
<1>0. p \in Procs /\ pc[p] = "dispatch" /\ cur[p].kind = "cb"
  BY RunnersAreProcs DEF DispatchCb, At
<1>1. cur[p].id \in Jobs /\ p \in TakenBy(cur[p].id)
  BY <1>0, KindOfTask DEF TypeOK, TakenBy
<1>2. /\ ctx' = [ctx EXCEPT ![f] = [at |-> "entry", job |-> cur[p].id]]
      /\ \/ exec' = exec
         \/ exec' = [exec EXCEPT ![p] = [fiber |-> f, job |-> cur[p].id]]
      /\ Goto(p, "job") /\ UNCHANGED <<tasks, cur, reg, left, submitted, done>>
  BY DEF DispatchCb, SwapIn, ioVars, jobVars
<1>3. FreeInv'
  <2>1. cur' = cur /\ "job" \notin FreeLabels
    BY <1>2 DEF FreeLabels, IdleLabels
  <2> QED BY <1>0, <1>2, <2>1, FreeAfter DEF OnceInv
<1>4. ASSUME NEW j \in Jobs, j # cur[p].id
      PROVE  Begun(j)' => Begun(j)
  <2>1. \A g \in Jobs : ctx'[g].job = j => Begun(j)
    BY <1>2, <1>4, BegunOnStack DEF TypeOK
  <2>2. \A q \in Procs : exec'[q].job = j => Begun(j)
    <3>1. \/ exec' = exec
          \/ exec' = [exec EXCEPT ![p] = [fiber |-> f, job |-> cur[p].id]]
      BY <1>2
    <3> HIDE DEF f
    <3> QED BY <1>0, <1>4, <3>1, StackChange
  <2> QED BY <1>2, <2>1, <2>2, BegunAsBefore
<1>5. ASSUME NEW j \in Jobs PROVE Once(j)'
  <2>1. \A i \in QueuedAt(j)' : i \in QueuedAt(j)
    BY <1>2, SameQueue
  <2>2. \A q \in TakenBy(j)' : q \in TakenBy(j)
    BY <1>0, <1>2, Leaves
  <2>3. Once(j)
    BY DEF OnceInv
  <2>4. CASE j # cur[p].id
    <3>1. Quiet(j)
      BY <1>2, <1>4, <2>1, <2>2, <2>4 DEF Quiet
    <3> QED BY <2>3, <3>1, QuietOnce
  <2>5. CASE j = cur[p].id
    <3>1. QueuedAt(j)' = {} /\ j \in submitted'
      BY <1>1, <1>2, <2>1, <2>3, <2>5 DEF Once
    <3>2. TakenBy(j)' = {}
      <4>1. \A q \in TakenBy(j)' : q = p
        BY <1>1, <2>2, <2>3, <2>5 DEF Once
      <4>2. p \notin TakenBy(j)'
        BY <1>0, <1>2 DEF TakenBy, Goto, TypeOK
      <4> QED BY <4>1, <4>2
    <3> QED BY <3>1, <3>2 DEF Once
  <2> QED BY <2>4, <2>5
<1> QED BY <1>3, <1>5 DEF OnceInv

LEMMA RunStepOnce ==
    ASSUME TypeOK, OnceInv, NEW p \in Runners, RunStep(p)
    PROVE  OnceInv'
<1> USE RunnersAreProcs
<1>p. p \in Procs
  OBVIOUS
<1>l. /\ {"job", "check", "setHold", "runStop2", "join", "exited", "take",
          "goIdle"} \cap {"notify", "dispatch"} = {}
      /\ {"job", "check", "setHold", "join", "exited"} \cap FreeLabels = {}
      /\ {"runStop", "runStop2"} \subseteq FreeLabels
  BY DEF FreeLabels, IdleLabels
<1>1. CASE Take(p)
  BY <1>1, TakeOnce
<1>2. CASE RunNotify(p)
  <2>1. /\ pc[p] = "notify" /\ UNCHANGED cur
        /\ Goto(p, IF cur[p] = NoTask THEN "goIdle" ELSE "dispatch")
    BY <1>2 DEF RunNotify, At
  <2>2. pc \in [Procs -> Labels] /\ cur \in [Procs -> Task \cup {NoTask}]
    BY DEF TypeOK
  <2>3. FreeInv'
    BY <1>p, <2>1, <2>2
    DEF OnceInv, FreeInv, FreeLabels, IdleLabels, Goto
  <2>4. ASSUME NEW j \in Jobs PROVE Once(j)'
    <3>1. \A q \in TakenBy(j)' : q \in TakenBy(j)
      BY <1>p, <2>1, <2>2 DEF TakenBy, Goto
    <3>2. /\ tasks' = tasks /\ submitted' = submitted
          /\ UNCHANGED <<exec, ctx, reg, left, done>>
      BY <1>2 DEF RunNotify, fiberVars, jobVars
    <3>3. Quiet(j)
      BY <3>1, <3>2, SameQueue, SameBegun DEF Quiet
    <3> QED BY <3>3, QuietOnce DEF OnceInv
  <2> QED BY <2>3, <2>4 DEF OnceInv
<1>3. CASE DispatchCb(p)
  BY <1>3, DispatchOnce
<1>4. CASE DispatchFiber(p)
  <2>1. /\ tasks' = tasks /\ submitted' = submitted
        /\ UNCHANGED <<ctx, reg, left, done>>
    BY <1>4 DEF DispatchFiber, ioVars, jobVars
  <2>2. cur[p].id \in Jobs
    BY <1>4, KindOfTask DEF DispatchFiber, TypeOK
  <2>3. \/ exec' = exec
        \/ exec' = [exec EXCEPT ![p] = [fiber |-> cur[p].id,
                                        job |-> ctx[cur[p].id].job]]
    BY <1>4 DEF DispatchFiber, SwapIn
  <2>4. ASSUME NEW j \in Jobs PROVE Begun(j)' => Begun(j)
    <3>1. \A q \in Procs : exec'[q].job = j => Begun(j)
      <4>1. ctx[cur[p].id].job = j => Begun(j)
        BY <2>2, BegunOnStack
      <4> QED BY <1>p, <2>3, <4>1, StackChange
    <3>2. \A g \in Jobs : ctx'[g].job = j => Begun(j)
      BY <2>1, BegunOnStack
    <3> QED BY <2>1, <3>1, <3>2, BegunAsBefore
  <2>5. CASE cur' = cur /\ Goto(p, "job")
    BY <1>p, <1>l, <2>1, <2>4, <2>5, QuietMove
  <2>6. CASE cur' = [cur EXCEPT ![p] = NoTask] /\ Goto(p, "take")
    BY <1>p, <1>l, <2>1, <2>4, <2>6, QuietMove
  <2> QED BY <1>4, <2>5, <2>6 DEF DispatchFiber
<1>5. CASE AfterSwapIn(p)
  <2>1. /\ Goto(p, "check") /\ cur' = cur /\ tasks' = tasks
        /\ submitted' = submitted /\ UNCHANGED <<exec, ctx, reg, left, done>>
    BY <1>5 DEF AfterSwapIn, fiberVars, ioVars, jobVars
  <2> QED BY <1>p, <1>l, <2>1, SameBegun, QuietMove
<1>6. CASE CheckCb(p)
  <2>1. /\ Goto(p, "take") /\ cur' = [cur EXCEPT ![p] = NoTask]
        /\ tasks' = tasks /\ submitted' = submitted
        /\ UNCHANGED <<exec, reg, left, done>>
    BY <1>6 DEF CheckCb, ioVars, jobVars
  <2>2. \/ ctx' = ctx
        \/ ctx' = [ctx EXCEPT ![cbFiber[p]] = [at |-> "entry", job |-> None]]
    BY <1>6 DEF CheckCb
  <2>3. ASSUME NEW j \in Jobs PROVE Begun(j)' => Begun(j)
    <3>1. \A q \in Procs : exec'[q].job = j => Begun(j)
      BY <2>1, BegunOnStack
    <3>2. \A g \in Jobs : ctx'[g].job = j => Begun(j)
      BY <2>2, BegunOnStack, JobAssumption DEF TypeOK
    <3> QED BY <2>1, <3>1, <3>2, BegunAsBefore
  <2> QED BY <1>p, <1>l, <2>1, <2>3, QuietMove
<1>7. CASE CheckFiber(p)
  <2>1. /\ \/ Goto(p, "take") /\ cur' = [cur EXCEPT ![p] = NoTask]
           \/ Goto(p, "setHold") /\ cur' = cur
        /\ tasks' = tasks
        /\ submitted' = submitted /\ UNCHANGED <<exec, ctx, reg, left, done>>
    BY <1>7 DEF CheckFiber, fiberVars, ioVars, jobVars
  <2>2. \A j \in Jobs : Begun(j)' => Begun(j)
    BY <2>1, SameBegun
  <2>3. CASE Goto(p, "take") /\ cur' = [cur EXCEPT ![p] = NoTask]
    BY <1>p, <1>l, <2>1, <2>2, <2>3, QuietMove
  <2>4. CASE Goto(p, "setHold") /\ cur' = cur
    BY <1>p, <1>l, <2>1, <2>2, <2>4, QuietMove
  <2> QED BY <2>1, <2>3, <2>4
<1>8. CASE SetHold(p)
  <2>1. /\ Goto(p, "take") /\ cur' = [cur EXCEPT ![p] = NoTask]
        /\ tasks' = tasks
        /\ submitted' = submitted /\ UNCHANGED <<exec, ctx, reg, left, done>>
    BY <1>8 DEF SetHold, ioVars, jobVars
  <2> QED BY <1>p, <1>l, <2>1, SameBegun, QuietMove
<1>9. CASE RunCanStop(p)
  <2>1. /\ cur' = cur /\ tasks' = tasks /\ submitted' = submitted
        /\ UNCHANGED <<exec, ctx, reg, left, done>>
        /\ pc[p] \in {"runStop", "runStop2"}
    BY <1>9 DEF RunCanStop, ReadPending, ReadScheduler, At, fiberVars, ioVars,
                jobVars
  <2>2. PICK l \in {"runStop2", "join", "exited", "take"} : Goto(p, l)
    BY <1>9 DEF RunCanStop, ReadPending, ReadScheduler
  <2>3. \A j \in Jobs : Begun(j)' => Begun(j)
    BY <2>1, SameBegun
  <2> QED BY <1>p, <1>l, <2>1, <2>2, <2>3, QuietMove
<1> QED BY <1>1, <1>2, <1>3, <1>4, <1>5, <1>6, <1>7, <1>8, <1>9 DEF RunStep

LEMMA JobStepOnce ==
    ASSUME TypeOK, OnceInv, NEW p \in Runners, JobStep(p)
    PROVE  OnceInv'
<1> USE RunnersAreProcs
<1>p. p \in Procs
  OBVIOUS
<1>l. /\ {"yield", "after", "term", "jobNotify", "job"}
             \cap ({"notify", "dispatch"} \cup FreeLabels) = {}
      /\ {"yield", "after", "term", "jobNotify", "job"} \subseteq Labels
  BY DEF FreeLabels, IdleLabels, Labels
<1>1. CASE AddEvent(p)
  <2>1. /\ Goto(p, "yield") /\ cur' = cur /\ tasks' = tasks
        /\ submitted' = submitted /\ UNCHANGED <<exec, ctx, done>>
        /\ left' = [left EXCEPT ![exec[p].job] = @ - 1]
        /\ reg' = [reg EXCEPT ![exec[p].job] = exec[p].fiber]
    BY <1>1 DEF AddEvent, fiberVars
  <2>2. ASSUME NEW j \in Jobs PROVE Begun(j)' => Begun(j)
    <3>1. CASE exec[p].job = j
      BY <3>1, BegunOnStack
    <3>2. CASE exec[p].job # j
      <4>1. left'[j] = left[j] /\ reg'[j] = reg[j]
        BY <2>1, <3>2 DEF TypeOK
      <4> QED BY <2>1, <4>1 DEF Begun
    <3> QED BY <3>1, <3>2
  <2> QED BY <1>p, <1>l, <2>1, <2>2, QuietMove
<1>2. CASE YieldToHold(p)
  <2>1. /\ Goto(p, "after") /\ cur' = cur /\ tasks' = tasks
        /\ submitted' = submitted /\ UNCHANGED <<reg, left, done>>
        /\ ctx' = [ctx EXCEPT ![exec[p].fiber] =
                       [at |-> "yield", job |-> exec[p].job]]
        /\ exec' = [exec EXCEPT ![p] = OffCpu]
    BY <1>2 DEF YieldToHold, ioVars, jobVars
  <2>2. ASSUME NEW j \in Jobs PROVE Begun(j)' => Begun(j)
    <3>1. \A q \in Procs : exec'[q].job = j => Begun(j)
      BY <1>p, <2>1, StackChange, JobAssumption DEF OffCpu
    <3>2. \A g \in Jobs : ctx'[g].job = j => Begun(j)
      BY <2>1, BegunOnStack DEF TypeOK
    <3> QED BY <2>1, <3>1, <3>2, BegunAsBefore
  <2> QED BY <1>p, <1>l, <2>1, <2>2, QuietMove
<1>3. CASE Return(p)
  <2>1. /\ Goto(p, "term") /\ cur' = cur /\ tasks' = tasks
        /\ submitted' = submitted /\ UNCHANGED <<exec, ctx, reg, left>>
        /\ done' = done \cup ({exec[p].job} \ {None})
    BY <1>3 DEF Return, ioVars
  <2>2. ASSUME NEW j \in Jobs PROVE Begun(j)' => Begun(j)
    <3>1. j \in done' => j \in done \/ exec[p].job = j
      BY <2>1
    <3>2. j \in done' => Begun(j)
      BY <3>1, BegunOnStack DEF Begun
    <3> QED BY <2>1, <3>2 DEF Begun
  <2> QED BY <1>p, <1>l, <2>1, <2>2, QuietMove
<1>4. CASE TermSwapOut(p)
  <2>1. /\ Goto(p, "after") /\ cur' = cur /\ tasks' = tasks
        /\ submitted' = submitted /\ UNCHANGED <<reg, left, done>>
        /\ ctx' = [ctx EXCEPT ![exec[p].fiber] =
                       [at |-> "exit", job |-> None]]
        /\ exec' = [exec EXCEPT ![p] = OffCpu]
    BY <1>4 DEF TermSwapOut, ioVars, jobVars
  <2>2. ASSUME NEW j \in Jobs PROVE Begun(j)' => Begun(j)
    <3>1. \A q \in Procs : exec'[q].job = j => Begun(j)
      BY <1>p, <2>1, StackChange, JobAssumption DEF OffCpu
    <3>2. \A g \in Jobs : ctx'[g].job = j => Begun(j)
      BY <2>1, BegunOnStack, JobAssumption DEF TypeOK
    <3> QED BY <2>1, <3>1, <3>2, BegunAsBefore
  <2> QED BY <1>p, <1>l, <2>1, <2>2, QuietMove
<1>5. ASSUME NEW k \in Jobs, JobPush(p, k)
      PROVE  OnceInv'
  <2>1. /\ k \notin submitted /\ Push(CbTask(k))
        /\ submitted' = submitted \cup {k} /\ Goto(p, "jobNotify")
        /\ UNCHANGED <<cur, exec, ctx, reg, left, done>>
    BY <1>5 DEF JobPush, fiberVars, ioVars
  <2> QED BY <1>p, <1>l, <2>1, PushOnce
<1>6. CASE JobNotify(p)
  <2>1. /\ Goto(p, "job") /\ cur' = cur /\ tasks' = tasks
        /\ submitted' = submitted /\ UNCHANGED <<exec, ctx, reg, left, done>>
    BY <1>6 DEF JobNotify, fiberVars, jobVars
  <2> QED BY <1>p, <1>l, <2>1, SameBegun, QuietMove
<1> QED BY <1>1, <1>2, <1>3, <1>4, <1>5, <1>6 DEF JobStep

LEMMA IdleStepOnce ==
    ASSUME TypeOK, OnceInv, NEW p \in Runners, IdleStep(p)
    PROVE  OnceInv'
<1> USE RunnersAreProcs
<1>p. p \in Procs
  OBVIOUS
<1>l. IdleLabels \cap {"notify", "dispatch"} = {}
      /\ IdleLabels \subseteq FreeLabels /\ "runStop" \in FreeLabels
      /\ "goIdle" \in FreeLabels
  BY DEF FreeLabels, IdleLabels
\* The steps of Idle that only move the thread through it.
<1>m. ASSUME pc[p] \in FreeLabels,
             NEW l \in IdleLabels \cup {"runStop"}, Goto(p, l),
             UNCHANGED <<cur, tasks, exec, ctx, reg, left, submitted, done>>
      PROVE  OnceInv'
  <2>1. l \notin {"notify", "dispatch"}
    BY <1>l
  <2>2. \A j \in Jobs : Begun(j)' => Begun(j)
    BY <1>m, SameBegun
  <2> QED BY <1>p, <1>m, <2>1, <2>2, QuietMove
<1>1. CASE GoIdle(p)
  BY <1>1, <1>l, <1>m
  DEF GoIdle, At, fiberVars, ioVars, jobVars, IdleLabels
<1>2. CASE IdleCanStop(p)
  <2>1. PICK l \in {"idleStop2", "wait", "idleBack"} : Goto(p, l)
    BY <1>2 DEF IdleCanStop, ReadPending, ReadScheduler
  <2>2. pc[p] \in FreeLabels /\ l \in IdleLabels
    BY <1>2 DEF IdleCanStop, ReadPending, ReadScheduler, At, IdleLabels,
                FreeLabels
  <2> QED
    BY <1>2, <2>1, <2>2, <1>m
    DEF IdleCanStop, ReadPending, ReadScheduler, fiberVars, ioVars, jobVars
<1>3. CASE EpollWait(p)
  BY <1>3, <1>l, <1>m DEF EpollWait, At, fiberVars, jobVars, IdleLabels
<1>4. CASE DrainEventfd(p)
  BY <1>4, SameOnce DEF DrainEventfd, fiberVars, jobVars
<1>5. ASSUME NEW j \in Jobs, SkipEvent(p, j)
      PROVE  OnceInv'
  BY <1>5, SameOnce DEF SkipEvent, fiberVars, jobVars
<1>6. ASSUME NEW j \in Jobs, TriggerEvent(p, j)
      PROVE  OnceInv'
  <2>1. /\ reg[j] # None /\ Push(FiberTask(reg[j]))
        /\ reg' = [reg EXCEPT ![j] = None]
        /\ pc[p] = "events" /\ Goto(p, "evNotify")
        /\ cur' = cur /\ submitted' = submitted
        /\ UNCHANGED <<exec, ctx, left, done>>
    BY <1>6 DEF TriggerEvent, At, fiberVars, jobVars
  <2>2. reg[j] \in Jobs
    BY <2>1 DEF TypeOK
  <2>3. ASSUME NEW k \in Jobs PROVE Begun(k)' => Begun(k)
    BY <2>1 DEF Begun, TypeOK
  <2>4. pc[p] \in FreeLabels /\ "evNotify" \notin {"notify", "dispatch"}
    BY <2>1 DEF FreeLabels, IdleLabels
  <2> QED BY <1>p, <2>1, <2>2, <2>3, <2>4, QuietMove
<1>7. CASE EventNotify(p)
  BY <1>7, <1>l, <1>m DEF EventNotify, At, fiberVars, jobVars, IdleLabels
<1>8. CASE IdleYield(p)
  BY <1>8, <1>l, <1>m
  DEF IdleYield, At, fiberVars, ioVars, jobVars, IdleLabels
<1>9. CASE IdleBack(p)
  BY <1>9, <1>l, <1>m
  DEF IdleBack, At, fiberVars, ioVars, jobVars, IdleLabels
<1> QED BY <1>1, <1>2, <1>3, <1>4, <1>5, <1>6, <1>7, <1>8, <1>9 DEF IdleStep

LEMMA MainStepOnce ==
    ASSUME TypeOK, OnceInv, MainStep
    PROVE  OnceInv'
<1>p. Main \in Procs
  BY DEF Procs
<1>l. /\ {"main", "mainNotify", "take"} \subseteq FreeLabels
      /\ {"main", "mainNotify", "take", "join", "stopped"}
             \cap {"notify", "dispatch"} = {}
      /\ {"join", "stopped"} \cap FreeLabels = {}
      /\ "mainNotify" \in Labels
  BY DEF FreeLabels, IdleLabels, Labels
<1>1. ASSUME NEW j \in Jobs, MainPush(j)
      PROVE  OnceInv'
  <2>1. /\ j \notin submitted /\ Push(CbTask(j)) /\ pc[Main] = "main"
        /\ submitted' = submitted \cup {j} /\ Goto(Main, "mainNotify")
        /\ UNCHANGED <<cur, exec, ctx, reg, left, done>>
    BY <1>1 DEF MainPush, At, fiberVars, ioVars
  <2> QED BY <1>p, <1>l, <2>1, PushOnce
<1>2. ASSUME pc[Main] \in {"main", "mainNotify"} \/ Goto(Main, "stopped"),
             NEW l \in {"main", "take", "join", "stopped"}, Goto(Main, l),
             UNCHANGED <<cur, tasks, exec, ctx, reg, left, submitted, done>>
      PROVE  OnceInv'
  <2>1. \A j \in Jobs : Begun(j)' => Begun(j)
    BY <1>2, SameBegun
  <2>2. CASE pc[Main] \in {"main", "mainNotify"}
    <3>1. pc[Main] \in FreeLabels /\ l \notin {"notify", "dispatch"}
      BY <1>l, <2>2
    <3> QED BY <1>p, <1>2, <2>1, <3>1, QuietMove
  <2>3. CASE Goto(Main, "stopped")
    <3>1. "stopped" \notin FreeLabels \cup {"notify", "dispatch"}
      BY <1>l
    <3> QED BY <1>p, <1>2, <2>1, <2>3, <3>1, QuietMove
  <2> QED BY <1>2, <2>2, <2>3
<1>3. CASE MainNotify
  BY <1>2, <1>3 DEF MainNotify, At, fiberVars, jobVars
<1>4. CASE Stop
  BY <1>2, <1>4 DEF Stop, At, fiberVars, ioVars, jobVars
<1>5. CASE Join
  BY <1>2, <1>5 DEF Join, At, fiberVars, ioVars, jobVars
<1> QED BY <1>1, <1>3, <1>4, <1>5 DEF MainStep

LEMMA NextOnce == TypeOK /\ OnceInv /\ [Next]_vars => OnceInv'
<1> SUFFICES ASSUME TypeOK, OnceInv, [Next]_vars
             PROVE  OnceInv'
  OBVIOUS
<1>1. ASSUME NEW p \in Runners, RunStep(p) \/ JobStep(p) \/ IdleStep(p)
      PROVE  OnceInv'
  BY <1>1, RunStepOnce, JobStepOnce, IdleStepOnce
<1>2. ASSUME NEW j \in Jobs, FdReady(j)
      PROVE  OnceInv'
  BY <1>2, SameOnce DEF FdReady, fiberVars, jobVars
<1>3. CASE Over \/ UNCHANGED vars
  BY <1>3, SameOnce DEF Over, vars
<1> QED BY <1>1, <1>2, <1>3, MainStepOnce DEF Next

\* Run starts every callback handed to pushtask at most once, whatever the
\* number of threads and however their steps interleave.
THEOREM CallbacksStartOnce == Spec => []StartedOnce
BY InitTypeOK, NextTypeOK, InitOnce, NextOnce, OnceIsEnough, PTL DEF Spec
-----------------------------------------------------------------------------
\* The counters of the scheduler are exact, and Stop returns only when it is
\* drained: DrainInv is inductive.

LEMMA ProcsFinite == IsFiniteSet(Procs)
BY ProcAssumption, FS_AddElement DEF Procs

LEMMA LabelSubsets ==
    /\ InsideLabels \subseteq Labels /\ IdleLabels \subseteq Labels
    /\ OnFiberLabels \subseteq InsideLabels
    /\ InsideLabels \cap IdleLabels = {}
BY DEF InsideLabels, IdleLabels, OnFiberLabels, Labels

\* How the number of threads running a task, or idle, changes when one thread
\* moves to label l.
LEMMA MoveInside ==
    ASSUME TypeOK, CountsExact, NEW p \in Procs, NEW l \in Labels,
           pc' = [pc EXCEPT ![p] = l]
    PROVE  /\ (pc[p] \in InsideLabels <=> l \in InsideLabels) => Cardinality(Inside') = active
           /\ pc[p] \notin InsideLabels /\ l \in InsideLabels => Cardinality(Inside') = active + 1
           /\ pc[p] \in InsideLabels /\ l \notin InsideLabels => Cardinality(Inside') = active - 1
<1>1. \A q \in Procs : pc'[q] = IF q = p THEN l ELSE pc[q]
  BY DEF TypeOK
<1>2. IsFiniteSet(Inside) /\ Cardinality(Inside) = active
  BY ProcsFinite, FS_Subset DEF Inside, CountsExact
<1>3. ASSUME pc[p] \in InsideLabels <=> l \in InsideLabels
      PROVE  Inside' = Inside
  BY <1>1, <1>3 DEF Inside
<1>4. ASSUME pc[p] \notin InsideLabels, l \in InsideLabels
      PROVE  Cardinality(Inside') = active + 1
  <2>1. Inside' = Inside \cup {p} /\ p \notin Inside
    BY <1>1, <1>4 DEF Inside
  <2> QED BY <1>2, <2>1, FS_AddElement, Zenon
<1>5. ASSUME pc[p] \in InsideLabels, l \notin InsideLabels
      PROVE  Cardinality(Inside') = active - 1
  <2>1. Inside' = Inside \ {p} /\ p \in Inside
    BY <1>1, <1>5 DEF Inside
  <2> QED BY <1>2, <2>1, FS_RemoveElement, Zenon
<1> QED BY <1>2, <1>3, <1>4, <1>5

LEMMA MoveIdling ==
    ASSUME TypeOK, CountsExact, NEW p \in Procs, NEW l \in Labels,
           pc' = [pc EXCEPT ![p] = l]
    PROVE  /\ (pc[p] \in IdleLabels <=> l \in IdleLabels) => Cardinality(Idling') = idle
           /\ pc[p] \notin IdleLabels /\ l \in IdleLabels => Cardinality(Idling') = idle + 1
           /\ pc[p] \in IdleLabels /\ l \notin IdleLabels => Cardinality(Idling') = idle - 1
<1>1. \A q \in Procs : pc'[q] = IF q = p THEN l ELSE pc[q]
  BY DEF TypeOK
<1>2. IsFiniteSet(Idling) /\ Cardinality(Idling) = idle
  BY ProcsFinite, FS_Subset DEF Idling, CountsExact
<1>3. ASSUME pc[p] \in IdleLabels <=> l \in IdleLabels
      PROVE  Idling' = Idling
  BY <1>1, <1>3 DEF Idling
<1>4. ASSUME pc[p] \notin IdleLabels, l \in IdleLabels
      PROVE  Cardinality(Idling') = idle + 1
  <2>1. Idling' = Idling \cup {p} /\ p \notin Idling
    BY <1>1, <1>4 DEF Idling
  <2> QED BY <1>2, <2>1, FS_AddElement, Zenon
<1>5. ASSUME pc[p] \in IdleLabels, l \notin IdleLabels
      PROVE  Cardinality(Idling') = idle - 1
  <2>1. Idling' = Idling \ {p} /\ p \in Idling
    BY <1>1, <1>5 DEF Idling
  <2> QED BY <1>2, <2>1, FS_RemoveElement, Zenon
<1> QED BY <1>2, <1>3, <1>4, <1>5

LEMMA SamePending ==
    ASSUME CountsExact, UNCHANGED <<reg, fdLock, pending>>
    PROVE  pending' = Cardinality(Awaited') + Cardinality(Triggering')
<1>1. Awaited' = Awaited /\ Triggering' = Triggering
  BY DEF Awaited, Triggering
<1> QED BY <1>1 DEF CountsExact

LEMMA SameLocks ==
    ASSUME TypeOK, LockInv, NEW p \in Procs, NEW l \in Labels,
           pc' = [pc EXCEPT ![p] = l], UNCHANGED fdLock,
           pc[p] # "evNotify", l # "evNotify"
    PROVE  LockInv'
<1>1. pc \in [Procs -> Labels]
  BY DEF TypeOK
<1>2. \A q \in Procs : pc'[q] = "evNotify" <=> pc[q] = "evNotify"
  BY <1>1
<1> QED BY <1>2 DEF LockInv

LEMMA SameStacks ==
    ASSUME TypeOK, OnStackInv, NEW p \in Procs, NEW l \in Labels,
           pc' = [pc EXCEPT ![p] = l], UNCHANGED exec,
           crash' = crash \/ crash' # "no",
           pc[p] \in OnFiberLabels <=> l \in OnFiberLabels
    PROVE  OnStackInv'
<1>1. pc \in [Procs -> Labels]
  BY DEF TypeOK
<1>2. \A q \in Procs : pc'[q] \in OnFiberLabels <=> pc[q] \in OnFiberLabels
  BY <1>1
<1> QED BY <1>2 DEF OnStackInv

\* Labels of a runner that has not begun to leave.
Working == Labels \ (GoneLabels \cup {"runStop2", "main", "mainNotify"})

LEMMA StaysAtWork ==
    ASSUME TypeOK, LeaveInv, NEW p \in Runners, NEW l \in Working,
           pc' = [pc EXCEPT ![p] = l], UNCHANGED enableStop,
           pc[p] \notin GoneLabels
    PROVE  LeaveInv'
<1> USE RunnersAreProcs
<1>1. pc \in [Procs -> Labels] /\ p \in Procs
  BY DEF TypeOK
<1>2. pc'[p] = l
  BY <1>1
<1>3. ~AllGone' /\ ~AllLeaving'
  BY <1>2 DEF AllGone, AllLeaving, Working
<1>4. \A q \in Procs : q # p => pc'[q] = pc[q]
  BY <1>1
<1>5. pc'[Main] \in {"main", "mainNotify", "stopped"} => pc'[Main] = pc[Main]
  BY <1>2, <1>4 DEF Working, GoneLabels
<1>6. \A q \in Runners : pc'[q] \in GoneLabels => pc[q] \in GoneLabels
  BY <1>2, <1>4 DEF Working
<1>7. pc'[Main] # "stopped"
  BY <1>5 DEF LeaveInv, AllGone
<1> QED BY <1>3, <1>5, <1>6, <1>7 DEF LeaveInv

\* A step that neither enters nor leaves a fiber, the idle loop or an event.
LEMMA QuietStep ==
    ASSUME TypeOK, DrainInv, NEW p \in Runners, NEW l \in Working,
           pc' = [pc EXCEPT ![p] = l], pc[p] \notin GoneLabels,
           UNCHANGED <<exec, active, idle, enableStop, reg, fdLock, pending,
                       crash>>,
           pc[p] # "evNotify", l # "evNotify",
           pc[p] \in InsideLabels <=> l \in InsideLabels,
           pc[p] \in IdleLabels <=> l \in IdleLabels,
           pc[p] \in OnFiberLabels <=> l \in OnFiberLabels
    PROVE  DrainInv'
<1> USE RunnersAreProcs
<1>1. p \in Procs /\ l \in Labels
  BY DEF Working
<1>2. CountsExact /\ OnStackInv /\ LockInv /\ LeaveInv
  BY DEF DrainInv
<1>3. CountsExact'
  <2>1. Cardinality(Inside') = active /\ Cardinality(Idling') = idle
    BY <1>1, <1>2, MoveInside, MoveIdling
  <2>2. pending' = Cardinality(Awaited') + Cardinality(Triggering')
    BY <1>2, SamePending
  <2> QED BY <2>1, <2>2 DEF CountsExact
<1>4. OnStackInv'
  BY <1>1, <1>2, SameStacks
<1>5. LockInv'
  BY <1>1, <1>2, SameLocks
<1>6. LeaveInv'
  BY <1>2, StaysAtWork
<1> QED BY <1>3, <1>4, <1>5, <1>6 DEF DrainInv

OutsideLabels == {"take", "notify", "dispatch", "check", "setHold", "goIdle",
                  "runStop"}
WaitingLabels == IdleLabels \ {"evNotify"}

\* A step that stays in Run, in a callback or in the idle loop.
LEMMA StepWithin ==
    ASSUME TypeOK, DrainInv, NEW p \in Runners, NEW l,
           pc' = [pc EXCEPT ![p] = l],
           \/ pc[p] \in OutsideLabels /\ l \in OutsideLabels
           \/ pc[p] \in OnFiberLabels /\ l \in OnFiberLabels
           \/ pc[p] \in WaitingLabels /\ l \in WaitingLabels,
           UNCHANGED <<exec, active, idle, enableStop, reg, fdLock, pending,
                       crash>>
    PROVE  DrainInv'
<1>1. l \in Working /\ pc[p] \notin GoneLabels
  BY DEF Working, Labels, GoneLabels, OutsideLabels, OnFiberLabels,
         WaitingLabels, IdleLabels
<1>2. pc[p] # "evNotify" /\ l # "evNotify"
  BY DEF OutsideLabels, OnFiberLabels, WaitingLabels
<1>3. pc[p] \in InsideLabels <=> l \in InsideLabels
  BY DEF OutsideLabels, InsideLabels, OnFiberLabels, WaitingLabels, IdleLabels
<1>4. pc[p] \in IdleLabels <=> l \in IdleLabels
  BY DEF OutsideLabels, OnFiberLabels, WaitingLabels, IdleLabels
<1>5. pc[p] \in OnFiberLabels <=> l \in OnFiberLabels
  BY DEF OutsideLabels, OnFiberLabels, WaitingLabels, IdleLabels
<1> QED BY <1>1, <1>2, <1>3, <1>4, <1>5, QuietStep

\* A step into a fiber or out of one: the state of the threads' stacks, the
\* registrations and the locks are dealt with by the caller.
LEMMA CrossingStep ==
    ASSUME TypeOK, DrainInv, NEW p \in Runners, NEW l \in Working,
           pc' = [pc EXCEPT ![p] = l], pc[p] \in Working,
           pc[p] # "evNotify", l # "evNotify",
           \/ /\ pc[p] \notin InsideLabels /\ l \in InsideLabels
              /\ active' = active + 1
           \/ /\ pc[p] \in InsideLabels /\ l \notin InsideLabels
              /\ active' = active - 1
           \/ /\ pc[p] \in InsideLabels <=> l \in InsideLabels
              /\ active' = active,
           \/ /\ pc[p] \notin IdleLabels /\ l \in IdleLabels
              /\ idle' = idle + 1
           \/ /\ pc[p] \in IdleLabels /\ l \notin IdleLabels
              /\ idle' = idle - 1
           \/ /\ pc[p] \in IdleLabels <=> l \in IdleLabels
              /\ idle' = idle,
           UNCHANGED <<enableStop, reg, fdLock, pending>>,
           OnStackInv'
    PROVE  DrainInv'
<1> USE RunnersAreProcs
<1>1. p \in Procs /\ l \in Labels /\ pc[p] \notin GoneLabels
  BY DEF Working
<1>2. CountsExact /\ LockInv /\ LeaveInv
  BY DEF DrainInv
<1>3. CountsExact'
  <2>1. Cardinality(Inside') = active'
    <3>1. /\ (pc[p] \in InsideLabels <=> l \in InsideLabels) => Cardinality(Inside') = active
          /\ pc[p] \notin InsideLabels /\ l \in InsideLabels => Cardinality(Inside') = active + 1
          /\ pc[p] \in InsideLabels /\ l \notin InsideLabels => Cardinality(Inside') = active - 1
      BY <1>1, <1>2, MoveInside, Zenon
    <3> QED BY <3>1, Zenon
  <2>2. Cardinality(Idling') = idle'
    <3>1. /\ (pc[p] \in IdleLabels <=> l \in IdleLabels) => Cardinality(Idling') = idle
          /\ pc[p] \notin IdleLabels /\ l \in IdleLabels => Cardinality(Idling') = idle + 1
          /\ pc[p] \in IdleLabels /\ l \notin IdleLabels => Cardinality(Idling') = idle - 1
      BY <1>1, <1>2, MoveIdling, Zenon
    <3> QED BY <3>1, Zenon
  <2>3. pending' = Cardinality(Awaited') + Cardinality(Triggering')
    BY <1>2, SamePending
  <2> QED BY <2>1, <2>2, <2>3 DEF CountsExact
<1>4. LockInv'
  BY <1>1, <1>2, SameLocks
<1>5. LeaveInv'
  BY <1>1, <1>2, StaysAtWork
<1> QED BY <1>3, <1>4, <1>5 DEF DrainInv

LEMMA SwapInStacks ==
    ASSUME TypeOK, OnStackInv, NEW p \in Procs, NEW f \in Jobs, NEW c,
           SwapIn(p, f, c), pc' = [pc EXCEPT ![p] = "job"], crash = "no"
    PROVE  OnStackInv'
<1>1. pc \in [Procs -> Labels] /\ exec \in [Procs -> OnStack]
  BY DEF TypeOK
<1>2. \A q \in Procs : pc'[q] = IF q = p THEN "job" ELSE pc[q]
  BY <1>1
<1>3. CASE exec' = exec /\ crash' # "no"
  BY <1>2, <1>3 DEF OnStackInv, OnFiberLabels
<1>4. CASE /\ exec' = [exec EXCEPT ![p] = [fiber |-> f, job |-> c.job]]
           /\ crash' = crash
  <2>1. \A q \in Procs : q # p => exec'[q] = exec[q]
    BY <1>1, <1>4
  <2>2. exec'[p].fiber = f /\ f # None
    BY <1>1, <1>4, JobAssumption
  <2> QED BY <1>2, <1>4, <2>1, <2>2 DEF OnStackInv, OnFiberLabels
<1> QED BY <1>3, <1>4 DEF SwapIn, Abort

\* The two reads by which a thread decides to leave: m_pendingCnt is 0, and
\* then no task is queued; what the first read saw still holds at the second
\* if everybody else has left or is about to.
LEMMA RunCanStopDrain ==
    ASSUME TypeOK, DrainInv, NEW p \in Runners, RunCanStop(p)
    PROVE  DrainInv'
<1> USE RunnersAreProcs
<1> DEFINE out == IF p = Main THEN "join" ELSE "exited"
<1>1. /\ UNCHANGED <<tasks, exec, active, idle, enableStop, reg, fdLock,
                     pending, crash>>
      /\ pc \in [Procs -> Labels] /\ p \in Procs
  BY DEF RunCanStop, ReadPending, ReadScheduler, fiberVars, ioVars, TypeOK
<1>2. CASE pc[p] = "runStop" /\ pc' = [pc EXCEPT ![p] = "take"]
  BY <1>1, <1>2, StepWithin DEF OutsideLabels
<1>3. ASSUME NEW l \in {"take", "runStop2", "join", "exited"},
             pc' = [pc EXCEPT ![p] = l], pc[p] \in {"runStop", "runStop2"}
      PROVE  CountsExact' /\ OnStackInv' /\ LockInv'
  <2>1. /\ l \in Labels /\ l # "evNotify" /\ pc[p] # "evNotify"
        /\ l \notin InsideLabels \cup IdleLabels \cup OnFiberLabels
        /\ pc[p] \notin InsideLabels \cup IdleLabels \cup OnFiberLabels
    BY <1>3 DEF Labels, InsideLabels, IdleLabels, OnFiberLabels
  <2>2. Cardinality(Inside') = active /\ Cardinality(Idling') = idle
    BY <1>1, <1>3, <2>1, MoveInside, MoveIdling DEF DrainInv
  <2>3. pending' = Cardinality(Awaited') + Cardinality(Triggering')
    BY <1>1, SamePending DEF DrainInv
  <2>4. OnStackInv' /\ LockInv'
    BY <1>1, <1>3, <2>1, SameStacks, SameLocks DEF DrainInv
  <2> QED BY <1>1, <2>2, <2>3, <2>4 DEF CountsExact
<1>4. CASE /\ pc[p] = "runStop" /\ pending = 0
           /\ pc' = [pc EXCEPT ![p] = "runStop2"]
  <2>1. \A q \in Procs : pc'[q] = IF q = p THEN "runStop2" ELSE pc[q]
    BY <1>1, <1>4
  <2>2. ~AllGone'
    BY <2>1 DEF AllGone, GoneLabels
  <2>3. pc'[Main] # "stopped"
    BY <1>1, <1>4, <2>1 DEF DrainInv, LeaveInv, AllGone, GoneLabels
  <2>4. LeaveInv'
    BY <1>1, <1>4, <2>1, <2>2, <2>3 DEF DrainInv, LeaveInv, GoneLabels
  <2> QED BY <1>3, <1>4, <2>4 DEF DrainInv
<1>5. CASE pc[p] = "runStop2" /\ pc' = [pc EXCEPT ![p] = "take"]
  <2>1. LeaveInv'
    BY <1>1, <1>5, StaysAtWork DEF DrainInv, Working, Labels, GoneLabels
  <2> QED BY <1>3, <1>5, <2>1 DEF DrainInv
<1>6. CASE pc[p] = "runStop2" /\ SchedulerCanStop /\ pc' = [pc EXCEPT ![p] = out]
  <2>1. \A q \in Procs : pc'[q] = IF q = p THEN out ELSE pc[q]
    BY <1>1, <1>6
  <2>2. tasks = <<>> /\ enableStop
    BY <1>6 DEF SchedulerCanStop
  <2>3. AllLeaving' => AllLeaving
    BY <1>6, <2>1 DEF AllLeaving
  <2>4. pc'[Main] # "stopped"
    BY <1>1, <1>6, <2>1 DEF DrainInv, LeaveInv, AllGone, GoneLabels
  <2>5. pc'[Main] \in {"main", "mainNotify"} => pc[Main] \in {"main", "mainNotify"}
    BY <2>1
  <2>6. LeaveInv'
    BY <1>1, <2>2, <2>3, <2>4, <2>5 DEF DrainInv, LeaveInv
  <2> QED BY <1>3, <1>6, <2>6 DEF DrainInv
<1>7. \/ pc[p] = "runStop" /\ pc' = [pc EXCEPT ![p] = "take"]
      \/ /\ pc[p] = "runStop" /\ pending = 0
         /\ pc' = [pc EXCEPT ![p] = "runStop2"]
      \/ pc[p] = "runStop2" /\ pc' = [pc EXCEPT ![p] = "take"]
      \/ /\ pc[p] = "runStop2" /\ SchedulerCanStop
         /\ pc' = [pc EXCEPT ![p] = out]
  BY DEF RunCanStop, ReadPending, ReadScheduler, At, Goto
<1> QED BY <1>2, <1>4, <1>5, <1>6, <1>7

LEMMA RunStepDrain ==
    ASSUME TypeOK, DrainInv, NEW p \in Runners, RunStep(p)
    PROVE  DrainInv'
<1> USE RunnersAreProcs
<1>1. CASE Take(p)
  <2>1. PICK l \in {"goIdle", "notify", "dispatch"} :
            pc' = [pc EXCEPT ![p] = l]
    BY <1>1 DEF Take, Goto
  <2>2. /\ pc[p] = "take"
        /\ UNCHANGED <<exec, active, idle, enableStop, reg, fdLock, pending,
                       crash>>
    BY <1>1 DEF Take, At, fiberVars, ioVars
  <2> QED BY <2>1, <2>2, StepWithin DEF OutsideLabels
<1>2. CASE RunNotify(p)
  <2>1. PICK l \in {"goIdle", "dispatch"} : pc' = [pc EXCEPT ![p] = l]
    BY <1>2 DEF RunNotify, Goto
  <2>2. /\ pc[p] = "notify"
        /\ UNCHANGED <<exec, active, idle, enableStop, reg, fdLock, pending,
                       crash>>
    BY <1>2 DEF RunNotify, At, fiberVars
  <2> QED BY <2>1, <2>2, StepWithin DEF OutsideLabels
<1>3. CASE DispatchCb(p)
  <2>1. /\ pc' = [pc EXCEPT ![p] = "job"] /\ pc[p] = "dispatch"
        /\ active' = active + 1 /\ crash = "no"
        /\ UNCHANGED <<idle, enableStop, reg, fdLock, pending>>
    BY <1>3 DEF DispatchCb, At, Goto, ioVars
  <2>2. PICK f \in Jobs, c \in Context : SwapIn(p, f, c)
    <3>1. cur[p].id \in Jobs
      BY <1>3, KindOfTask DEF DispatchCb, TypeOK
    <3>2. (IF cbFiber[p] = None THEN cur[p].id ELSE cbFiber[p]) \in Jobs
      BY <3>1 DEF TypeOK
    <3>3. [at |-> "entry", job |-> cur[p].id] \in Context
      BY <3>1 DEF Context
    <3> QED BY <1>3, <3>2, <3>3 DEF DispatchCb
  <2>3. OnStackInv'
    BY <2>1, <2>2, SwapInStacks DEF DrainInv
  <2> QED
    BY <2>1, <2>3, CrossingStep
    DEF Working, Labels, GoneLabels, InsideLabels, OnFiberLabels, IdleLabels
<1>4. CASE DispatchFiber(p)
  <2>1. pc[p] = "dispatch" /\ crash = "no"
        /\ UNCHANGED <<idle, enableStop, reg, fdLock, pending>>
    BY <1>4 DEF DispatchFiber, At, ioVars
  <2>2. CASE fstate[cur[p].id] = "TERM"
    <3>1. /\ pc' = [pc EXCEPT ![p] = "take"]
          /\ UNCHANGED <<exec, active, crash>>
      BY <1>4, <2>2 DEF DispatchFiber, Goto
    <3> QED BY <2>1, <3>1, StepWithin DEF OutsideLabels
  <2>3. CASE fstate[cur[p].id] # "TERM"
    <3>1. /\ pc' = [pc EXCEPT ![p] = "job"] /\ active' = active + 1
          /\ SwapIn(p, cur[p].id, ctx[cur[p].id])
      BY <1>4, <2>3 DEF DispatchFiber, Goto
    <3>2. cur[p].id \in Jobs
      BY <1>4, KindOfTask DEF DispatchFiber, TypeOK
    <3>3. OnStackInv'
      BY <2>1, <3>1, <3>2, SwapInStacks DEF DrainInv
    <3> QED
      BY <2>1, <3>1, <3>3, CrossingStep
      DEF Working, Labels, GoneLabels, InsideLabels, OnFiberLabels, IdleLabels
  <2> QED BY <2>2, <2>3
<1>5. CASE AfterSwapIn(p)
  <2>1. /\ pc' = [pc EXCEPT ![p] = "check"] /\ pc[p] = "after"
        /\ active' = active - 1
        /\ UNCHANGED <<exec, crash, idle, enableStop, reg, fdLock, pending>>
    BY <1>5 DEF AfterSwapIn, At, Goto, fiberVars, ioVars
  <2>2. OnStackInv'
    BY <2>1, SameStacks DEF DrainInv, Labels, OnFiberLabels
  <2> QED
    BY <2>1, <2>2, CrossingStep
    DEF Working, Labels, GoneLabels, InsideLabels, OnFiberLabels, IdleLabels
<1>6. CASE CheckCb(p)
  <2>1. /\ pc' = [pc EXCEPT ![p] = "take"] /\ pc[p] = "check"
        /\ UNCHANGED <<exec, active, idle, enableStop, reg, fdLock, pending,
                       crash>>
    BY <1>6 DEF CheckCb, At, Goto, ioVars
  <2> QED BY <2>1, StepWithin DEF OutsideLabels
<1>7. CASE CheckFiber(p)
  <2>1. PICK l \in {"take", "setHold"} : pc' = [pc EXCEPT ![p] = l]
    BY <1>7 DEF CheckFiber, Goto
  <2>2. /\ pc[p] = "check"
        /\ UNCHANGED <<exec, active, idle, enableStop, reg, fdLock, pending,
                       crash>>
    BY <1>7 DEF CheckFiber, At, fiberVars, ioVars
  <2> QED BY <2>1, <2>2, StepWithin DEF OutsideLabels
<1>8. CASE SetHold(p)
  <2>1. /\ pc' = [pc EXCEPT ![p] = "take"] /\ pc[p] = "setHold"
        /\ UNCHANGED <<exec, active, idle, enableStop, reg, fdLock, pending,
                       crash>>
    BY <1>8 DEF SetHold, At, Goto, ioVars
  <2> QED BY <2>1, StepWithin DEF OutsideLabels
<1>9. CASE RunCanStop(p)
  BY <1>9, RunCanStopDrain
<1> QED BY <1>1, <1>2, <1>3, <1>4, <1>5, <1>6, <1>7, <1>8, <1>9 DEF RunStep

LEMMA AwaitedFinite ==
    /\ IsFiniteSet(Awaited) /\ Cardinality(Awaited) \in Nat
    /\ IsFiniteSet(Triggering) /\ Cardinality(Triggering) \in Nat
BY JobAssumption, FS_Subset, FS_CardinalityType DEF Awaited, Triggering

\* A thread leaves the stack of the fiber it runs.
LEMMA LeaveFiber ==
    ASSUME TypeOK, DrainInv, NEW p \in Runners, crash = "no",
           pc' = [pc EXCEPT ![p] = "after"], pc[p] \in {"yield", "term"},
           exec' = [exec EXCEPT ![p] = OffCpu],
           UNCHANGED <<active, idle, enableStop, reg, fdLock, pending>>
    PROVE  DrainInv'
<1> USE RunnersAreProcs
<1>1. pc \in [Procs -> Labels] /\ exec \in [Procs -> OnStack] /\ p \in Procs
  BY DEF TypeOK
<1>2. \A q \in Procs : /\ pc'[q] = IF q = p THEN "after" ELSE pc[q]
                       /\ exec'[q] = IF q = p THEN OffCpu ELSE exec[q]
  BY <1>1
<1>3. OffCpu.fiber = None /\ "after" \notin OnFiberLabels
  BY DEF OffCpu, OnFiberLabels
<1>4. \A q \in Procs :
          /\ exec[q].fiber # None => pc[q] \in OnFiberLabels
          /\ pc[q] \in OnFiberLabels => exec[q].fiber # None
  BY DEF DrainInv, OnStackInv
<1>5. \A q \in Procs :
          /\ exec'[q].fiber # None => pc'[q] \in OnFiberLabels
          /\ pc'[q] \in OnFiberLabels => exec'[q].fiber # None
  BY <1>2, <1>3, <1>4
<1>6. OnStackInv'
  BY <1>5 DEF OnStackInv
<1> QED
  BY <1>6, CrossingStep
  DEF Working, Labels, GoneLabels, InsideLabels, OnFiberLabels, IdleLabels

LEMMA JobStepDrain ==
    ASSUME TypeOK, DrainInv, NEW p \in Runners, JobStep(p)
    PROVE  DrainInv'
<1> USE RunnersAreProcs
<1>1. CASE AddEvent(p)
  <2> DEFINE f == exec[p].fiber
             j == exec[p].job
  <2>1. /\ pc' = [pc EXCEPT ![p] = "yield"] /\ pc[p] = "job" /\ crash = "no"
        /\ reg' = [reg EXCEPT ![j] = f] /\ reg[j] = None /\ j # None
        /\ pending' = pending + 1
        /\ UNCHANGED <<exec, active, idle, enableStop, fdLock>>
    BY <1>1 DEF AddEvent, At, Goto, fiberVars
  <2>2. crash' = crash \/ crash' # "no"
    BY <1>1 DEF AddEvent, Abort
  <2>3. /\ "yield" \in Working /\ "yield" \in Labels /\ pc[p] \notin GoneLabels
        /\ pc[p] \in OnFiberLabels /\ "yield" \in OnFiberLabels
        /\ pc[p] \in InsideLabels /\ "yield" \in InsideLabels
        /\ pc[p] \notin IdleLabels /\ "yield" \notin IdleLabels
        /\ pc[p] # "evNotify"
    BY <2>1 DEF Working, Labels, GoneLabels, OnFiberLabels, InsideLabels,
                IdleLabels
  <2>4. j \in Jobs /\ f # None
    <3>1. exec[p] \in OnStack
      BY DEF TypeOK
    <3>2. exec[p].fiber # None
      BY <2>1, <2>3 DEF DrainInv, OnStackInv
    <3> QED BY <2>1, <3>1, <3>2 DEF OnStack
  <2> HIDE DEF f, j
  <2>5. Cardinality(Inside') = active /\ Cardinality(Idling') = idle
    BY <2>1, <2>3, MoveInside, MoveIdling DEF DrainInv
  <2>6. Awaited' = Awaited \cup {j} /\ j \notin Awaited
    BY <2>1, <2>4 DEF Awaited, TypeOK
  <2>7. Cardinality(Awaited') = Cardinality(Awaited) + 1
    BY <2>6, AwaitedFinite, FS_AddElement, Zenon
  <2>8. Triggering' = Triggering
    BY <2>1 DEF Triggering
  <2>9. CountsExact'
    BY <2>1, <2>5, <2>7, <2>8, AwaitedFinite DEF DrainInv, CountsExact
  <2>10. OnStackInv'
    BY <2>1, <2>2, <2>3, SameStacks DEF DrainInv
  <2>11. LockInv'
    BY <2>1, <2>3, SameLocks DEF DrainInv
  <2>12. LeaveInv'
    BY <2>1, <2>3, StaysAtWork DEF DrainInv
  <2> QED BY <2>9, <2>10, <2>11, <2>12 DEF DrainInv
<1>2. CASE YieldToHold(p)
  <2>1. /\ pc' = [pc EXCEPT ![p] = "after"] /\ pc[p] = "yield"
        /\ exec' = [exec EXCEPT ![p] = OffCpu]
        /\ UNCHANGED <<active, idle, enableStop, reg, fdLock, pending>>
    BY <1>2 DEF YieldToHold, At, Goto, ioVars
  <2>2. crash = "no"
    BY <1>2 DEF YieldToHold, At
  <2> QED BY <2>1, <2>2, LeaveFiber
<1>3. CASE Return(p)
  <2>1. /\ pc' = [pc EXCEPT ![p] = "term"] /\ pc[p] = "job"
        /\ UNCHANGED <<exec, active, idle, enableStop, reg, fdLock, pending,
                       crash>>
    BY <1>3 DEF Return, At, Goto, ioVars
  <2> QED BY <2>1, StepWithin DEF OnFiberLabels
<1>4. CASE TermSwapOut(p)
  <2>1. /\ pc' = [pc EXCEPT ![p] = "after"] /\ pc[p] = "term"
        /\ exec' = [exec EXCEPT ![p] = OffCpu]
        /\ UNCHANGED <<active, idle, enableStop, reg, fdLock, pending>>
    BY <1>4 DEF TermSwapOut, At, Goto, ioVars
  <2>2. crash = "no"
    BY <1>4 DEF TermSwapOut, At
  <2> QED BY <2>1, <2>2, LeaveFiber
<1>5. ASSUME NEW k \in Jobs, JobPush(p, k)
      PROVE  DrainInv'
  <2>1. /\ pc' = [pc EXCEPT ![p] = "jobNotify"] /\ pc[p] = "job"
        /\ UNCHANGED <<exec, active, idle, enableStop, reg, fdLock, pending,
                       crash>>
    BY <1>5 DEF JobPush, At, Goto, fiberVars, ioVars
  <2> QED BY <2>1, StepWithin DEF OnFiberLabels
<1>6. CASE JobNotify(p)
  <2>1. /\ pc' = [pc EXCEPT ![p] = "job"] /\ pc[p] = "jobNotify"
        /\ UNCHANGED <<exec, active, idle, enableStop, reg, fdLock, pending,
                       crash>>
    BY <1>6 DEF JobNotify, At, Goto, fiberVars
  <2> QED BY <2>1, StepWithin DEF OnFiberLabels
<1> QED BY <1>1, <1>2, <1>3, <1>4, <1>5, <1>6 DEF JobStep

\* Steps that touch nothing the counters are about.
LEMMA SameDrain ==
    ASSUME DrainInv, UNCHANGED <<pc, tasks, exec, active, idle, enableStop,
                                 reg, fdLock, pending, crash>>
    PROVE  DrainInv'
<1>1. CountsExact'
  BY DEF DrainInv, CountsExact, Inside, Idling, Awaited, Triggering
<1>2. OnStackInv' /\ LockInv'
  BY DEF DrainInv, OnStackInv, LockInv
<1>3. LeaveInv'
  BY DEF DrainInv, LeaveInv, AllGone, AllLeaving
<1> QED BY <1>1, <1>2, <1>3 DEF DrainInv

\* An awaited event becomes one that is being triggered, under its mutex.
LEMMA TriggerEventDrain ==
    ASSUME TypeOK, DrainInv, NEW p \in Runners, NEW j \in Jobs,
           TriggerEvent(p, j)
    PROVE  DrainInv'
<1> USE RunnersAreProcs
<1>1. /\ pc' = [pc EXCEPT ![p] = "evNotify"] /\ pc[p] = "events"
      /\ reg' = [reg EXCEPT ![j] = None] /\ reg[j] # None
      /\ fdLock' = [fdLock EXCEPT ![j] = p] /\ fdLock[j] = None
      /\ UNCHANGED <<exec, active, idle, enableStop, pending, crash>>
  BY DEF TriggerEvent, At, Goto, fiberVars
<1>2. /\ "evNotify" \in Working /\ "evNotify" \in Labels
      /\ pc[p] \notin GoneLabels
      /\ pc[p] \notin OnFiberLabels /\ "evNotify" \notin OnFiberLabels
      /\ pc[p] \notin InsideLabels /\ "evNotify" \notin InsideLabels
      /\ pc[p] \in IdleLabels /\ "evNotify" \in IdleLabels
  BY <1>1 DEF Working, Labels, GoneLabels, OnFiberLabels, InsideLabels,
              IdleLabels
<1>3. Cardinality(Inside') = active /\ Cardinality(Idling') = idle
  BY <1>1, <1>2, MoveInside, MoveIdling DEF DrainInv
<1>4. p # None /\ p \in Procs /\ pc \in [Procs -> Labels]
      /\ fdLock \in [Jobs -> Procs \cup {None}]
      /\ reg \in [Jobs -> Jobs \cup {None}]
  BY ProcAssumption DEF TypeOK
<1>5. \A k \in Jobs : fdLock'[k] = IF k = j THEN p ELSE fdLock[k]
  BY <1>1, <1>4
<1>6. Awaited' = Awaited \ {j} /\ j \in Awaited
  BY <1>1, <1>4 DEF Awaited
<1>7. Triggering' = Triggering \cup {j} /\ j \notin Triggering
  BY <1>1, <1>4, <1>5 DEF Triggering
<1>8. CountsExact'
  <2>1. Cardinality(Awaited') = Cardinality(Awaited) - 1
    BY <1>6, AwaitedFinite, FS_RemoveElement, Zenon
  <2>2. Cardinality(Triggering') = Cardinality(Triggering) + 1
    BY <1>7, AwaitedFinite, FS_AddElement, Zenon
  <2> QED
    BY <1>1, <1>3, <2>1, <2>2, AwaitedFinite DEF DrainInv, CountsExact
<1>9. OnStackInv'
  BY <1>1, <1>2, SameStacks DEF DrainInv
<1>10. LockInv'
  <2>1. \A q \in Procs : pc'[q] = IF q = p THEN "evNotify" ELSE pc[q]
    BY <1>1, <1>4
  <2>2. \A k \in Jobs : fdLock[k] # p
    BY <1>1 DEF DrainInv, LockInv
  <2>3. \A k, m \in Jobs : fdLock'[k] = fdLock'[m] /\ fdLock'[k] # None => k = m
    BY <1>5, <2>2 DEF DrainInv, LockInv
  <2>4. ASSUME NEW q \in Procs
        PROVE  pc'[q] = "evNotify" <=> \E k \in Jobs : fdLock'[k] = q
    <3>1. q # None
      BY ProcAssumption
    <3>2. pc[q] = "evNotify" <=> \E k \in Jobs : fdLock[k] = q
      BY DEF DrainInv, LockInv
    <3> QED BY <1>1, <1>5, <2>1, <2>2, <3>1, <3>2
  <2> QED BY <2>3, <2>4 DEF LockInv
<1>11. LeaveInv'
  BY <1>1, <1>2, StaysAtWork DEF DrainInv
<1> QED BY <1>8, <1>9, <1>10, <1>11 DEF DrainInv

LEMMA EventNotifyDrain ==
    ASSUME TypeOK, DrainInv, NEW p \in Runners, EventNotify(p)
    PROVE  DrainInv'
<1> USE RunnersAreProcs
<1>1. /\ pc' = [pc EXCEPT ![p] = "events"] /\ pc[p] = "evNotify"
      /\ pending' = pending - 1
      /\ fdLock' = [k \in Jobs |-> IF fdLock[k] = p THEN None ELSE fdLock[k]]
      /\ UNCHANGED <<exec, active, idle, enableStop, reg, crash>>
  BY DEF EventNotify, At, Goto, fiberVars
<1>2. /\ "events" \in Working /\ "events" \in Labels
      /\ pc[p] \notin GoneLabels
      /\ pc[p] \notin OnFiberLabels /\ "events" \notin OnFiberLabels
      /\ pc[p] \notin InsideLabels /\ "events" \notin InsideLabels
      /\ pc[p] \in IdleLabels /\ "events" \in IdleLabels
  BY <1>1 DEF Working, Labels, GoneLabels, OnFiberLabels, InsideLabels,
              IdleLabels
<1>3. Cardinality(Inside') = active /\ Cardinality(Idling') = idle
  BY <1>1, <1>2, MoveInside, MoveIdling DEF DrainInv
<1>4. p # None /\ p \in Procs /\ pc \in [Procs -> Labels]
      /\ fdLock \in [Jobs -> Procs \cup {None}]
  BY ProcAssumption DEF TypeOK
<1>5. PICK j \in Jobs : fdLock[j] = p
  BY <1>1, <1>4 DEF DrainInv, LockInv
<1>6. \A k \in Jobs : fdLock[k] = p => k = j
  BY <1>4, <1>5 DEF DrainInv, LockInv
<1>7. \A k \in Jobs : fdLock'[k] = IF k = j THEN None ELSE fdLock[k]
  BY <1>1, <1>5, <1>6
<1>8. Triggering' = Triggering \ {j} /\ j \in Triggering
  BY <1>4, <1>5, <1>7 DEF Triggering
<1>9. Awaited' = Awaited
  BY <1>1 DEF Awaited
<1>10. CountsExact'
  <2>1. Cardinality(Triggering') = Cardinality(Triggering) - 1
    BY <1>8, AwaitedFinite, FS_RemoveElement, Zenon
  <2> QED
    BY <1>1, <1>3, <1>9, <2>1, AwaitedFinite DEF DrainInv, CountsExact
<1>11. OnStackInv'
  BY <1>1, <1>2, SameStacks DEF DrainInv
<1>12. LockInv'
  <2>1. \A q \in Procs : pc'[q] = IF q = p THEN "events" ELSE pc[q]
    BY <1>1, <1>4
  <2>2. \A k, m \in Jobs : fdLock'[k] = fdLock'[m] /\ fdLock'[k] # None => k = m
    BY <1>7 DEF DrainInv, LockInv
  <2>3. ASSUME NEW q \in Procs
        PROVE  pc'[q] = "evNotify" <=> \E k \in Jobs : fdLock'[k] = q
    <3>1. q # None
      BY ProcAssumption
    <3>2. pc[q] = "evNotify" <=> \E k \in Jobs : fdLock[k] = q
      BY DEF DrainInv, LockInv
    <3> QED BY <1>5, <1>6, <1>7, <2>1, <3>1, <3>2
  <2> QED BY <2>2, <2>3 DEF LockInv
<1>13. LeaveInv'
  BY <1>1, <1>2, StaysAtWork DEF DrainInv
<1> QED BY <1>10, <1>11, <1>12, <1>13 DEF DrainInv

LEMMA IdleStepDrain ==
    ASSUME TypeOK, DrainInv, NEW p \in Runners, IdleStep(p)
    PROVE  DrainInv'
<1> USE RunnersAreProcs
<1>1. CASE GoIdle(p)
  <2>1. /\ pc' = [pc EXCEPT ![p] = "idleStop"] /\ pc[p] = "goIdle"
        /\ idle' = idle + 1
        /\ UNCHANGED <<exec, crash, active, enableStop, reg, fdLock, pending>>
    BY <1>1 DEF GoIdle, At, Goto, fiberVars, ioVars
  <2>2. OnStackInv'
    BY <2>1, SameStacks DEF DrainInv, Labels, OnFiberLabels
  <2> QED
    BY <2>1, <2>2, CrossingStep
    DEF Working, Labels, GoneLabels, InsideLabels, OnFiberLabels, IdleLabels
<1>2. CASE IdleCanStop(p)
  <2>1. PICK l \in {"idleStop2", "idleBack", "wait"} :
            pc' = [pc EXCEPT ![p] = l]
    BY <1>2 DEF IdleCanStop, ReadPending, ReadScheduler, Goto
  <2>2. /\ pc[p] \in {"idleStop", "idleStop2"}
        /\ UNCHANGED <<exec, active, idle, enableStop, reg, fdLock, pending,
                       crash>>
    BY <1>2 DEF IdleCanStop, ReadPending, ReadScheduler, At, fiberVars, ioVars
  <2> QED BY <2>1, <2>2, StepWithin DEF WaitingLabels, IdleLabels
<1>3. CASE EpollWait(p)
  <2>1. /\ pc' = [pc EXCEPT ![p] = "events"] /\ pc[p] = "wait"
        /\ UNCHANGED <<exec, active, idle, enableStop, reg, fdLock, pending,
                       crash>>
    BY <1>3 DEF EpollWait, At, Goto, fiberVars
  <2> QED BY <2>1, StepWithin DEF WaitingLabels, IdleLabels
<1>4. CASE DrainEventfd(p)
  BY <1>4, SameDrain DEF DrainEventfd, fiberVars
<1>5. ASSUME NEW j \in Jobs, SkipEvent(p, j)
      PROVE  DrainInv'
  BY <1>5, SameDrain DEF SkipEvent, fiberVars
<1>6. ASSUME NEW j \in Jobs, TriggerEvent(p, j)
      PROVE  DrainInv'
  BY <1>6, TriggerEventDrain
<1>7. CASE EventNotify(p)
  BY <1>7, EventNotifyDrain
<1>8. CASE IdleYield(p)
  <2>1. /\ pc' = [pc EXCEPT ![p] = "idleBack"] /\ pc[p] = "events"
        /\ UNCHANGED <<exec, active, idle, enableStop, reg, fdLock, pending,
                       crash>>
    BY <1>8 DEF IdleYield, At, Goto, fiberVars, ioVars
  <2> QED BY <2>1, StepWithin DEF WaitingLabels, IdleLabels
<1>9. CASE IdleBack(p)
  <2>1. /\ pc' = [pc EXCEPT ![p] = "runStop"] /\ pc[p] = "idleBack"
        /\ idle' = idle - 1
        /\ UNCHANGED <<exec, crash, active, enableStop, reg, fdLock, pending>>
    BY <1>9 DEF IdleBack, At, Goto, fiberVars, ioVars
  <2>2. OnStackInv'
    BY <2>1, SameStacks DEF DrainInv, Labels, OnFiberLabels
  <2> QED
    BY <2>1, <2>2, CrossingStep
    DEF Working, Labels, GoneLabels, InsideLabels, OnFiberLabels, IdleLabels
<1> QED BY <1>1, <1>2, <1>3, <1>4, <1>5, <1>6, <1>7, <1>8, <1>9 DEF IdleStep

\* A step of the owner between the labels of its own code, outside Run.
LEMMA OwnerStep ==
    ASSUME TypeOK, DrainInv,
           NEW l \in {"main", "mainNotify", "take", "join", "stopped"},
           pc' = [pc EXCEPT ![Main] = l],
           pc[Main] \in {"main", "mainNotify", "join"},
           UNCHANGED <<exec, active, idle, reg, fdLock, pending, crash>>
    PROVE  CountsExact' /\ OnStackInv' /\ LockInv'
<1> USE RunnersAreProcs
<1>1. /\ l \in Labels /\ l # "evNotify" /\ pc[Main] # "evNotify"
      /\ l \notin InsideLabels \cup IdleLabels \cup OnFiberLabels
      /\ pc[Main] \notin InsideLabels \cup IdleLabels \cup OnFiberLabels
  BY DEF Labels, InsideLabels, IdleLabels, OnFiberLabels
<1>2. Cardinality(Inside') = active /\ Cardinality(Idling') = idle
  BY <1>1, MoveInside, MoveIdling DEF DrainInv
<1>3. pending' = Cardinality(Awaited') + Cardinality(Triggering')
  BY SamePending DEF DrainInv
<1>4. OnStackInv' /\ LockInv'
  BY <1>1, SameStacks, SameLocks DEF DrainInv
<1> QED BY <1>2, <1>3, <1>4 DEF CountsExact

\* Before Stop nobody has left, and a step of the owner that does not take it
\* out of the scheduler leaves it so.
LEMMA NobodyLeft ==
    ASSUME TypeOK, DrainInv, NEW l \in {"main", "mainNotify", "take", "join"},
           pc' = [pc EXCEPT ![Main] = l], UNCHANGED pending,
           pc[Main] \in {"main", "mainNotify"},
           l = "join" => Main \notin Runners,
           l = "take" \/ l = "join" \/ enableStop' = enableStop
    PROVE  LeaveInv'
<1> USE RunnersAreProcs
<1>1. \A q \in Procs : pc'[q] = IF q = Main THEN l ELSE pc[q]
  BY DEF TypeOK
<1>2. ~enableStop /\ \A q \in Runners : pc[q] \notin GoneLabels
  BY DEF DrainInv, LeaveInv
<1>3. \A q \in Runners : pc'[q] \notin GoneLabels
  BY <1>1, <1>2 DEF GoneLabels
<1>4. ~AllGone'
  BY <1>3, ProcAssumption DEF AllGone
<1>5. AllLeaving' => AllLeaving
  BY <1>1 DEF AllLeaving, GoneLabels
<1>6. pc'[Main] = l
  BY <1>1
<1>7. pc'[Main] \in {"main", "mainNotify"} => ~enableStop'
  BY <1>2, <1>6
<1>8. AllLeaving' => pending' = 0
  BY <1>5 DEF DrainInv, LeaveInv
<1> QED BY <1>3, <1>4, <1>6, <1>7, <1>8 DEF LeaveInv

LEMMA MainStepDrain ==
    ASSUME TypeOK, DrainInv, MainStep
    PROVE  DrainInv'
<1> USE RunnersAreProcs
<1>1. ASSUME NEW j \in Jobs, MainPush(j)
      PROVE  DrainInv'
  <2>1. /\ pc' = [pc EXCEPT ![Main] = "mainNotify"] /\ pc[Main] = "main"
        /\ UNCHANGED <<exec, active, idle, enableStop, reg, fdLock, pending,
                       crash>>
    BY <1>1 DEF MainPush, At, Goto, fiberVars, ioVars
  <2> QED BY <2>1, OwnerStep, NobodyLeft DEF DrainInv
<1>2. CASE MainNotify
  <2>1. /\ pc' = [pc EXCEPT ![Main] = "main"] /\ pc[Main] = "mainNotify"
        /\ UNCHANGED <<exec, active, idle, enableStop, reg, fdLock, pending,
                       crash>>
    BY <1>2 DEF MainNotify, At, Goto, fiberVars
  <2> QED BY <2>1, OwnerStep, NobodyLeft DEF DrainInv
<1>3. CASE Stop
  <2>1. /\ pc' = [pc EXCEPT ![Main] = IF UseMain THEN "take" ELSE "join"]
        /\ pc[Main] = "main"
        /\ UNCHANGED <<exec, active, idle, reg, fdLock, pending, crash>>
    BY <1>3 DEF Stop, At, Goto, fiberVars, ioVars
  <2>2. ~UseMain => Main \notin Runners
    BY ProcAssumption DEF Runners
  <2>3. CASE UseMain
    BY <2>1, <2>3, OwnerStep, NobodyLeft DEF DrainInv
  <2>4. CASE ~UseMain
    BY <2>1, <2>2, <2>4, OwnerStep, NobodyLeft DEF DrainInv
  <2> QED BY <2>3, <2>4
<1>4. CASE Join
  <2>1. /\ pc' = [pc EXCEPT ![Main] = "stopped"] /\ pc[Main] = "join"
        /\ \A w \in Workers : pc[w] = "exited"
        /\ UNCHANGED <<tasks, exec, active, idle, enableStop, reg, fdLock,
                       pending, crash>>
    BY <1>4 DEF Join, At, Goto, fiberVars, ioVars
  <2>2. \A q \in Procs : pc'[q] = IF q = Main THEN "stopped" ELSE pc[q]
    BY <2>1 DEF TypeOK
  <2>3. \A q \in Runners : pc[q] \in GoneLabels /\ pc'[q] \in GoneLabels
    BY <2>1, <2>2 DEF Runners, GoneLabels
  <2>4. AllGone /\ AllGone' /\ AllLeaving
    BY <2>3 DEF AllGone, AllLeaving
  <2>5. enableStop' /\ tasks' = <<>> /\ pending' = 0
    BY <2>1, <2>3, <2>4, ProcAssumption DEF DrainInv, LeaveInv
  <2>6. LeaveInv'
    BY <2>2, <2>4, <2>5 DEF LeaveInv
  <2> QED BY <2>1, <2>6, OwnerStep DEF DrainInv
<1> QED BY <1>1, <1>2, <1>3, <1>4 DEF MainStep

LEMMA InitDrain == Init => DrainInv
<1> SUFFICES ASSUME Init PROVE DrainInv
  OBVIOUS
<1>1. \A p \in Procs : pc[p] = IF p = Main THEN "main" ELSE "take"
  BY DEF Init
<1>2. Inside = {} /\ Idling = {} /\ Awaited = {} /\ Triggering = {}
  BY <1>1
  DEF Init, Inside, InsideLabels, OnFiberLabels, Idling, IdleLabels, Awaited,
      Triggering
<1>3. CountsExact
  <2>1. active = 0 /\ idle = 0 /\ pending = 0
    BY DEF Init
  <2> QED BY <1>2, <2>1, FS_EmptySet DEF CountsExact
<1>4. OnStackInv
  BY <1>1 DEF Init, OnStackInv, OffCpu, OnFiberLabels
<1>5. LockInv
  BY <1>1, ProcAssumption DEF Init, LockInv
<1>6. LeaveInv
  <2>1. \A p \in Runners : pc[p] \in {"main", "take"}
    BY <1>1, RunnersAreProcs
  <2>2. ~AllGone /\ ~AllLeaving
    BY <2>1, ProcAssumption DEF AllGone, AllLeaving, GoneLabels
  <2> QED BY <1>1, <2>1, <2>2, RunnersAreProcs DEF Init, LeaveInv, GoneLabels
<1> QED BY <1>3, <1>4, <1>5, <1>6 DEF DrainInv

LEMMA NextDrain == TypeOK /\ DrainInv /\ [Next]_vars => DrainInv'
<1> SUFFICES ASSUME TypeOK, DrainInv, [Next]_vars
             PROVE  DrainInv'
  OBVIOUS
<1>1. ASSUME NEW p \in Runners, RunStep(p) \/ JobStep(p) \/ IdleStep(p)
      PROVE  DrainInv'
  BY <1>1, RunStepDrain, JobStepDrain, IdleStepDrain
<1>2. ASSUME NEW j \in Jobs, FdReady(j)
      PROVE  DrainInv'
  BY <1>2, SameDrain DEF FdReady, fiberVars
<1>3. CASE Over \/ UNCHANGED vars
  BY <1>3, SameDrain DEF Over, vars
<1> QED BY <1>1, <1>2, <1>3, MainStepDrain DEF Next

\* An owner that has returned from Stop finds the scheduler drained.
LEMMA DrainedAtStop == TypeOK /\ DrainInv => StopIsClean
<1> SUFFICES ASSUME TypeOK, DrainInv, pc[Main] = "stopped"
             PROVE  /\ tasks = <<>> /\ Awaited = {}
                    /\ \A p \in Procs : exec[p].fiber = None
  BY DEF StopIsClean
<1>1. AllGone /\ AllLeaving
  BY DEF DrainInv, LeaveInv, AllGone, AllLeaving
<1>2. tasks = <<>> /\ pending = 0
  BY <1>1 DEF DrainInv, LeaveInv
<1>3. Awaited = {}
  <2>1. Cardinality(Awaited) = 0
    BY <1>2, AwaitedFinite DEF DrainInv, CountsExact
  <2> QED BY <2>1, AwaitedFinite, FS_EmptySet
<1>4. ASSUME NEW p \in Procs
      PROVE  exec[p].fiber = None
  <2>1. p \in Runners \/ p = Main
    BY DEF Runners, Procs
  <2>2. pc[p] \notin OnFiberLabels
    BY <1>1, <2>1 DEF AllGone, GoneLabels, OnFiberLabels
  <2> QED BY <2>2 DEF DrainInv, OnStackInv
<1> QED BY <1>2, <1>3, <1>4

LEMMA DrainCorrect == Spec => []DrainInv
<1>1. Init => DrainInv
  BY InitDrain
<1>2. TypeOK /\ DrainInv /\ [Next]_vars => DrainInv'
  BY NextDrain
<1> QED BY <1>1, <1>2, TypeCorrect, PTL DEF Spec

\* m_activeThdCnt, m_idleThdCnt and m_pendingCnt always count exactly the
\* threads on a task, the threads in Idle and the events awaited or being
\* triggered, so CanStop and Notify decide by true numbers.
THEOREM CountersAlwaysExact == Spec => []CountersExact
<1>1. TypeOK /\ DrainInv => CountersExact
  BY DEF DrainInv, CountersExact
<1> QED BY <1>1, DrainCorrect, TypeCorrect, PTL

\* When Stop has joined its threads no task is queued, no event is awaited and
\* no thread is in a fiber, although CanStop takes no common lock.
THEOREM StopClean == Spec => []StopIsClean
BY DrainedAtStop, DrainCorrect, TypeCorrect, PTL

-----------------------------------------------------------------------------
(***************************************************************************)
(* With one runner the scheduler implements JobPool.  (With two it does    *)
(* not: a fiber may be resumed while it is still on the stack of the       *)
(* thread that registered its event, and crash is set.)  The inductive     *)
(* invariant says what each fiber and each callback is at, in terms of the *)
(* runner's pc and locals and of the tasks not yet begun.                  *)
(***************************************************************************)
TheRunner == CHOOSE r \in Runners : TRUE
OneRunner == Runners = {TheRunner}

Where == pc[TheRunner]
Stack == exec[TheRunner]
Mine  == cur[TheRunner]
Spare == cbFiber[TheRunner]

\* Where Run is back from a fiber, and where it has a task.
BackLabels == {"after", "check", "setHold"}
BusyLabels == OnFiberLabels \cup BackLabels
TaskLabels == BusyLabels \cup {"dispatch"}

\* The task Run has taken and not yet dispatched; all the tasks to be done.
InHand == IF Where \in {"notify", "dispatch"} THEN Mine ELSE NoTask
Work   == ({tasks[i] : i \in DOMAIN tasks} \cup {InHand}) \ {NoTask}

\* The fiber Run switches to for its task.
MyFiber == IF Mine.kind = "cb" THEN Spare ELSE Mine.id

Clean(f) == fstate[f] = "INIT" /\ ctx[f] = [at |-> "entry", job |-> None]
Ended(f) == fstate[f] = "TERM" /\ ctx[f].at = "exit"
Held(f)  == ctx[f].at = "yield" /\ Stack.fiber # f
Resumable(f) == Held(f) /\ reg[ctx[f].job] = None
Startable(j) ==
    /\ j \in submitted \ done /\ Stack.job # j /\ reg[j] = None
    /\ \A f \in Jobs : Held(f) => ctx[f].job # j

OwnerInv ==
    \A q \in Procs \ {TheRunner} :
        /\ pc[q] \in {"main", "mainNotify", "join", "stopped"}
        /\ exec[q] = OffCpu /\ cur[q] = NoTask

\* The fiber on the stack is the one for the task, and runs an open callback.
StackInv ==
    /\ Stack.fiber # None <=> Where \in OnFiberLabels
    /\ Stack.job # None <=> Where \in OnFiberLabels
    /\ Where \in OnFiberLabels =>
           /\ Stack.fiber = MyFiber
           /\ fstate[MyFiber] = IF Where = "term" THEN "TERM" ELSE "RUNNING"
           /\ Stack.job \in submitted
           /\ Stack.job \in done <=> Where = "term"
           /\ reg[Stack.job] = IF Where = "yield" THEN MyFiber ELSE None

\* A fiber Run is back from has ended or is held, and cb_fiber can be used
\* for the next callback unless Run is busy with it.
BackInv ==
    /\ Where \in BackLabels => /\ MyFiber \in Jobs
                               /\ Held(MyFiber) \/ Ended(MyFiber)
    /\ Where = "setHold" => Mine.kind = "fiber" /\ Held(MyFiber)
    /\ Where \in TaskLabels => Mine # NoTask
    /\ Where \notin TaskLabels \cup {"notify"} => Mine = NoTask
    /\ Spare # None => \/ Clean(Spare)
                       \/ Mine.kind = "cb" /\ Where \in BusyLabels

\* A held fiber keeps one callback that is neither done nor running.
HoldInv ==
    \A f \in Jobs : Held(f) =>
        /\ fstate[f] = "HOLD"
        /\ ctx[f].job \in submitted \ done
        /\ Stack.job # ctx[f].job
        /\ \A g \in Jobs : Held(g) /\ ctx[g].job = ctx[f].job => g = f

\* An event is awaited by the fiber of the callback that registered it.
AwaitInv ==
    \A j \in Jobs : reg[j] # None =>
        \/ Where = "yield" /\ Stack = [fiber |-> reg[j], job |-> j]
        \/ Held(reg[j]) /\ ctx[reg[j]].job = j

\* No task is there twice, and each can be begun.
WorkInv ==
    /\ \A i, k \in DOMAIN tasks : tasks[i] = tasks[k] => i = k
    /\ \A i \in DOMAIN tasks : tasks[i] # InHand
    /\ \A t \in Work :
           /\ t.kind = "cb" => t = CbTask(t.id) /\ Startable(t.id)
           /\ t.kind = "fiber" => t = FiberTask(t.id) /\ Resumable(t.id)

\* Nobody has the fiber that is named after a callback not yet begun.
UnusedInv ==
    \A j \in Jobs :
        j \notin submitted \/ CbTask(j) \in Work =>
            Clean(j) /\ Stack.fiber # j /\ Spare # j

\* Task t starts callback j or resumes it.
Serves(t, j) == \/ t.kind = "cb" /\ t.id = j
                \/ t.kind = "fiber" /\ ctx[t.id].job = j
Queued(j) == \E t \in Work : Serves(t, j)

\* No callback is lost.
KnownInv ==
    /\ done \subseteq submitted
    /\ \A j \in submitted :
           j \in done \/ Stack.job = j \/ reg[j] # None \/ Queued(j)

OneInv == /\ crash = "no"
          /\ OwnerInv /\ StackInv /\ BackInv /\ HoldInv
          /\ AwaitInv /\ WorkInv /\ UnusedInv /\ KnownInv

\* What StatusOf comes to under the invariant.
Stage(j) == IF j \notin submitted THEN "new"
            ELSE IF j \in done THEN "done"
            ELSE IF Stack.job = j THEN "running"
            ELSE IF Queued(j) THEN "queued" ELSE "waiting"

LEMMA RunnerIsProc ==
    ASSUME OneRunner
    PROVE  /\ TheRunner \in Procs /\ TheRunner \in Runners
           /\ \A p \in Runners : p = TheRunner
BY RunnersAreProcs DEF OneRunner

\* The types of what the invariant speaks about.
LEMMA LocalTypes ==
    ASSUME TypeOK, OneRunner
    PROVE  /\ Where \in Labels /\ Stack \in OnStack
           /\ Mine \in Task \cup {NoTask} /\ InHand \in Task \cup {NoTask}
           /\ Spare \in Jobs \cup {None}
           /\ tasks \in Seq(Task)
           /\ DOMAIN tasks = 1..Len(tasks) /\ Len(tasks) \in Nat
           /\ \A i \in DOMAIN tasks : tasks[i] \in Task
           /\ Work \subseteq Task
<1> TheRunner \in Procs
  BY RunnerIsProc
<1>1. /\ Where \in Labels /\ Stack \in OnStack
      /\ Mine \in Task \cup {NoTask}
      /\ Spare \in Jobs \cup {None}
  BY DEF TypeOK, Where, Stack, Mine, Spare
<1>2. InHand \in Task \cup {NoTask}
  BY <1>1 DEF InHand
<1>3. tasks \in Seq(Task)
  BY DEF TypeOK
<1>4. /\ DOMAIN tasks = 1..Len(tasks) /\ Len(tasks) \in Nat
      /\ \A i \in DOMAIN tasks : tasks[i] \in Task
  BY <1>3
<1>5. Work \subseteq Task
  BY <1>2, <1>4 DEF Work
<1> QED BY <1>1, <1>2, <1>3, <1>4, <1>5

LEMMA FiberTypes ==
    ASSUME TypeOK
    PROVE  /\ fstate \in [Jobs -> {"INIT", "RUNNING", "TERM", "HOLD"}]
           /\ ctx \in [Jobs -> Context]
           /\ reg \in [Jobs -> Jobs \cup {None}]
           /\ exec \in [Procs -> OnStack]
           /\ pc \in [Procs -> Labels]
           /\ cur \in [Procs -> Task \cup {NoTask}]
           /\ cbFiber \in [Procs -> Jobs \cup {None}]
           /\ submitted \subseteq Jobs /\ done \subseteq Jobs
BY DEF TypeOK

\* Where a step leaves the runner, and what it leaves the others.
LEMMA RunnerMoves ==
    ASSUME TypeOK, OneRunner, NEW l, Goto(TheRunner, l)
    PROVE  /\ Where' = l
           /\ \A q \in Procs \ {TheRunner} : pc'[q] = pc[q]
BY RunnerIsProc, FiberTypes DEF Goto, Where

\* A scheduler that has not stopped is open; the runner takes no step after.
LEMMA StillOpen ==
    ASSUME LeaveInv, OneRunner, Where \notin GoneLabels
    PROVE  pc[Main] # "stopped"
BY RunnerIsProc DEF LeaveInv, AllGone, Where

LEMMA KindsOfTask ==
    /\ NoTask.kind = "none" /\ NoTask.id = None
    /\ \A j \in Jobs : /\ CbTask(j).kind = "cb" /\ CbTask(j).id = j
                       /\ FiberTask(j).kind = "fiber" /\ FiberTask(j).id = j
    /\ \A t \in Task : t.kind \in {"cb", "fiber"} /\ t.id \in Jobs
    /\ \A j \in Jobs, f \in Jobs : CbTask(j) # FiberTask(f)
BY DEF NoTask, CbTask, FiberTask, Task

LEMMA InitOne == OneRunner /\ Init => OneInv
<1> SUFFICES ASSUME OneRunner, Init PROVE OneInv
  OBVIOUS
<1> TheRunner \in Procs
  BY RunnerIsProc
<1>t. TypeOK
  BY InitTypeOK
<1>1. /\ Where \in {"main", "take"} /\ Stack = OffCpu /\ Mine = NoTask
      /\ Spare = None
  BY DEF Init, Where, Stack, Mine, Spare
<1>2. InHand = NoTask /\ Work = {}
  BY <1>1 DEF InHand, Work, Init
<1>3. OwnerInv
  <2>1. \A q \in Procs \ {TheRunner} : q = Main
    BY DEF OneRunner, Runners, Procs
  <2> QED BY <2>1 DEF OwnerInv, Init
<1>4. StackInv /\ BackInv
  BY <1>1 DEF StackInv, BackInv, OffCpu, OnFiberLabels, BackLabels,
              BusyLabels, TaskLabels
<1>5. HoldInv /\ AwaitInv /\ KnownInv
  BY DEF Init, HoldInv, Held, AwaitInv, KnownInv
<1>6. WorkInv
  BY <1>2, KindsOfTask DEF WorkInv, Init
<1>7. UnusedInv
  BY <1>1, JobAssumption DEF UnusedInv, Init, Clean, OffCpu
<1>8. crash = "no"
  BY DEF Init
<1> QED BY <1>3, <1>4, <1>5, <1>6, <1>7, <1>8 DEF OneInv

\* A callback is in the pool what Stage says.
LEMMA StageIsStatus ==
    ASSUME TypeOK, OneRunner, OneInv, NEW j \in Jobs
    PROVE  StatusOf(j) = Stage(j)
<1> TheRunner \in Procs
  BY RunnerIsProc
<1>1. RunBy(j) # {} <=> Stack.job = j /\ Where # "term"
  <2>1. \A q \in Procs \ {TheRunner} : exec[q].job # j
    BY JobAssumption DEF OneInv, OwnerInv, OffCpu
  <2>2. \A q \in RunBy(j) : q = TheRunner
    BY <2>1 DEF RunBy
  <2>3. TheRunner \in RunBy(j) <=> Stack.job = j /\ Where # "term"
    BY DEF RunBy, Stack, Where
  <2> QED BY <2>2, <2>3
<1>2. Stack.job = j => (j \in done <=> Where = "term") /\ j \in submitted
  BY JobAssumption DEF OneInv, StackInv
<1>3. QueuedAt(j) \cup TakenBy(j) \cup ResumedBy(j) \cup ResumingIn(j) # {}
          <=> Queued(j)
  <2>1. QueuedAt(j) \cup ResumedBy(j) # {}
            <=> \E i \in DOMAIN tasks : Serves(tasks[i], j)
    BY DEF QueuedAt, ResumedBy, Serves
  <2>2. \A q \in Procs \ {TheRunner} : cur[q].kind = "none"
    BY KindsOfTask DEF OneInv, OwnerInv
  <2>3. \A q \in TakenBy(j) \cup ResumingIn(j) : q = TheRunner
    BY <2>2 DEF TakenBy, ResumingIn
  <2>4. TheRunner \in TakenBy(j) \cup ResumingIn(j) <=> Serves(InHand, j)
    BY KindsOfTask DEF TakenBy, ResumingIn, Serves, InHand, Where, Mine
  <2>5. TakenBy(j) \cup ResumingIn(j) # {} <=> Serves(InHand, j)
    BY <2>3, <2>4
  <2>6. Queued(j) <=> \/ Serves(InHand, j)
                      \/ \E i \in DOMAIN tasks : Serves(tasks[i], j)
    BY KindsOfTask DEF Queued, Work, Serves
  <2> QED BY <2>1, <2>5, <2>6
<1>4. j \in submitted => \/ j \in done \/ Stack.job = j \/ reg[j] # None
                         \/ Queued(j)
  BY DEF OneInv, KnownInv
<1> QED BY <1>1, <1>2, <1>3, <1>4 DEF StatusOf, Stage

Stays == \A k \in Jobs : Stage(k)' = Stage(k)
Moves(j, from, to) ==
    /\ Stage(j) = from /\ Stage(j)' = to
    /\ \A k \in Jobs \ {j} : Stage(k)' = Stage(k)

\* A step that changes no fiber, no callback and not the work to be done.
LEMMA CalmStep ==
    ASSUME OneInv, Work' = Work,
           UNCHANGED <<exec, cbFiber, fstate, ctx, reg, submitted, done>>,
           Where # "yield" \/ Where' = Where
    PROVE  HoldInv' /\ AwaitInv' /\ UnusedInv' /\ KnownInv' /\ Stays
<1>1. Stack' = Stack /\ Spare' = Spare
  BY DEF Stack, Spare
<1>2. \A f \in Jobs : (Held(f)' <=> Held(f)) /\ (Clean(f)' <=> Clean(f))
  BY <1>1 DEF Held, Clean
<1>3. \A j : Queued(j)' <=> Queued(j)
  BY DEF Queued, Serves
<1>4. HoldInv'
  BY <1>1, <1>2 DEF OneInv, HoldInv
<1>5. AwaitInv'
  BY <1>1 DEF OneInv, AwaitInv, Held
<1>6. UnusedInv'
  BY <1>1, <1>2 DEF OneInv, UnusedInv
<1>7. KnownInv'
  BY <1>1, <1>3 DEF OneInv, KnownInv
<1>8. Stays
  BY <1>1, <1>3 DEF Stays, Stage
<1> QED BY <1>4, <1>5, <1>6, <1>7, <1>8

LEMMA SameTasks ==
    ASSUME OneInv, InHand' \in {InHand, NoTask}, tasks' = tasks, TypeOK,
           OneRunner
    PROVE  /\ \A i, k \in DOMAIN tasks' : tasks'[i] = tasks'[k] => i = k
           /\ \A i \in DOMAIN tasks' : tasks'[i] # InHand'
BY LocalTypes, TaskTypes DEF OneInv, WorkInv

LEMMA SameWork ==
    ASSUME OneInv, Work' = Work,
           UNCHANGED <<exec, cbFiber, fstate, ctx, reg, submitted, done>>
    PROVE  \A t \in Work' :
               /\ t.kind = "cb" => t = CbTask(t.id) /\ Startable(t.id)'
               /\ t.kind = "fiber" => t = FiberTask(t.id)
                                      /\ Resumable(t.id)'
<1>1. Stack' = Stack
  BY DEF Stack
<1>2. \A j : /\ Startable(j)' <=> Startable(j)
             /\ Resumable(j)' <=> Resumable(j)
  BY <1>1 DEF Startable, Resumable, Held
<1> QED BY <1>2 DEF OneInv, WorkInv

\* The owner's steps, when it is not the runner, and steps of nobody.
LEMMA OthersStep ==
    ASSUME TypeOK, OneRunner, OneInv, crash' = "no",
           UNCHANGED <<tasks, cur, exec, cbFiber, fstate, ctx, reg,
                       submitted, done>>,
           Where' = Where,
           \A q \in Procs \ {TheRunner} :
               pc'[q] \in {"main", "mainNotify", "join", "stopped"}
    PROVE  OneInv' /\ Stays
<1>1. Stack' = Stack /\ Spare' = Spare /\ Mine' = Mine
  BY DEF Stack, Spare, Mine
<1>2. InHand' = InHand /\ Work' = Work /\ MyFiber' = MyFiber
  BY <1>1 DEF InHand, Work, MyFiber
<1>3. HoldInv' /\ AwaitInv' /\ UnusedInv' /\ KnownInv' /\ Stays
  BY <1>2, CalmStep
<1>4. WorkInv'
  BY <1>2, SameTasks, SameWork DEF WorkInv
<1>5. OwnerInv'
  BY DEF OneInv, OwnerInv
<1>6. StackInv'
  BY <1>1, <1>2 DEF OneInv, StackInv
<1>7. BackInv'
  BY <1>1, <1>2 DEF OneInv, BackInv, Held, Ended, Clean
<1> QED BY <1>3, <1>4, <1>5, <1>6, <1>7 DEF OneInv

\* The runner's steps in Idle, and the owner's when it is the runner.
IdleOrMain == Labels \ (TaskLabels \cup {"notify"})
LEMMA IdleMove ==
    ASSUME TypeOK, OneRunner, OneInv, crash' = "no",
           UNCHANGED <<tasks, cur, exec, cbFiber, fstate, ctx, reg,
                       submitted, done>>,
           NEW l \in IdleOrMain,
           Where \in IdleOrMain, Goto(TheRunner, l)
    PROVE  OneInv' /\ Stays
<1>1. Stack' = Stack /\ Spare' = Spare /\ Mine' = Mine
  BY DEF Stack, Spare, Mine
<1>l. Where' = l /\ \A q \in Procs \ {TheRunner} : pc'[q] = pc[q]
  BY RunnerMoves
<1>m. /\ {Where, Where'} \cap (TaskLabels \cup {"notify"}) = {}
      /\ {Where, Where'} \cap OnFiberLabels = {}
      /\ {Where, Where'} \cap BackLabels = {}
      /\ {Where, Where'} \cap BusyLabels = {}
  BY <1>l DEF IdleOrMain, TaskLabels, BusyLabels
<1>2. InHand = NoTask /\ InHand' = NoTask
  BY <1>m DEF InHand, TaskLabels
<1>3. Work' = Work /\ MyFiber' = MyFiber
  BY <1>1, <1>2 DEF Work, MyFiber
<1>4. HoldInv' /\ AwaitInv' /\ UnusedInv' /\ KnownInv' /\ Stays
  <2>1. Where # "yield"
    BY <1>m DEF OnFiberLabels
  <2> QED BY <1>3, <2>1, CalmStep
<1>5. WorkInv'
  BY <1>2, <1>3, SameTasks, SameWork DEF WorkInv
<1>6. OwnerInv'
  BY <1>l DEF OneInv, OwnerInv
<1>7. StackInv'
  BY <1>1, <1>m DEF OneInv, StackInv
<1>8. BackInv'
  <2>1. Where' # "setHold"
    BY <1>m DEF BackLabels
  <2>2. Mine' = NoTask /\ (Spare # None => Clean(Spare))
    BY <1>1, <1>m DEF OneInv, BackInv
  <2> QED BY <1>1, <1>m, <2>1, <2>2 DEF BackInv, Clean
<1> QED BY <1>4, <1>5, <1>6, <1>7, <1>8 DEF OneInv

\* Taking task i out of the list takes it out of the set of listed tasks.
LEMMA TakenOut ==
    ASSUME TypeOK, OneRunner, OneInv, NEW i \in DOMAIN tasks,
           tasks' = RemoveAt(tasks, i)
    PROVE  /\ {tasks'[k] : k \in DOMAIN tasks'}
                  = {tasks[k] : k \in DOMAIN tasks} \ {tasks[i]}
           /\ \A k, m \in DOMAIN tasks' : tasks'[k] = tasks'[m] => k = m
           /\ \A k \in DOMAIN tasks' : tasks'[k] # tasks[i]
<1>1. /\ tasks \in Seq(Task) /\ Len(tasks) \in Nat
      /\ DOMAIN tasks = 1..Len(tasks) /\ i \in 1..Len(tasks)
  BY LocalTypes
<1>2. tasks' \in Seq(Task) /\ Len(tasks') = Len(tasks) - 1
  BY <1>1, RemoveAtIs, RemoveAtType
<1>3. DOMAIN tasks' = 1..(Len(tasks) - 1)
  BY <1>2
<1> DEFINE Before(k) == IF k < i THEN k ELSE k + 1
           After(k) == IF k < i THEN k ELSE k - 1
<1>4. \A k \in DOMAIN tasks' :
          /\ Before(k) \in DOMAIN tasks /\ Before(k) # i
          /\ \A m \in DOMAIN tasks' : Before(k) = Before(m) => k = m
  BY <1>1, <1>3
<1>5. \A k \in DOMAIN tasks' : tasks'[k] = tasks[Before(k)]
  BY <1>1, <1>3, RemoveAtIs
<1>6. \A k \in DOMAIN tasks \ {i} :
          After(k) \in DOMAIN tasks' /\ Before(After(k)) = k
  BY <1>1, <1>3
<1> HIDE DEF Before, After
<1>7. \A k, m \in DOMAIN tasks : tasks[k] = tasks[m] => k = m
  BY DEF OneInv, WorkInv
<1>8. \A k \in DOMAIN tasks \ {i} : tasks'[After(k)] = tasks[k]
  BY <1>5, <1>6
<1>9. {tasks'[k] : k \in DOMAIN tasks'}
          = {tasks[k] : k \in DOMAIN tasks} \ {tasks[i]}
  BY <1>4, <1>5, <1>6, <1>7, <1>8
<1>10. \A k, m \in DOMAIN tasks' : tasks'[k] = tasks'[m] => k = m
  BY <1>4, <1>5, <1>7
<1>11. \A k \in DOMAIN tasks' : tasks'[k] # tasks[i]
  BY <1>4, <1>5, <1>7
<1> QED BY <1>9, <1>10, <1>11

\* The runner's other steps between two tasks.
LEMMA CalmMove ==
    ASSUME TypeOK, OneRunner, OneInv, crash' = "no", Work' = Work,
           UNCHANGED <<exec, cbFiber, fstate, ctx, reg, submitted, done>>,
           NEW l, Where \notin BusyLabels, l \notin BusyLabels,
           Goto(TheRunner, l),
           \A q \in Procs \ {TheRunner} : cur'[q] = cur[q],
           l \in TaskLabels => Mine' # NoTask,
           l \notin TaskLabels \cup {"notify"} => Mine' = NoTask,
           \A i, k \in DOMAIN tasks' : tasks'[i] = tasks'[k] => i = k,
           \A i \in DOMAIN tasks' : tasks'[i] # InHand'
    PROVE  OneInv' /\ Stays
<1>1. Stack' = Stack /\ Spare' = Spare
  BY DEF Stack, Spare
<1>2. Where' = l /\ \A q \in Procs \ {TheRunner} : pc'[q] = pc[q]
  BY RunnerMoves
<1>3. /\ {Where, Where'} \cap OnFiberLabels = {}
      /\ {Where, Where'} \cap BackLabels = {}
  BY <1>2 DEF BusyLabels
<1>4. HoldInv' /\ AwaitInv' /\ UnusedInv' /\ KnownInv' /\ Stays
  <2>1. Where # "yield"
    BY <1>3 DEF OnFiberLabels
  <2> QED BY <2>1, CalmStep
<1>5. WorkInv'
  BY SameWork DEF WorkInv
<1>6. OwnerInv'
  BY <1>2 DEF OneInv, OwnerInv
<1>7. StackInv'
  BY <1>1, <1>3 DEF OneInv, StackInv
<1>8. BackInv'
  <2>1. Where' # "setHold"
    BY <1>3 DEF BackLabels
  <2>2. Spare # None => Clean(Spare)
    BY DEF OneInv, BackInv
  <2> QED BY <1>1, <1>2, <1>3, <2>1, <2>2 DEF BackInv, Clean
<1> QED BY <1>4, <1>5, <1>6, <1>7, <1>8 DEF OneInv

LEMMA LocalChange ==
    ASSUME TypeOK, OneRunner, NEW t, cur' = [cur EXCEPT ![TheRunner] = t]
    PROVE  Mine' = t /\ \A q \in Procs \ {TheRunner} : cur'[q] = cur[q]
BY RunnerIsProc, FiberTypes DEF Mine

LEMMA TakeOne ==
    ASSUME TypeOK, OneRunner, OneInv, Take(TheRunner)
    PROVE  OneInv' /\ Stays
<1>1. /\ Where = "take" /\ crash' = "no"
      /\ UNCHANGED <<exec, cbFiber, fstate, ctx, reg, submitted, done>>
  BY DEF Take, At, Where, fiberVars, ioVars, jobVars, OneInv
<1>l. /\ {"take", "goIdle", "notify", "dispatch"} \cap BusyLabels = {}
      /\ {"take", "goIdle", "notify"} \cap TaskLabels = {}
  BY DEF TaskLabels, BusyLabels, OnFiberLabels, BackLabels
<1>2. Mine = NoTask /\ InHand = NoTask
  BY <1>1, <1>l DEF OneInv, BackInv, InHand
<1>3. CASE UNCHANGED <<tasks, cur>>
           /\ Goto(TheRunner, IF tasks = <<>> THEN "goIdle" ELSE "notify")
  <2> DEFINE l == IF tasks = <<>> THEN "goIdle" ELSE "notify"
  <2>1. Mine' = NoTask /\ InHand' = NoTask
    BY <1>2, <1>3 DEF Mine, InHand
  <2>2. Work' = Work
    BY <1>2, <1>3, <2>1 DEF Work
  <2>3. l \in {"goIdle", "notify"} /\ Goto(TheRunner, l)
    BY <1>3
  <2> HIDE DEF l
  <2> QED BY <1>1, <1>2, <1>3, <1>l, <2>1, <2>2, <2>3, SameTasks, CalmMove
<1>4. ASSUME NEW i \in Takeable(TheRunner),
             cur' = [cur EXCEPT ![TheRunner] = tasks[i]],
             tasks' = RemoveAt(tasks, i),
             Goto(TheRunner, IF Len(tasks) = 1 THEN "dispatch" ELSE "notify")
      PROVE  OneInv' /\ Stays
  <2> DEFINE l == IF Len(tasks) = 1 THEN "dispatch" ELSE "notify"
  <2>1. i \in DOMAIN tasks /\ tasks[i] \in Task
    BY LocalTypes DEF Takeable
  <2>2. Mine' = tasks[i] /\ \A q \in Procs \ {TheRunner} : cur'[q] = cur[q]
    BY <1>4, LocalChange
  <2>3. l \in {"dispatch", "notify"} /\ Goto(TheRunner, l)
    BY <1>4
  <2> HIDE DEF l
  <2>4. InHand' = tasks[i]
    BY <2>2, <2>3, RunnerMoves DEF InHand
  <2>5. Work' = Work
    <3>1. {tasks'[k] : k \in DOMAIN tasks'}
              = {tasks[k] : k \in DOMAIN tasks} \ {tasks[i]}
      BY <1>4, <2>1, TakenOut
    <3>2. tasks[i] \in {tasks[k] : k \in DOMAIN tasks}
      BY <2>1
    <3>3. /\ Work = {tasks[k] : k \in DOMAIN tasks} \ {NoTask}
          /\ Work' = ({tasks'[k] : k \in DOMAIN tasks'} \cup {tasks[i]})
                         \ {NoTask}
      BY <1>2, <2>4 DEF Work
    <3> QED BY <3>1, <3>2, <3>3
  <2>6. /\ \A k, m \in DOMAIN tasks' : tasks'[k] = tasks'[m] => k = m
        /\ \A k \in DOMAIN tasks' : tasks'[k] # InHand'
    BY <1>4, <2>1, <2>4, TakenOut
  <2>7. Mine' # NoTask
    BY <2>1, <2>2, TaskTypes
  <2>8. Where \notin BusyLabels /\ l \notin BusyLabels
        /\ (l \notin TaskLabels \cup {"notify"} => Mine' = NoTask)
    BY <1>1, <1>l, <2>3 DEF TaskLabels
  <2> QED BY <1>1, <2>2, <2>3, <2>5, <2>6, <2>7, <2>8, CalmMove
<1>5. \/ UNCHANGED <<tasks, cur>>
         /\ Goto(TheRunner, IF tasks = <<>> THEN "goIdle" ELSE "notify")
      \/ \E i \in Takeable(TheRunner) :
             /\ cur' = [cur EXCEPT ![TheRunner] = tasks[i]]
             /\ tasks' = RemoveAt(tasks, i)
             /\ Goto(TheRunner,
                     IF Len(tasks) = 1 THEN "dispatch" ELSE "notify")
  BY DEF Take
<1> QED BY <1>3, <1>4, <1>5

LEMMA RunNotifyOne ==
    ASSUME TypeOK, OneRunner, OneInv, RunNotify(TheRunner)
    PROVE  OneInv' /\ Stays
<1>1. /\ Where = "notify" /\ crash' = "no"
      /\ UNCHANGED <<tasks, cur, exec, cbFiber, fstate, ctx, reg, submitted,
                     done>>
  BY DEF RunNotify, At, Where, fiberVars, jobVars, OneInv
<1> DEFINE l == IF Mine = NoTask THEN "goIdle" ELSE "dispatch"
<1>2. Goto(TheRunner, l)
  BY DEF RunNotify, Mine
<1>3. Mine' = Mine /\ InHand = Mine
  BY <1>1 DEF Mine, InHand
<1>4. InHand' = InHand
  BY <1>2, <1>3, RunnerMoves DEF InHand
<1>5. Work' = Work
  BY <1>1, <1>4 DEF Work
<1>l. /\ {"notify", "goIdle", "dispatch"} \cap BusyLabels = {}
      /\ {"notify", "goIdle"} \cap TaskLabels = {}
      /\ "dispatch" \in TaskLabels
  BY DEF TaskLabels, BusyLabels, OnFiberLabels, BackLabels
<1>6. /\ Where \notin BusyLabels /\ l \notin BusyLabels
      /\ l \in TaskLabels => Mine' # NoTask
      /\ l \notin TaskLabels \cup {"notify"} => Mine' = NoTask
  BY <1>1, <1>3, <1>l
<1> HIDE DEF l
<1> QED BY <1>1, <1>2, <1>4, <1>5, <1>6, SameTasks, CalmMove

\* A fiber that is not held is awaited by no event and resumed by no task.
LEMMA NotHeld ==
    ASSUME TypeOK, OneRunner, OneInv, NEW f \in Jobs, ~Held(f)
    PROVE  /\ \A t \in Work : t.kind = "fiber" => t.id # f
           /\ Where # "yield" => \A j \in Jobs : reg[j] # f
<1>1. \A t \in Work : t.kind = "fiber" => t.id # f
  BY DEF OneInv, WorkInv, Resumable
<1>2. Where # "yield" => \A j \in Jobs : reg[j] # f
  BY JobAssumption DEF OneInv, AwaitInv
<1> QED BY <1>1, <1>2

LEMMA StackIs ==
    ASSUME TypeOK, OneRunner, NEW v, exec' = [exec EXCEPT ![TheRunner] = v]
    PROVE  Stack' = v /\ \A q \in Procs \ {TheRunner} : exec'[q] = exec[q]
BY RunnerIsProc, FiberTypes DEF Stack

\* No fiber can be switched to on two stacks.
LEMMA NobodyOnCpu ==
    ASSUME OneRunner, OneInv, Where \notin OnFiberLabels, NEW f \in Jobs
    PROVE  ~OnCpu(f) /\ Stack.fiber = None /\ Stack.job = None
<1>1. Stack.fiber = None /\ Stack.job = None
  BY DEF OneInv, StackInv
<1>2. \A q \in Procs : exec[q].fiber # f
  BY <1>1, JobAssumption DEF OneInv, OwnerInv, OffCpu, Stack
<1> QED BY <1>1, <1>2 DEF OnCpu

\* Where Run dispatches a task, and what is left to be done then.
LEMMA Dispatched ==
    ASSUME TypeOK, OneRunner, OneInv, Where = "dispatch",
           UNCHANGED <<tasks, cur>>, Goto(TheRunner, "job")
    PROVE  /\ Mine \in Work /\ Mine \in Task /\ Mine' = Mine
           /\ Work' = Work \ {Mine} /\ InHand' = NoTask
<1>l. "dispatch" \in TaskLabels
  BY DEF TaskLabels
<1>1. InHand = Mine /\ Mine # NoTask /\ Mine \in Task
  BY <1>l, LocalTypes DEF InHand, OneInv, BackInv
<1>2. Mine' = Mine /\ InHand' = NoTask
  BY RunnerMoves DEF InHand, Mine
<1>3. \A i \in DOMAIN tasks : tasks[i] # Mine
  BY <1>1 DEF OneInv, WorkInv
<1>4. Mine \in Work /\ Work' = Work \ {Mine}
  BY <1>1, <1>2, <1>3 DEF Work
<1> QED BY <1>1, <1>2, <1>4

LEMMA DispatchCbOne ==
    ASSUME TypeOK, OneRunner, OneInv, DispatchCb(TheRunner)
    PROVE  OneInv' /\ \E k \in Jobs : Moves(k, "queued", "running")
<1> DEFINE j == Mine.id
           f == IF Spare = None THEN j ELSE Spare
<1>l. /\ "dispatch" \notin BusyLabels /\ "dispatch" \notin OnFiberLabels
      /\ "job" \in OnFiberLabels \cap TaskLabels \cap BusyLabels
      /\ "job" \notin BackLabels
  BY DEF TaskLabels, BusyLabels, OnFiberLabels, BackLabels
<1>1. /\ Where = "dispatch" /\ Mine.kind = "cb" /\ Goto(TheRunner, "job")
      /\ cbFiber' = [cbFiber EXCEPT ![TheRunner] = f]
      /\ ctx' = [ctx EXCEPT ![f] = [at |-> "entry", job |-> j]]
      /\ fstate' = [fstate EXCEPT ![f] = "RUNNING"]
      /\ SwapIn(TheRunner, f, [at |-> "entry", job |-> j])
      /\ UNCHANGED <<tasks, cur, reg, submitted, done>>
  BY DEF DispatchCb, At, Where, Mine, Spare, ioVars, jobVars
<1>2. /\ Mine \in Work /\ Mine \in Task /\ Mine' = Mine
      /\ Work' = Work \ {Mine} /\ InHand' = NoTask
  BY <1>1, Dispatched
<1>3. j \in Jobs /\ Mine = CbTask(j) /\ Startable(j)
  BY <1>1, <1>2, KindsOfTask DEF OneInv, WorkInv
<1>4. f \in Jobs /\ Clean(f)
  <2>1. Clean(j)
    BY <1>2, <1>3 DEF OneInv, UnusedInv
  <2>2. Spare # None => Clean(Spare) /\ Spare \in Jobs
    BY <1>1, <1>l, LocalTypes DEF OneInv, BackInv
  <2> QED BY <1>3, <2>1, <2>2
<1> HIDE DEF f, j
<1>5. Stack.fiber = None /\ Stack.job = None /\ ~OnCpu(f)
  BY <1>1, <1>4, <1>l, NobodyOnCpu
<1>6. /\ exec' = [exec EXCEPT ![TheRunner] = [fiber |-> f, job |-> j]]
      /\ crash' = "no"
  BY <1>1, <1>5 DEF SwapIn, OneInv
<1>7. /\ Stack' = [fiber |-> f, job |-> j]
      /\ \A q \in Procs \ {TheRunner} : exec'[q] = exec[q]
  BY <1>6, StackIs
<1>8. /\ Where' = "job" /\ \A q \in Procs \ {TheRunner} : pc'[q] = pc[q]
  BY <1>1, RunnerMoves
<1>9. Spare' = f
  BY <1>1, RunnerIsProc, FiberTypes DEF Spare
<1>10. MyFiber' = f
  BY <1>1, <1>2, <1>9 DEF MyFiber
<1>11. /\ \A g \in Jobs \ {f} : ctx'[g] = ctx[g] /\ fstate'[g] = fstate[g]
       /\ ctx'[f] = [at |-> "entry", job |-> j] /\ fstate'[f] = "RUNNING"
  BY <1>1, <1>4, FiberTypes
<1>12. ~Held(f)
  BY <1>4 DEF Clean, Held
<1>13. \A g \in Jobs : Held(g)' => Held(g) /\ g # f
  BY <1>5, <1>7, <1>11, JobAssumption DEF Held
<1>14. \A g \in Jobs : Held(g) => Held(g)' /\ g # f
  BY <1>7, <1>11, <1>12 DEF Held
<1>15. /\ \A t \in Work : t.kind = "fiber" => t.id # f /\ t.id \in Jobs
       /\ \A k \in Jobs : reg[k] # f
  BY <1>1, <1>4, <1>12, NotHeld, KindsOfTask, LocalTypes
<1>16. \A t \in Work, k \in Jobs : Serves(t, k)' <=> Serves(t, k)
  BY <1>11, <1>15 DEF Serves
<1>17. \A k \in Jobs : Queued(k) <=> Queued(k)' \/ k = j
  BY <1>1, <1>2, <1>3, <1>16, KindsOfTask DEF Queued, Serves
<1>18. OwnerInv'
  BY <1>1, <1>7, <1>8 DEF OneInv, OwnerInv
<1>19. StackInv'
  BY <1>1, <1>3, <1>4, <1>l, <1>7, <1>8, <1>10, <1>11, JobAssumption
  DEF StackInv, Startable
<1>20. BackInv'
  BY <1>1, <1>2, <1>l, <1>8, <1>9, TaskTypes DEF BackInv
<1>21. HoldInv'
  BY <1>3, <1>7, <1>11, <1>13, <1>1 DEF OneInv, HoldInv, Startable
<1>22. AwaitInv'
  BY <1>1, <1>11, <1>14, <1>15, FiberTypes DEF OneInv, AwaitInv
<1>23. WorkInv'
  <2>1. ASSUME NEW t \in Work', t.kind = "cb"
        PROVE  t = CbTask(t.id) /\ Startable(t.id)'
    <3>1. t = CbTask(t.id) /\ Startable(t.id) /\ t.id # j
      BY <1>2, <1>3, <2>1 DEF OneInv, WorkInv
    <3> QED BY <1>1, <1>7, <1>11, <1>13, <3>1 DEF Startable
  <2>2. ASSUME NEW t \in Work', t.kind = "fiber"
        PROVE  t = FiberTask(t.id) /\ Resumable(t.id)'
    <3>1. t = FiberTask(t.id) /\ Resumable(t.id) /\ t.id \in Jobs \ {f}
      BY <1>2, <1>15, <2>2 DEF OneInv, WorkInv
    <3> QED BY <1>1, <1>11, <1>14, <3>1 DEF Resumable
  <2> QED BY <1>1, <1>2, <2>1, <2>2, SameTasks DEF WorkInv
<1>24. UnusedInv'
  <2> SUFFICES ASSUME NEW k \in Jobs,
                      k \notin submitted \/ CbTask(k) \in Work'
               PROVE  Clean(k)' /\ k # f
    BY <1>1, <1>7, <1>9 DEF UnusedInv
  <2>1. k # j
    BY <1>2, <1>3 DEF Startable
  <2>2. Clean(k) /\ Spare # k
    BY <1>2 DEF OneInv, UnusedInv
  <2>3. k # f
    BY <2>1, <2>2 DEF f
  <2> QED BY <1>11, <2>2, <2>3 DEF Clean
<1>25. KnownInv'
  BY <1>1, <1>5, <1>7, <1>17, JobAssumption, FiberTypes DEF OneInv, KnownInv
<1>26. \E k \in Jobs : Moves(k, "queued", "running")
  <2>0. PICK m \in Jobs : m = j
    BY <1>3
  <2>1. Stage(m) = "queued"
    BY <2>0, <1>3, <1>17 DEF Stage, Startable
  <2>2. Stage(m)' = "running"
    BY <2>0, <1>1, <1>3, <1>7 DEF Stage, Startable
  <2>3. \A k \in Jobs \ {m} : Stage(k)' = Stage(k)
    BY <2>0, <1>1, <1>5, <1>7, <1>17, JobAssumption DEF Stage
  <2> QED BY <2>1, <2>2, <2>3 DEF Moves
<1> QED BY <1>3, <1>6, <1>18, <1>19, <1>20, <1>21, <1>22, <1>23, <1>24, <1>25,
           <1>26 DEF OneInv

\* A fiber task always resumes a held fiber, so none is dropped.
LEMMA DispatchFiberOne ==
    ASSUME TypeOK, OneRunner, OneInv, DispatchFiber(TheRunner)
    PROVE  OneInv' /\ \E k \in Jobs : Moves(k, "queued", "running")
<1> DEFINE f == Mine.id
           j == ctx[f].job
<1>l. /\ "dispatch" \notin BusyLabels /\ "dispatch" \notin OnFiberLabels
      /\ "job" \in OnFiberLabels \cap TaskLabels \cap BusyLabels
      /\ "job" \notin BackLabels
  BY DEF TaskLabels, BusyLabels, OnFiberLabels, BackLabels
<1>1. /\ Where = "dispatch" /\ Mine.kind = "fiber"
      /\ UNCHANGED <<tasks, cbFiber, ctx, reg, submitted, done>>
  BY DEF DispatchFiber, At, Where, Mine, ioVars, jobVars
<1>2. Mine \in Work /\ f \in Jobs /\ Mine = FiberTask(f) /\ Resumable(f)
  <2>1. Mine \in Work /\ Mine \in Task
    <3>1. InHand = Mine /\ Mine # NoTask
      BY <1>1 DEF InHand, OneInv, BackInv, TaskLabels
    <3> QED BY <3>1, LocalTypes DEF Work
  <2> QED BY <1>1, <2>1, KindsOfTask DEF OneInv, WorkInv
<1>3. /\ Held(f) /\ fstate[f] = "HOLD" /\ j \in submitted \ done
      /\ reg[j] = None /\ j \in Jobs
  BY <1>2, FiberTypes DEF OneInv, HoldInv, Resumable
<1>4. /\ Goto(TheRunner, "job") /\ cur' = cur
      /\ fstate' = [fstate EXCEPT ![f] = "RUNNING"]
      /\ SwapIn(TheRunner, f, ctx[f])
  BY <1>3 DEF DispatchFiber, Mine
<1>5. Stack.fiber = None /\ Stack.job = None /\ ~OnCpu(f)
  BY <1>1, <1>2, <1>l, NobodyOnCpu
<1> HIDE DEF j
<1>6. /\ exec' = [exec EXCEPT ![TheRunner] = [fiber |-> f, job |-> j]]
      /\ crash' = "no"
  BY <1>3, <1>4, <1>5 DEF SwapIn, OneInv, Held, j
<1> HIDE DEF f
<1>7. /\ Stack' = [fiber |-> f, job |-> j]
      /\ \A q \in Procs \ {TheRunner} : exec'[q] = exec[q]
  BY <1>6, StackIs
<1>8. /\ Where' = "job" /\ \A q \in Procs \ {TheRunner} : pc'[q] = pc[q]
  BY <1>4, RunnerMoves
<1>9. /\ Mine' = Mine /\ Work' = Work \ {Mine} /\ InHand' = NoTask
  BY <1>1, <1>4, Dispatched
<1>10. MyFiber' = f /\ Spare' = Spare
  BY <1>1, <1>9 DEF MyFiber, Spare, f
<1>11. /\ \A g \in Jobs \ {f} : fstate'[g] = fstate[g]
       /\ fstate'[f] = "RUNNING"
  BY <1>2, <1>4, FiberTypes
<1>12. \A g \in Jobs : Held(g)' <=> Held(g) /\ g # f
  BY <1>1, <1>5, <1>7, JobAssumption DEF Held
<1>13. \A t \in Work', k \in Jobs : Serves(t, k)' <=> Serves(t, k)
  BY <1>1 DEF Serves
<1>14. \A t \in Work' : t.kind = "fiber" => t.id # f
  BY <1>2, <1>9 DEF OneInv, WorkInv
<1>15. \A k \in Jobs : Queued(k) <=> Queued(k)' \/ k = j
  BY <1>1, <1>2, <1>9, <1>13, KindsOfTask DEF Queued, Serves, j
<1>16. OwnerInv'
  BY <1>4, <1>7, <1>8 DEF OneInv, OwnerInv
<1>17. StackInv'
  BY <1>1, <1>2, <1>3, <1>l, <1>7, <1>8, <1>10, <1>11, JobAssumption
  DEF StackInv
<1>18. BackInv'
  <2>1. Spare # None => Clean(Spare) /\ Spare \in Jobs
    BY <1>1, <1>l, LocalTypes DEF OneInv, BackInv
  <2>2. Spare # None => Clean(Spare)'
    BY <1>1, <1>3, <1>10, <1>11, <2>1 DEF Clean
  <2>3. Mine # NoTask
    BY <1>1, KindsOfTask
  <2> QED BY <1>8, <1>9, <1>10, <1>l, <2>2, <2>3 DEF BackInv, Clean
<1>19. HoldInv'
  <2> SUFFICES ASSUME NEW g \in Jobs, Held(g), g # f
               PROVE  /\ fstate[g] = "HOLD" /\ ctx[g].job \in submitted \ done
                      /\ j # ctx[g].job
                      /\ \A h \in Jobs :
                             Held(h) /\ ctx[h].job = ctx[g].job => h = g
    BY <1>1, <1>7, <1>11, <1>12 DEF HoldInv
  <2> QED BY <1>2, <1>3 DEF OneInv, HoldInv, j
<1>20. AwaitInv'
  <2>1. \A k \in Jobs : reg[k] # f
    BY <1>1, <1>2, <1>3, JobAssumption DEF OneInv, AwaitInv, j
  <2> QED BY <1>1, <1>12, <2>1, FiberTypes DEF OneInv, AwaitInv
<1>21. WorkInv'
  <2>1. ASSUME NEW t \in Work', t.kind = "cb"
        PROVE  t = CbTask(t.id) /\ Startable(t.id)'
    <3>1. t = CbTask(t.id) /\ Startable(t.id)
      BY <1>9, <2>1 DEF OneInv, WorkInv
    <3>2. t.id # j
      BY <1>2, <1>3, <3>1 DEF Startable, j
    <3> QED BY <1>1, <1>7, <1>12, <3>1, <3>2 DEF Startable
  <2>2. ASSUME NEW t \in Work', t.kind = "fiber"
        PROVE  t = FiberTask(t.id) /\ Resumable(t.id)'
    <3>1. t = FiberTask(t.id) /\ Resumable(t.id) /\ t.id \in Jobs \ {f}
      BY <1>9, <1>14, <2>2, LocalTypes, KindsOfTask DEF OneInv, WorkInv
    <3> QED BY <1>1, <1>12, <3>1 DEF Resumable
  <2> QED BY <1>1, <1>9, <2>1, <2>2, SameTasks DEF WorkInv
<1>22. UnusedInv'
  <2> SUFFICES ASSUME NEW k \in Jobs,
                      k \notin submitted \/ CbTask(k) \in Work'
               PROVE  Clean(k)' /\ k # f /\ Spare # k
    BY <1>1, <1>7, <1>10 DEF UnusedInv
  <2>1. Clean(k) /\ Spare # k
    BY <1>9 DEF OneInv, UnusedInv
  <2>2. k # f
    BY <1>3, <2>1 DEF Clean
  <2> QED BY <1>1, <1>11, <2>1, <2>2 DEF Clean
<1>23. KnownInv'
  BY <1>1, <1>5, <1>7, <1>15, JobAssumption, FiberTypes DEF OneInv, KnownInv
<1>24. \E k \in Jobs : Moves(k, "queued", "running")
  <2>0. PICK m \in Jobs : m = j
    BY <1>3
  <2>1. Stage(m) = "queued"
    BY <2>0, <1>3, <1>5, <1>15, JobAssumption DEF Stage
  <2>2. Stage(m)' = "running"
    BY <2>0, <1>1, <1>3, <1>7 DEF Stage
  <2>3. \A k \in Jobs \ {m} : Stage(k)' = Stage(k)
    BY <2>0, <1>1, <1>5, <1>7, <1>15, JobAssumption DEF Stage
  <2> QED BY <2>1, <2>2, <2>3 DEF Moves
<1> QED BY <1>3, <1>6, <1>16, <1>17, <1>18, <1>19, <1>20, <1>21, <1>22, <1>23,
           <1>24 DEF OneInv

\* Steps of Run and of a callback that leave the work and the fibers alone.
LEMMA BusyMove ==
    ASSUME TypeOK, OneRunner, OneInv, crash' = "no",
           UNCHANGED <<tasks, exec, cbFiber, fstate, ctx, reg, submitted,
                       done>>,
           NEW l, Goto(TheRunner, l), Where # "yield",
           \A q \in Procs \ {TheRunner} : cur'[q] = cur[q],
           InHand = NoTask, InHand' = NoTask, StackInv', BackInv'
    PROVE  OneInv' /\ Stays
<1>1. Work' = Work
  BY DEF Work
<1>2. HoldInv' /\ AwaitInv' /\ UnusedInv' /\ KnownInv' /\ Stays
  BY <1>1, CalmStep
<1>3. WorkInv'
  BY <1>1, SameTasks, SameWork DEF WorkInv
<1>4. OwnerInv'
  BY RunnerMoves DEF OneInv, OwnerInv
<1> QED BY <1>2, <1>3, <1>4 DEF OneInv

LEMMA LabelsApart ==
    /\ {"notify", "dispatch"} \cap BusyLabels = {}
    /\ OnFiberLabels \cap BackLabels = {}
    /\ {"job", "jobNotify", "yield", "term"} \subseteq OnFiberLabels
    /\ {"after", "check", "setHold"} \subseteq BackLabels
    /\ OnFiberLabels \cup BackLabels = BusyLabels
    /\ BusyLabels \subseteq TaskLabels
    /\ "take" \notin TaskLabels \cup BusyLabels
BY DEF TaskLabels, BusyLabels, OnFiberLabels, BackLabels

LEMMA AfterSwapInOne ==
    ASSUME TypeOK, OneRunner, OneInv, AfterSwapIn(TheRunner)
    PROVE  OneInv' /\ Stays
<1>1. /\ Where = "after" /\ crash' = "no" /\ Goto(TheRunner, "check")
      /\ UNCHANGED <<tasks, cur, exec, cbFiber, fstate, ctx, reg, submitted,
                     done>>
  BY DEF AfterSwapIn, At, Where, fiberVars, ioVars, jobVars, OneInv
<1>2. /\ Where' = "check" /\ Stack' = Stack /\ Mine' = Mine /\ Spare' = Spare
      /\ InHand = NoTask /\ InHand' = NoTask
  BY <1>1, RunnerMoves DEF Stack, Mine, Spare, InHand
<1>3. MyFiber' = MyFiber
  BY <1>2 DEF MyFiber
<1>4. StackInv'
  BY <1>1, <1>2, LabelsApart DEF OneInv, StackInv
<1>5. BackInv'
  BY <1>1, <1>2, <1>3, LabelsApart DEF OneInv, BackInv, Held, Ended, Clean
<1> QED BY <1>1, <1>2, <1>4, <1>5, BusyMove

\* cb_fiber is either Reset or let go: in any other state it would be lost.
LEMMA CheckCbOne ==
    ASSUME TypeOK, OneRunner, OneInv, CheckCb(TheRunner)
    PROVE  OneInv' /\ Stays
<1> DEFINE f == Spare
<1>1. /\ Where = "check" /\ Mine.kind = "cb" /\ crash' = "no"
      /\ cur' = [cur EXCEPT ![TheRunner] = NoTask]
      /\ Goto(TheRunner, "take")
      /\ UNCHANGED <<tasks, exec, reg, submitted, done>>
  BY DEF CheckCb, At, Where, Mine, ioVars, jobVars, OneInv
<1>2. /\ Where' = "take" /\ Mine' = NoTask /\ Stack' = Stack
      /\ InHand = NoTask /\ InHand' = NoTask
      /\ \A q \in Procs \ {TheRunner} : cur'[q] = cur[q]
  BY <1>1, RunnerMoves, LocalChange DEF Stack, InHand
<1>3. MyFiber = f /\ f \in Jobs /\ (Held(f) \/ Ended(f))
  BY <1>1, LabelsApart DEF MyFiber, OneInv, BackInv
<1>4. Held(f) => fstate[f] = "HOLD"
  BY <1>3 DEF OneInv, HoldInv
<1>5. StackInv'
  BY <1>1, <1>2, LabelsApart DEF OneInv, StackInv
<1>6. Work' = Work
  BY <1>1, <1>2 DEF Work
<1>7. CASE Held(f)
  <2>1. /\ cbFiber' = [cbFiber EXCEPT ![TheRunner] = None]
        /\ UNCHANGED <<fstate, ctx>>
    BY <1>4, <1>7 DEF CheckCb, Spare
  <2>2. Spare' = None
    BY <2>1, RunnerIsProc, FiberTypes DEF Spare
  <2>3. \A g \in Jobs : (Held(g)' <=> Held(g)) /\ (Clean(g)' <=> Clean(g))
    BY <1>2, <2>1 DEF Held, Clean
  <2>4. \A j : Queued(j)' <=> Queued(j)
    BY <1>6, <2>1 DEF Queued, Serves
  <2>5. BackInv'
    BY <1>2, <2>2, LabelsApart DEF BackInv
  <2>6. HoldInv'
    BY <1>1, <1>2, <2>1, <2>3 DEF OneInv, HoldInv
  <2>7. AwaitInv'
    BY <1>1, <1>2, <2>1 DEF OneInv, AwaitInv, Held
  <2>8. WorkInv'
    <3>1. \A j : (Startable(j)' <=> Startable(j))
                 /\ (Resumable(j)' <=> Resumable(j))
      BY <1>1, <1>2, <2>1 DEF Startable, Resumable, Held
    <3> QED BY <1>1, <1>2, <1>6, <3>1, SameTasks DEF OneInv, WorkInv
  <2>9. UnusedInv'
    BY <1>1, <1>2, <1>6, <2>2, <2>3, JobAssumption DEF OneInv, UnusedInv
  <2>10. KnownInv' /\ Stays
    BY <1>1, <1>2, <2>4 DEF OneInv, KnownInv, Stays, Stage
  <2>11. OwnerInv'
    BY <1>1, <1>2, RunnerMoves DEF OneInv, OwnerInv
  <2> QED BY <1>1, <1>5, <2>5, <2>6, <2>7, <2>8, <2>9, <2>10, <2>11
          DEF OneInv
<1>8. CASE ~Held(f)
  <2>0. fstate[f] = "TERM" /\ ~Clean(f)
    BY <1>3, <1>8 DEF Ended, Clean
  <2>1. /\ fstate' = [fstate EXCEPT ![f] = "INIT"]
        /\ ctx' = [ctx EXCEPT ![f] = [at |-> "entry", job |-> None]]
        /\ UNCHANGED cbFiber
    BY <2>0 DEF CheckCb, Spare
  <2>2. Spare' = f
    BY <2>1 DEF Spare
  <2> HIDE DEF f
  <2>3. /\ \A g \in Jobs \ {f} : ctx'[g] = ctx[g] /\ fstate'[g] = fstate[g]
        /\ ctx'[f] = [at |-> "entry", job |-> None] /\ fstate'[f] = "INIT"
    BY <1>3, <2>1, FiberTypes
  <2>4. \A g \in Jobs : Held(g)' <=> Held(g)
    BY <1>2, <1>8, <2>3 DEF Held
  <2>5. /\ \A t \in Work : t.kind = "fiber" => t.id \in Jobs \ {f}
        /\ \A j \in Jobs : reg[j] # f
    BY <1>1, <1>3, <1>8, NotHeld, LocalTypes, KindsOfTask
  <2>6. \A j : Queued(j)' <=> Queued(j)
    BY <1>6, <2>3, <2>5 DEF Queued, Serves
  <2>7. BackInv'
    BY <1>2, <2>2, <2>3, LabelsApart DEF BackInv, Clean
  <2>8. HoldInv'
    BY <1>1, <1>2, <1>8, <2>3, <2>4 DEF OneInv, HoldInv
  <2>9. AwaitInv'
    BY <1>1, <1>2, <2>3, <2>4, <2>5, FiberTypes DEF OneInv, AwaitInv
  <2>10. WorkInv'
    <3>1. ASSUME NEW t \in Work, t.kind = "cb", Startable(t.id)
          PROVE  Startable(t.id)'
      BY <1>1, <1>2, <1>8, <2>3, <2>4, <3>1 DEF Startable
    <3>2. ASSUME NEW t \in Work, t.kind = "fiber", Resumable(t.id)
          PROVE  Resumable(t.id)'
      BY <1>1, <2>3, <2>4, <2>5, <3>2 DEF Resumable
    <3> QED BY <1>1, <1>2, <1>6, <3>1, <3>2, SameTasks DEF OneInv, WorkInv
  <2>11. UnusedInv'
    <3> SUFFICES ASSUME NEW k \in Jobs,
                        k \notin submitted \/ CbTask(k) \in Work
                 PROVE  Clean(k)' /\ Stack.fiber # k /\ f # k
      BY <1>1, <1>2, <1>6, <2>2 DEF UnusedInv
    <3>1. Clean(k) /\ Stack.fiber # k
      BY DEF OneInv, UnusedInv
    <3>2. k # f
      BY <2>0, <3>1
    <3> QED BY <2>3, <3>1, <3>2 DEF Clean
  <2>12. KnownInv' /\ Stays
    BY <1>1, <1>2, <2>6 DEF OneInv, KnownInv, Stays, Stage
  <2>13. OwnerInv'
    BY <1>1, <1>2, RunnerMoves DEF OneInv, OwnerInv
  <2> QED BY <1>1, <1>5, <2>7, <2>8, <2>9, <2>10, <2>11, <2>12, <2>13
          DEF OneInv
<1> QED BY <1>7, <1>8

LEMMA CheckFiberOne ==
    ASSUME TypeOK, OneRunner, OneInv, CheckFiber(TheRunner)
    PROVE  OneInv' /\ Stays
<1>1. /\ Where = "check" /\ Mine.kind = "fiber" /\ crash' = "no"
      /\ UNCHANGED <<tasks, exec, cbFiber, fstate, ctx, reg, submitted, done>>
  BY DEF CheckFiber, At, Where, Mine, fiberVars, ioVars, jobVars, OneInv
<1>2. /\ Stack' = Stack /\ Spare' = Spare /\ InHand = NoTask
      /\ MyFiber = Mine.id /\ (Held(MyFiber) \/ Ended(MyFiber))
      /\ Spare # None => Clean(Spare)
  BY <1>1, LabelsApart DEF Stack, Spare, InHand, MyFiber, OneInv, BackInv
<1>3. CASE fstate[Mine.id] = "TERM"
  <2>1. /\ Goto(TheRunner, "take")
        /\ cur' = [cur EXCEPT ![TheRunner] = NoTask]
    BY <1>3 DEF CheckFiber, Mine
  <2>2. /\ Where' = "take" /\ Mine' = NoTask /\ InHand' = NoTask
        /\ \A q \in Procs \ {TheRunner} : cur'[q] = cur[q]
    BY <2>1, RunnerMoves, LocalChange DEF InHand
  <2>3. StackInv'
    BY <1>1, <1>2, <2>2, LabelsApart DEF OneInv, StackInv
  <2>4. BackInv'
    BY <1>1, <1>2, <2>2, LabelsApart DEF BackInv, Clean
  <2> QED BY <1>1, <1>2, <2>1, <2>2, <2>3, <2>4, BusyMove
<1>4. CASE fstate[Mine.id] # "TERM"
  <2>1. Goto(TheRunner, "setHold") /\ cur' = cur
    BY <1>4 DEF CheckFiber, Mine
  <2>2. Where' = "setHold" /\ Mine' = Mine /\ InHand' = NoTask
    BY <2>1, RunnerMoves DEF InHand, Mine
  <2>3. StackInv'
    BY <1>1, <1>2, <2>2, LabelsApart DEF OneInv, StackInv
  <2>4. BackInv'
    <3>1. MyFiber' = MyFiber /\ Held(MyFiber) /\ MyFiber \in Jobs
          /\ Mine # NoTask
      BY <1>1, <1>2, <1>4, <2>2, LabelsApart, KindsOfTask
      DEF MyFiber, Ended, OneInv, BackInv
    <3> QED BY <1>1, <1>2, <2>2, <3>1, LabelsApart DEF BackInv, Held, Clean
  <2> QED BY <1>1, <1>2, <2>1, <2>2, <2>3, <2>4, BusyMove
<1> QED BY <1>3, <1>4

\* With one runner the fiber is on hold already.
LEMMA SetHoldOne ==
    ASSUME TypeOK, OneRunner, OneInv, SetHold(TheRunner)
    PROVE  OneInv' /\ Stays
<1>1. /\ Where = "setHold" /\ crash' = "no" /\ Goto(TheRunner, "take")
      /\ fstate' = [fstate EXCEPT ![Mine.id] = "HOLD"]
      /\ cur' = [cur EXCEPT ![TheRunner] = NoTask]
      /\ UNCHANGED <<tasks, exec, cbFiber, ctx, reg, submitted, done>>
  BY DEF SetHold, At, Where, Mine, ioVars, jobVars, OneInv
<1>2. /\ MyFiber = Mine.id /\ MyFiber \in Jobs /\ Held(MyFiber)
      /\ Spare # None => Clean(Spare)
      /\ InHand = NoTask
  BY <1>1, LabelsApart DEF MyFiber, OneInv, BackInv, InHand
<1>3. fstate' = fstate
  BY <1>1, <1>2, FiberTypes DEF OneInv, HoldInv
<1>4. /\ Where' = "take" /\ Mine' = NoTask /\ InHand' = NoTask
      /\ \A q \in Procs \ {TheRunner} : cur'[q] = cur[q]
      /\ Stack' = Stack /\ Spare' = Spare
  BY <1>1, RunnerMoves, LocalChange DEF InHand, Stack, Spare
<1>5. StackInv'
  BY <1>1, <1>4, LabelsApart DEF OneInv, StackInv
<1>6. BackInv'
  BY <1>1, <1>2, <1>3, <1>4, LabelsApart DEF BackInv, Clean
<1> QED BY <1>1, <1>2, <1>3, <1>4, <1>5, <1>6, BusyMove

\* What the runner is at while it is on a fiber's stack.
LEMMA OnTheStack ==
    ASSUME TypeOK, OneRunner, OneInv, Where \in OnFiberLabels
    PROVE  /\ Stack.fiber \in Jobs /\ Stack.job \in Jobs
           /\ Stack.fiber = MyFiber /\ Stack.job \in submitted
           /\ ~Held(MyFiber) /\ ~Clean(MyFiber)
           /\ InHand = NoTask /\ Mine # NoTask
           /\ Spare = MyFiber \/ Spare = None \/ Clean(Spare)
<1>1. /\ Stack.fiber \in Jobs /\ Stack.job \in Jobs
      /\ Stack.fiber = MyFiber /\ Stack.job \in submitted
      /\ fstate[MyFiber] \in {"TERM", "RUNNING"}
  BY LocalTypes DEF OneInv, StackInv, OnStack
<1>2. ~Held(MyFiber) /\ ~Clean(MyFiber)
  BY <1>1 DEF Held, Clean
<1>3. InHand = NoTask /\ Mine # NoTask
  BY LabelsApart DEF InHand, OneInv, BackInv
<1>4. Spare = MyFiber \/ Spare = None \/ Clean(Spare)
  BY DEF OneInv, BackInv, MyFiber
<1> QED BY <1>1, <1>2, <1>3, <1>4

LEMMA AddEventOne ==
    ASSUME TypeOK, OneRunner, OneInv, AddEvent(TheRunner)
    PROVE  OneInv' /\ Stays
<1> DEFINE f == Stack.fiber
           j == Stack.job
<1>1. /\ Where = "job" /\ reg[j] = None /\ Goto(TheRunner, "yield")
      /\ reg' = [reg EXCEPT ![j] = f]
      /\ fstate[f] = "RUNNING" => crash' = crash
      /\ UNCHANGED <<tasks, cur, exec, cbFiber, fstate, ctx, submitted, done>>
  BY DEF AddEvent, At, Where, Stack, fiberVars
<1>2. /\ f \in Jobs /\ j \in Jobs /\ f = MyFiber /\ j \in submitted
      /\ ~Held(f) /\ InHand = NoTask
  BY <1>1, LabelsApart, OnTheStack
<1>3. fstate[f] = "RUNNING" /\ j \notin done
  BY <1>1, <1>2, LabelsApart DEF OneInv, StackInv
<1>4. /\ Where' = "yield" /\ Stack' = Stack /\ Mine' = Mine /\ Spare' = Spare
      /\ InHand' = NoTask /\ crash' = "no"
  BY <1>1, <1>3, RunnerMoves DEF Stack, Mine, Spare, InHand, OneInv
<1>5. MyFiber' = MyFiber /\ Work' = Work
  BY <1>1, <1>2, <1>4 DEF MyFiber, Work
<1> HIDE DEF f, j
<1>6. reg'[j] = f /\ \A k \in Jobs \ {j} : reg'[k] = reg[k]
  BY <1>1, <1>2, FiberTypes
<1>7. Stack = [fiber |-> f, job |-> j]
  BY LocalTypes DEF OnStack, f, j
<1>8. \A g \in Jobs : (Held(g)' <=> Held(g)) /\ (Clean(g)' <=> Clean(g))
  BY <1>1, <1>4 DEF Held, Clean
<1>9. \A k : Queued(k)' <=> Queued(k)
  BY <1>1, <1>5 DEF Queued, Serves
<1>10. StackInv'
  BY <1>1, <1>2, <1>3, <1>4, <1>5, <1>6, <1>7, LabelsApart
  DEF OneInv, StackInv
<1>11. BackInv'
  BY <1>1, <1>4, <1>5, LabelsApart DEF OneInv, BackInv, Clean
<1>12. HoldInv'
  BY <1>1, <1>4, <1>8 DEF OneInv, HoldInv
<1>13. AwaitInv'
  <2>1. ASSUME NEW k \in Jobs, k # j, reg[k] # None, NEW g, g = reg[k]
        PROVE  Held(g)' /\ ctx[g].job = k
    <3>1. Held(g) /\ ctx[g].job = k /\ g \in Jobs
      BY <1>1, <2>1, FiberTypes DEF OneInv, AwaitInv
    <3> QED BY <1>8, <3>1
  <2> QED BY <1>1, <1>4, <1>6, <1>7, <2>1 DEF AwaitInv, Held
<1>14. WorkInv'
  <2>1. ASSUME NEW t \in Work, t.kind = "cb"
        PROVE  t = CbTask(t.id) /\ Startable(t.id)'
    <3>1. t = CbTask(t.id) /\ Startable(t.id) /\ t.id \in Jobs
      BY <2>1, LocalTypes, KindsOfTask DEF OneInv, WorkInv
    <3>2. t.id # j
      BY <1>7, <3>1 DEF Startable
    <3> QED BY <1>1, <1>4, <1>6, <1>8, <3>1, <3>2 DEF Startable
  <2>2. ASSUME NEW t \in Work, t.kind = "fiber"
        PROVE  t = FiberTask(t.id) /\ Resumable(t.id)'
    <3>1. t = FiberTask(t.id) /\ Resumable(t.id) /\ t.id \in Jobs
      BY <2>2, LocalTypes, KindsOfTask DEF OneInv, WorkInv
    <3>2. ctx[t.id].job \in Jobs \ {j}
      BY <1>7, <3>1, FiberTypes DEF OneInv, HoldInv, Resumable
    <3> QED BY <1>1, <1>6, <1>8, <3>1, <3>2 DEF Resumable
  <2> QED BY <1>1, <1>2, <1>4, <1>5, <2>1, <2>2, SameTasks DEF WorkInv
<1>15. UnusedInv'
  BY <1>1, <1>4, <1>5, <1>8 DEF OneInv, UnusedInv
<1>16. KnownInv'
  BY <1>1, <1>2, <1>4, <1>6, <1>9, JobAssumption, FiberTypes
  DEF OneInv, KnownInv
<1>17. Stays
  BY <1>1, <1>4, <1>9 DEF Stays, Stage
<1>18. OwnerInv'
  BY <1>1, RunnerMoves DEF OneInv, OwnerInv
<1> QED BY <1>4, <1>10, <1>11, <1>12, <1>13, <1>14, <1>15, <1>16, <1>17, <1>18
        DEF OneInv

\* The callback is waiting from here on: its event is registered already.
LEMMA YieldOne ==
    ASSUME TypeOK, OneRunner, OneInv, YieldToHold(TheRunner)
    PROVE  OneInv' /\ \E k \in Jobs : Moves(k, "running", "waiting")
<1> DEFINE f == Stack.fiber
           j == Stack.job
<1>1. /\ Where = "yield" /\ Goto(TheRunner, "after")
      /\ fstate[f] = "RUNNING" => crash' = crash
      /\ fstate' = [fstate EXCEPT ![f] = "HOLD"]
      /\ ctx' = [ctx EXCEPT ![f] = [at |-> "yield", job |-> j]]
      /\ exec' = [exec EXCEPT ![TheRunner] = OffCpu]
      /\ UNCHANGED <<tasks, cur, cbFiber, reg, submitted, done>>
  BY DEF YieldToHold, At, Where, Stack, ioVars, jobVars
<1>2. /\ f \in Jobs /\ j \in Jobs /\ f = MyFiber /\ j \in submitted
      /\ ~Held(f) /\ ~Clean(f) /\ InHand = NoTask /\ Mine # NoTask
      /\ Spare = f \/ Spare = None \/ Clean(Spare)
  BY <1>1, LabelsApart, OnTheStack
<1>3. fstate[f] = "RUNNING" /\ j \notin done /\ reg[j] = f
  BY <1>1, <1>2, LabelsApart DEF OneInv, StackInv
<1> HIDE DEF f, j
<1>4. /\ Where' = "after" /\ Stack' = OffCpu /\ Mine' = Mine
      /\ Spare' = Spare /\ InHand' = NoTask /\ crash' = "no"
      /\ \A q \in Procs \ {TheRunner} : exec'[q] = exec[q]
  <2>1. Where' = "after" /\ crash' = "no"
    BY <1>1, <1>3, RunnerMoves DEF OneInv
  <2>2. Mine' = Mine /\ Spare' = Spare /\ InHand' = NoTask
    BY <1>1, <2>1 DEF Mine, Spare, InHand
  <2>3. Stack' = OffCpu /\ \A q \in Procs \ {TheRunner} : exec'[q] = exec[q]
    BY <1>1, StackIs
  <2> QED BY <2>1, <2>2, <2>3
<1>5. MyFiber' = MyFiber /\ Work' = Work
  BY <1>1, <1>2, <1>4 DEF MyFiber, Work
<1>6. /\ \A g \in Jobs \ {f} : ctx'[g] = ctx[g] /\ fstate'[g] = fstate[g]
      /\ ctx'[f] = [at |-> "yield", job |-> j] /\ fstate'[f] = "HOLD"
  BY <1>1, <1>2, FiberTypes
<1>7. \A g \in Jobs : Held(g)' <=> Held(g) \/ g = f
  BY <1>2, <1>4, <1>6, JobAssumption DEF Held, OffCpu, f
<1>8. \A t \in Work : t.kind = "fiber" => t.id \in Jobs \ {f}
  BY <1>2, NotHeld, LocalTypes, KindsOfTask
<1>9. \A k : Queued(k)' <=> Queued(k)
  BY <1>5, <1>6, <1>8 DEF Queued, Serves
<1>10. Stack.job = j /\ Stack.fiber = f
  BY DEF f, j
<1>11. ~Queued(j)
  <2>1. \A t \in Work : t.kind = "cb" => t.id # j
    BY <1>10 DEF OneInv, WorkInv, Startable
  <2>2. \A t \in Work : t.kind = "fiber" => ctx[t.id].job # j
    BY <1>8, <1>10 DEF OneInv, WorkInv, HoldInv, Resumable
  <2> QED BY <2>1, <2>2 DEF Queued, Serves
<1>12. StackInv'
  BY <1>4, LabelsApart DEF StackInv, OffCpu
<1>13. BackInv'
  <2>1. Spare # None => Clean(Spare)' \/ Mine.kind = "cb"
    <3>1. CASE Mine.kind # "cb"
      <4>1. Spare # None => Clean(Spare) /\ Spare \in Jobs
        BY <1>2, <3>1, LocalTypes DEF OneInv, BackInv
      <4>2. Spare # None => Spare \in Jobs \ {f}
        BY <1>2, <4>1
      <4> QED BY <1>4, <1>6, <4>1, <4>2 DEF Clean
    <3> QED BY <3>1
  <2>2. Held(MyFiber)' /\ MyFiber \in Jobs
    <3>1. MyFiber = f
      BY <1>2
    <3>2. ctx'[MyFiber'].at = "yield" /\ Stack'.fiber # MyFiber'
      BY <1>2, <1>4, <1>5, <1>6, <3>1, JobAssumption DEF OffCpu
    <3> QED BY <1>2, <3>1, <3>2 DEF Held
  <2> QED BY <1>2, <1>4, <1>5, <2>1, <2>2, LabelsApart DEF BackInv, Clean
<1>14. HoldInv'
  <2> SUFFICES ASSUME NEW g \in Jobs, Held(g) \/ g = f
               PROVE  /\ fstate'[g] = "HOLD"
                      /\ ctx'[g].job \in submitted \ done
                      /\ None # ctx'[g].job
                      /\ \A h \in Jobs : /\ Held(h) \/ h = f
                                         /\ ctx'[h].job = ctx'[g].job
                                         => h = g
    BY <1>1, <1>4, <1>7 DEF HoldInv, OffCpu
  <2>1. \A h \in Jobs : Held(h) => /\ h # f /\ ctx'[h].job = ctx[h].job
                                   /\ ctx[h].job # j
                                   /\ fstate'[h] = "HOLD"
                                   /\ ctx[h].job \in submitted \ done
    BY <1>2, <1>6, <1>10 DEF OneInv, HoldInv
  <2>2. CASE g = f
    BY <1>2, <1>3, <1>6, <2>1, <2>2, JobAssumption
  <2>3. CASE Held(g)
    BY <1>6, <2>1, <2>3, JobAssumption, FiberTypes DEF OneInv, HoldInv
  <2> QED BY <2>2, <2>3
<1>15. AwaitInv'
  <2> SUFFICES ASSUME NEW k \in Jobs, reg[k] # None, NEW g, g = reg[k]
               PROVE  Held(g)' /\ ctx'[g].job = k
    BY <1>1 DEF AwaitInv, Held
  <2>1. CASE Held(g) /\ ctx[g].job = k
    BY <1>2, <1>6, <1>7, <2>1, FiberTypes
  <2>2. CASE Stack = [fiber |-> g, job |-> k]
    <3>1. g = f /\ k = j
      BY <1>10, <2>2
    <3> QED BY <1>2, <1>6, <1>7, <3>1
  <2> QED BY <2>1, <2>2 DEF OneInv, AwaitInv
<1>16. WorkInv'
  <2>1. ASSUME NEW t \in Work, t.kind = "cb"
        PROVE  t = CbTask(t.id) /\ Startable(t.id)'
    <3>1. t = CbTask(t.id) /\ Startable(t.id) /\ t.id \in Jobs
      BY <2>1, LocalTypes, KindsOfTask DEF OneInv, WorkInv
    <3>2. \A g \in Jobs : Held(g)' => ctx'[g].job # t.id
      BY <1>6, <1>7, <1>10, <3>1 DEF Startable
    <3> QED BY <1>1, <1>4, <3>1, <3>2, JobAssumption DEF Startable, OffCpu
  <2>2. ASSUME NEW t \in Work, t.kind = "fiber"
        PROVE  t = FiberTask(t.id) /\ Resumable(t.id)'
    <3>1. t = FiberTask(t.id) /\ Resumable(t.id) /\ t.id \in Jobs \ {f}
      BY <1>8, <2>2 DEF OneInv, WorkInv
    <3> QED BY <1>1, <1>6, <1>7, <3>1 DEF Resumable
  <2> QED BY <1>1, <1>2, <1>4, <1>5, <2>1, <2>2, SameTasks DEF WorkInv
<1>17. UnusedInv'
  <2> SUFFICES ASSUME NEW k \in Jobs,
                      k \notin submitted \/ CbTask(k) \in Work
               PROVE  Clean(k)' /\ None # k /\ Spare # k
    BY <1>1, <1>4, <1>5 DEF UnusedInv, OffCpu
  <2>1. Clean(k) /\ Spare # k /\ k # f
    BY <1>10 DEF OneInv, UnusedInv
  <2> QED BY <1>6, <2>1, JobAssumption DEF Clean
<1>18. KnownInv'
  BY <1>1, <1>2, <1>3, <1>9, <1>10, JobAssumption DEF OneInv, KnownInv
<1>19. \E k \in Jobs : Moves(k, "running", "waiting")
  <2>0. PICK m \in Jobs : m = j
    BY <1>2
  <2>1. Stage(m) = "running"
    BY <2>0, <1>2, <1>3, <1>10 DEF Stage
  <2>2. Stage(m)' = "waiting"
    BY <2>0, <1>1, <1>2, <1>3, <1>4, <1>9, <1>11, JobAssumption
    DEF Stage, OffCpu
  <2>3. \A k \in Jobs \ {m} : Stage(k)' = Stage(k)
    BY <2>0, <1>1, <1>4, <1>9, <1>10, JobAssumption DEF Stage, OffCpu
  <2> QED BY <2>1, <2>2, <2>3 DEF Moves
<1>20. OwnerInv'
  BY <1>1, <1>4, RunnerMoves DEF OneInv, OwnerInv
<1> QED BY <1>4, <1>12, <1>13, <1>14, <1>15, <1>16, <1>17, <1>18, <1>19, <1>20
        DEF OneInv

LEMMA ReturnOne ==
    ASSUME TypeOK, OneRunner, OneInv, Return(TheRunner)
    PROVE  OneInv' /\ \E k \in Jobs : Moves(k, "running", "done")
<1> DEFINE f == Stack.fiber
           j == Stack.job
<1>1. /\ Where = "job" /\ Goto(TheRunner, "term")
      /\ fstate' = [fstate EXCEPT ![f] = "TERM"]
      /\ done' = done \cup ({j} \ {None})
      /\ crash' = "no"
      /\ UNCHANGED <<tasks, cur, exec, cbFiber, ctx, reg, submitted>>
  BY DEF Return, At, Where, Stack, ioVars, OneInv
<1>2. /\ f \in Jobs /\ j \in Jobs /\ f = MyFiber /\ j \in submitted
      /\ ~Held(f) /\ ~Clean(f) /\ InHand = NoTask /\ Mine # NoTask
      /\ Spare = f \/ Spare = None \/ Clean(Spare)
  BY <1>1, LabelsApart, OnTheStack
<1>3. j \notin done /\ reg[j] = None
  BY <1>1, <1>2, LabelsApart DEF OneInv, StackInv
<1> HIDE DEF f, j
<1>4. /\ Where' = "term" /\ Stack' = Stack /\ Mine' = Mine
      /\ Spare' = Spare /\ InHand' = NoTask
  BY <1>1, RunnerMoves DEF Stack, Mine, Spare, InHand
<1>5. MyFiber' = MyFiber /\ Work' = Work
  BY <1>1, <1>2, <1>4 DEF MyFiber, Work
<1>6. /\ \A g \in Jobs \ {f} : fstate'[g] = fstate[g]
      /\ fstate'[f] = "TERM" /\ done' = done \cup {j}
  BY <1>1, <1>2, FiberTypes, JobAssumption
<1>7. Stack.job = j /\ Stack.fiber = f
  BY DEF f, j
<1>8. \A g \in Jobs : Held(g)' <=> Held(g)
  BY <1>1, <1>4 DEF Held
<1>9. \A k : Queued(k)' <=> Queued(k)
  BY <1>1, <1>5 DEF Queued, Serves
<1>10. StackInv'
  BY <1>1, <1>2, <1>3, <1>4, <1>5, <1>6, <1>7, LabelsApart, JobAssumption
  DEF OneInv, StackInv
<1>11. BackInv'
  <2>1. Spare # None => Clean(Spare)' \/ Mine.kind = "cb"
    <3>1. CASE Mine.kind # "cb"
      <4>1. Spare # None => Clean(Spare) /\ Spare \in Jobs \ {f}
        BY <1>2, <3>1, LocalTypes DEF OneInv, BackInv
      <4> QED BY <1>1, <1>4, <1>6, <4>1 DEF Clean
    <3> QED BY <3>1
  <2> QED BY <1>2, <1>4, <1>5, <2>1, LabelsApart DEF BackInv, Clean
<1>12. HoldInv'
  BY <1>1, <1>2, <1>4, <1>6, <1>7, <1>8 DEF OneInv, HoldInv
<1>13. AwaitInv'
  <2> SUFFICES ASSUME NEW k \in Jobs, reg[k] # None, NEW g, g = reg[k]
               PROVE  Held(g)' /\ ctx[g].job = k
    BY <1>1 DEF AwaitInv, Held
  <2> QED BY <1>1, <1>8, FiberTypes DEF OneInv, AwaitInv
<1>14. WorkInv'
  <2>1. ASSUME NEW t \in Work, t.kind = "cb"
        PROVE  t = CbTask(t.id) /\ Startable(t.id)'
    <3>1. t = CbTask(t.id) /\ Startable(t.id) /\ t.id # j
      BY <1>7, <2>1 DEF OneInv, WorkInv, Startable
    <3> QED BY <1>1, <1>4, <1>6, <1>8, <3>1 DEF Startable
  <2>2. ASSUME NEW t \in Work, t.kind = "fiber"
        PROVE  t = FiberTask(t.id) /\ Resumable(t.id)'
    BY <1>1, <1>4, <2>2 DEF OneInv, WorkInv, Resumable, Held
  <2> QED BY <1>1, <1>2, <1>4, <1>5, <2>1, <2>2, SameTasks DEF WorkInv
<1>15. UnusedInv'
  <2> SUFFICES ASSUME NEW k \in Jobs,
                      k \notin submitted \/ CbTask(k) \in Work
               PROVE  Clean(k)' /\ f # k /\ Spare # k
    BY <1>1, <1>4, <1>5, <1>7 DEF UnusedInv
  <2>1. Clean(k) /\ Spare # k /\ k # f
    BY <1>7 DEF OneInv, UnusedInv
  <2> QED BY <1>1, <1>6, <2>1 DEF Clean
<1>16. KnownInv'
  BY <1>1, <1>2, <1>4, <1>6, <1>9 DEF OneInv, KnownInv
<1>17. \E k \in Jobs : Moves(k, "running", "done")
  <2>0. PICK m \in Jobs : m = j
    BY <1>2
  <2>1. Stage(m) = "running"
    BY <2>0, <1>2, <1>3, <1>7 DEF Stage
  <2>2. Stage(m)' = "done"
    BY <2>0, <1>1, <1>2, <1>6 DEF Stage
  <2>3. \A k \in Jobs \ {m} : Stage(k)' = Stage(k)
    BY <2>0, <1>1, <1>4, <1>6, <1>9 DEF Stage
  <2> QED BY <2>1, <2>2, <2>3 DEF Moves
<1>18. OwnerInv'
  BY <1>1, RunnerMoves DEF OneInv, OwnerInv
<1> QED BY <1>1, <1>10, <1>11, <1>12, <1>13, <1>14, <1>15, <1>16, <1>17, <1>18
        DEF OneInv

LEMMA TermSwapOutOne ==
    ASSUME TypeOK, OneRunner, OneInv, TermSwapOut(TheRunner)
    PROVE  OneInv' /\ Stays
<1> DEFINE f == Stack.fiber
           j == Stack.job
<1>1. /\ Where = "term" /\ Goto(TheRunner, "after") /\ crash' = "no"
      /\ ctx' = [ctx EXCEPT ![f] = [at |-> "exit", job |-> None]]
      /\ exec' = [exec EXCEPT ![TheRunner] = OffCpu]
      /\ UNCHANGED <<tasks, cur, cbFiber, fstate, reg, submitted, done>>
  BY DEF TermSwapOut, At, Where, Stack, ioVars, jobVars, OneInv
<1>2. /\ f \in Jobs /\ j \in Jobs /\ f = MyFiber /\ j \in submitted
      /\ ~Held(f) /\ ~Clean(f) /\ InHand = NoTask /\ Mine # NoTask
      /\ Spare = f \/ Spare = None \/ Clean(Spare)
  BY <1>1, LabelsApart, OnTheStack
<1>3. fstate[f] = "TERM" /\ j \in done
  BY <1>1, <1>2, LabelsApart DEF OneInv, StackInv
<1> HIDE DEF f, j
<1>4. /\ Where' = "after" /\ Stack' = OffCpu /\ Mine' = Mine
      /\ Spare' = Spare /\ InHand' = NoTask
      /\ \A q \in Procs \ {TheRunner} : exec'[q] = exec[q]
  <2>1. Where' = "after"
    BY <1>1, RunnerMoves
  <2>2. Mine' = Mine /\ Spare' = Spare /\ InHand' = NoTask
    BY <1>1, <2>1 DEF Mine, Spare, InHand
  <2> QED BY <1>1, <2>1, <2>2, StackIs
<1>5. MyFiber' = MyFiber /\ Work' = Work
  BY <1>1, <1>2, <1>4 DEF MyFiber, Work
<1>6. /\ \A g \in Jobs \ {f} : ctx'[g] = ctx[g]
      /\ ctx'[f] = [at |-> "exit", job |-> None]
  BY <1>1, <1>2, FiberTypes
<1>7. Stack.job = j /\ Stack.fiber = f
  BY DEF f, j
<1>8. \A g \in Jobs : Held(g)' <=> Held(g)
  BY <1>2, <1>4, <1>6, <1>7, JobAssumption DEF Held, OffCpu
<1>9. /\ \A t \in Work : t.kind = "fiber" => t.id \in Jobs \ {f}
      /\ \A k \in Jobs : reg[k] # f
  BY <1>1, <1>2, NotHeld, LocalTypes, KindsOfTask
<1>10. \A k : Queued(k)' <=> Queued(k)
  BY <1>5, <1>6, <1>9 DEF Queued, Serves
<1>11. StackInv'
  BY <1>4, LabelsApart DEF StackInv, OffCpu
<1>12. BackInv'
  <2>1. Spare # None => Clean(Spare)' \/ Mine.kind = "cb"
    <3>1. CASE Mine.kind # "cb"
      <4>1. Spare # None => Clean(Spare) /\ Spare \in Jobs \ {f}
        BY <1>2, <3>1, LocalTypes DEF OneInv, BackInv
      <4> QED BY <1>1, <1>4, <1>6, <4>1 DEF Clean
    <3> QED BY <3>1
  <2>2. Ended(MyFiber)' /\ MyFiber \in Jobs
    <3>1. MyFiber = f
      BY <1>2
    <3> QED BY <1>1, <1>2, <1>3, <1>5, <1>6, <3>1 DEF Ended
  <2> QED BY <1>2, <1>4, <1>5, <2>1, <2>2, LabelsApart DEF BackInv, Clean
<1>13. HoldInv'
  <2>1. \A g \in Jobs : Held(g) => g # f
    BY <1>2
  <2> QED BY <1>1, <1>4, <1>6, <1>8, <2>1, JobAssumption, FiberTypes
          DEF OneInv, HoldInv, OffCpu
<1>14. AwaitInv'
  <2> SUFFICES ASSUME NEW k \in Jobs, reg[k] # None, NEW g, g = reg[k]
               PROVE  Held(g)' /\ ctx'[g].job = k
    BY <1>1 DEF AwaitInv, Held
  <2> QED BY <1>1, <1>6, <1>8, <1>9, FiberTypes DEF OneInv, AwaitInv
<1>15. WorkInv'
  <2>1. ASSUME NEW t \in Work, t.kind = "cb"
        PROVE  t = CbTask(t.id) /\ Startable(t.id)'
    <3>1. t = CbTask(t.id) /\ Startable(t.id) /\ t.id \in Jobs
      BY <2>1, LocalTypes, KindsOfTask DEF OneInv, WorkInv
    <3>2. \A g \in Jobs : Held(g)' => ctx'[g].job # t.id
      BY <1>2, <1>6, <1>8, <3>1 DEF Startable
    <3> QED BY <1>1, <1>4, <3>1, <3>2, JobAssumption DEF Startable, OffCpu
  <2>2. ASSUME NEW t \in Work, t.kind = "fiber"
        PROVE  t = FiberTask(t.id) /\ Resumable(t.id)'
    <3>1. t = FiberTask(t.id) /\ Resumable(t.id) /\ t.id \in Jobs \ {f}
      BY <1>9, <2>2 DEF OneInv, WorkInv
    <3> QED BY <1>1, <1>6, <1>8, <3>1 DEF Resumable
  <2> QED BY <1>1, <1>2, <1>4, <1>5, <2>1, <2>2, SameTasks DEF WorkInv
<1>16. UnusedInv'
  <2> SUFFICES ASSUME NEW k \in Jobs,
                      k \notin submitted \/ CbTask(k) \in Work
               PROVE  Clean(k)' /\ None # k /\ Spare # k
    BY <1>1, <1>4, <1>5 DEF UnusedInv, OffCpu
  <2>1. Clean(k) /\ Spare # k /\ k # f
    BY <1>7 DEF OneInv, UnusedInv
  <2> QED BY <1>1, <1>6, <2>1, JobAssumption DEF Clean
<1>17. KnownInv'
  BY <1>1, <1>3, <1>7, <1>10 DEF OneInv, KnownInv
<1>18. Stays
  BY <1>1, <1>3, <1>4, <1>7, <1>10, JobAssumption DEF Stays, Stage, OffCpu
<1>19. OwnerInv'
  BY <1>1, <1>4, RunnerMoves DEF OneInv, OwnerInv
<1> QED BY <1>1, <1>11, <1>12, <1>13, <1>14, <1>15, <1>16, <1>17, <1>18, <1>19
        DEF OneInv

\* pushtask adds one task to the work.
LEMMA PushedTask ==
    ASSUME TypeOK, OneRunner, NEW t \in Task, t \notin Work, InHand' = InHand,
           tasks' = Append(tasks, t),
           \A i, k \in DOMAIN tasks : tasks[i] = tasks[k] => i = k,
           \A i \in DOMAIN tasks : tasks[i] # InHand
    PROVE  /\ Work' = Work \cup {t}
           /\ \A i, k \in DOMAIN tasks' : tasks'[i] = tasks'[k] => i = k
           /\ \A i \in DOMAIN tasks' : tasks'[i] # InHand'
<1> DEFINE n == Len(tasks)
<1>1. /\ n \in Nat /\ DOMAIN tasks = 1..n /\ DOMAIN tasks' = 1..(n + 1)
      /\ \A i \in 1..n : tasks'[i] = tasks[i]
      /\ tasks'[n + 1] = t
  BY LocalTypes
<1>2. DOMAIN tasks' = DOMAIN tasks \cup {n + 1} /\ n + 1 \notin DOMAIN tasks
  BY <1>1
<1> HIDE DEF n
<1>3. {tasks'[i] : i \in DOMAIN tasks'} = {tasks[i] : i \in DOMAIN tasks}
                                              \cup {t}
  BY <1>1, <1>2
<1>4. t # NoTask
  BY TaskTypes
<1>5. Work' = Work \cup {t}
  BY <1>3, <1>4 DEF Work
<1>6. t # InHand /\ \A i \in DOMAIN tasks : tasks[i] # t
  BY <1>4 DEF Work
<1>7. \A i, k \in DOMAIN tasks' : tasks'[i] = tasks'[k] => i = k
  BY <1>1, <1>2, <1>6
<1>8. \A i \in DOMAIN tasks' : tasks'[i] # InHand'
  BY <1>1, <1>2, <1>6
<1> QED BY <1>5, <1>7, <1>8

\* A callback is handed to pushtask by whoever it is.
LEMMA PushedCbOne ==
    ASSUME TypeOK, OneRunner, OneInv, NEW k \in Jobs, k \notin submitted,
           Push(CbTask(k)), submitted' = submitted \cup {k},
           InHand' = InHand, Where # "yield" \/ Where' = Where,
           UNCHANGED <<exec, cbFiber, fstate, ctx, reg, done>>
    PROVE  /\ HoldInv' /\ AwaitInv' /\ WorkInv' /\ UnusedInv' /\ KnownInv'
           /\ Moves(k, "new", "queued")
<1>1. Stack' = Stack /\ Spare' = Spare
  BY DEF Stack, Spare
<1>2. /\ CbTask(k) \in Task /\ CbTask(k) \notin Work
      /\ CbTask(k).kind = "cb" /\ CbTask(k).id = k
  BY TaskTypes, KindsOfTask DEF OneInv, WorkInv, Startable
<1>3. /\ Work' = Work \cup {CbTask(k)}
      /\ \A i, m \in DOMAIN tasks' : tasks'[i] = tasks'[m] => i = m
      /\ \A i \in DOMAIN tasks' : tasks'[i] # InHand'
  BY <1>2, PushedTask DEF Push, OneInv, WorkInv
<1>4. \A f \in Jobs : /\ Held(f)' <=> Held(f)
                      /\ Clean(f)' <=> Clean(f)
                      /\ Held(f) => ctx[f].job \in submitted \ done
  BY <1>1 DEF Held, Clean, OneInv, HoldInv
<1>5. /\ k \notin done /\ Stack.job # k /\ reg[k] = None
      /\ \A f \in Jobs : Held(f) => ctx[f].job # k
  <2>1. Stack.job # k
    BY JobAssumption DEF OneInv, StackInv
  <2>2. reg[k] = None
    BY <1>4, <2>1, FiberTypes DEF OneInv, AwaitInv
  <2> QED BY <1>4, <2>1, <2>2 DEF OneInv, KnownInv
<1>6. \A j \in Jobs : Queued(j)' <=> Queued(j) \/ j = k
  BY <1>2, <1>3 DEF Queued, Serves
<1>7. HoldInv'
  BY <1>1, <1>4 DEF OneInv, HoldInv
<1>8. AwaitInv'
  BY <1>1 DEF OneInv, AwaitInv, Held
<1>9. WorkInv'
  <2>1. \A t \in Work :
            /\ t.kind = "cb" => t = CbTask(t.id) /\ Startable(t.id)'
            /\ t.kind = "fiber" => t = FiberTask(t.id) /\ Resumable(t.id)'
    BY <1>1 DEF OneInv, WorkInv, Startable, Resumable, Held
  <2>2. Startable(k)'
    BY <1>1, <1>4, <1>5 DEF Startable
  <2>3. \A t \in Work' : t \in Work \/ t = CbTask(k)
    BY <1>3
  <2> QED BY <1>2, <1>3, <2>1, <2>2, <2>3 DEF WorkInv
<1>10. UnusedInv'
  <2>1. \A j \in Jobs : CbTask(j) = CbTask(k) => j = k
    BY KindsOfTask
  <2> QED BY <1>1, <1>3, <1>4, <2>1 DEF OneInv, UnusedInv
<1>11. KnownInv'
  BY <1>1, <1>6, FiberTypes DEF OneInv, KnownInv
<1>12. Moves(k, "new", "queued")
  BY <1>1, <1>5, <1>6 DEF Moves, Stage
<1> QED BY <1>7, <1>8, <1>9, <1>10, <1>11, <1>12

LEMMA JobPushOne ==
    ASSUME TypeOK, OneRunner, OneInv, NEW k \in Jobs, JobPush(TheRunner, k)
    PROVE  OneInv' /\ Moves(k, "new", "queued")
<1>1. /\ Where = "job" /\ Goto(TheRunner, "jobNotify") /\ crash' = "no"
      /\ k \notin submitted /\ Push(CbTask(k))
      /\ submitted' = submitted \cup {k}
      /\ UNCHANGED <<cur, exec, cbFiber, fstate, ctx, reg, done>>
  BY DEF JobPush, At, Where, fiberVars, ioVars, OneInv
<1>2. /\ Where' = "jobNotify" /\ Stack' = Stack /\ Mine' = Mine
      /\ Spare' = Spare /\ InHand' = InHand
  BY <1>1, RunnerMoves DEF Stack, Mine, Spare, InHand
<1>3. MyFiber' = MyFiber
  BY <1>2 DEF MyFiber
<1>4. StackInv'
  <2>1. Stack.job \in submitted
    BY <1>1, LabelsApart DEF OneInv, StackInv
  <2> QED BY <1>1, <1>2, <1>3, <2>1, LabelsApart DEF OneInv, StackInv
<1>5. BackInv'
  BY <1>1, <1>2, <1>3, LabelsApart DEF OneInv, BackInv, Clean
<1>6. OwnerInv'
  BY <1>1, RunnerMoves DEF OneInv, OwnerInv
<1>7. /\ HoldInv' /\ AwaitInv' /\ WorkInv' /\ UnusedInv' /\ KnownInv'
      /\ Moves(k, "new", "queued")
  BY <1>1, <1>2, PushedCbOne
<1> QED BY <1>1, <1>4, <1>5, <1>6, <1>7 DEF OneInv

LEMMA JobNotifyOne ==
    ASSUME TypeOK, OneRunner, OneInv, JobNotify(TheRunner)
    PROVE  OneInv' /\ Stays
<1>1. /\ Where = "jobNotify" /\ Goto(TheRunner, "job") /\ crash' = "no"
      /\ UNCHANGED <<tasks, cur, exec, cbFiber, fstate, ctx, reg, submitted,
                     done>>
  BY DEF JobNotify, At, Where, fiberVars, jobVars, OneInv
<1>2. /\ Where' = "job" /\ Stack' = Stack /\ Mine' = Mine /\ Spare' = Spare
      /\ InHand = NoTask /\ InHand' = NoTask
  BY <1>1, RunnerMoves DEF Stack, Mine, Spare, InHand
<1>3. MyFiber' = MyFiber
  BY <1>2 DEF MyFiber
<1>4. StackInv'
  BY <1>1, <1>2, <1>3, LabelsApart DEF OneInv, StackInv
<1>5. BackInv'
  BY <1>1, <1>2, <1>3, LabelsApart DEF OneInv, BackInv, Clean
<1> QED BY <1>1, <1>2, <1>4, <1>5, BusyMove

\* An event that is awaited belongs to a held fiber no task resumes yet.
LEMMA TriggerOne ==
    ASSUME TypeOK, OneRunner, OneInv, NEW j \in Jobs,
           TriggerEvent(TheRunner, j)
    PROVE  OneInv' /\ Moves(j, "waiting", "queued")
<1> DEFINE f == reg[j]
<1>1. /\ Where = "events" /\ Goto(TheRunner, "evNotify") /\ crash' = "no"
      /\ f # None /\ Push(FiberTask(f))
      /\ reg' = [reg EXCEPT ![j] = None]
      /\ UNCHANGED <<cur, exec, cbFiber, fstate, ctx, submitted, done>>
  BY DEF TriggerEvent, At, Where, fiberVars, jobVars, OneInv
<1>l. {"events", "evNotify"} \cap (TaskLabels \cup {"notify"}) = {}
  BY DEF TaskLabels, BusyLabels, OnFiberLabels, BackLabels
<1>2. /\ Where' = "evNotify" /\ Stack' = Stack /\ Mine' = Mine
      /\ Spare' = Spare /\ InHand = NoTask /\ InHand' = NoTask
  BY <1>1, RunnerMoves DEF Stack, Mine, Spare, InHand
<1>3. f \in Jobs /\ Held(f) /\ ctx[f].job = j
  BY <1>1, FiberTypes DEF OneInv, AwaitInv
<1> HIDE DEF f
<1>4. j \in submitted \ done /\ Stack.job # j
  BY <1>3 DEF OneInv, HoldInv
<1>5. /\ FiberTask(f) \in Task
      /\ FiberTask(f).kind = "fiber" /\ FiberTask(f).id = f
  BY <1>3, TaskTypes, KindsOfTask
<1>6. FiberTask(f) \notin Work
  BY <1>1, <1>3, <1>5 DEF OneInv, WorkInv, Resumable, f
<1>7. /\ Work' = Work \cup {FiberTask(f)}
      /\ \A i, m \in DOMAIN tasks' : tasks'[i] = tasks'[m] => i = m
      /\ \A i \in DOMAIN tasks' : tasks'[i] # InHand'
  BY <1>1, <1>2, <1>5, <1>6, PushedTask DEF Push, OneInv, WorkInv
<1>8. reg'[j] = None /\ \A k \in Jobs \ {j} : reg'[k] = reg[k]
  BY <1>1, FiberTypes
<1>9. \A g \in Jobs : (Held(g)' <=> Held(g)) /\ (Clean(g)' <=> Clean(g))
  BY <1>1, <1>2 DEF Held, Clean
<1>10. \A k \in Jobs : Queued(k)' <=> Queued(k) \/ k = j
  BY <1>1, <1>3, <1>5, <1>7 DEF Queued, Serves
<1>11. ~Queued(j)
  <2>1. \A t \in Work : t.kind = "cb" => t.id # j
    BY <1>1 DEF OneInv, WorkInv, Startable, f
  <2>2. \A t \in Work : t.kind = "fiber" => ctx[t.id].job # j
    BY <1>1 DEF OneInv, WorkInv, Resumable, f
  <2> QED BY <2>1, <2>2 DEF Queued, Serves
<1>12. StackInv'
  BY <1>1, <1>2, <1>l, LabelsApart DEF OneInv, StackInv
<1>13. BackInv'
  BY <1>1, <1>2, <1>l, LabelsApart DEF OneInv, BackInv, Clean
<1>14. HoldInv'
  BY <1>1, <1>2, <1>9 DEF OneInv, HoldInv
<1>15. AwaitInv'
  <2>1. ASSUME NEW k \in Jobs, reg'[k] # None, NEW g, g = reg'[k]
        PROVE  Held(g)' /\ ctx'[g].job = k
    <3>1. k # j /\ g = reg[k]
      BY <1>8, <2>1
    <3>2. Held(g) /\ ctx[g].job = k /\ g \in Jobs
      BY <1>1, <1>8, <2>1, <3>1, FiberTypes DEF OneInv, AwaitInv
    <3> QED BY <1>1, <1>9, <3>2
  <2> QED BY <2>1 DEF AwaitInv, Held
<1>16. WorkInv'
  <2>1. \A k \in Jobs : reg[k] = None => reg'[k] = None
    BY <1>8
  <2>2. ASSUME NEW t \in Work, t.kind = "cb"
        PROVE  t = CbTask(t.id) /\ Startable(t.id)'
    <3>1. t = CbTask(t.id) /\ Startable(t.id) /\ t.id \in Jobs
      BY <2>2, LocalTypes, KindsOfTask DEF OneInv, WorkInv
    <3> QED BY <1>1, <1>2, <1>9, <2>1, <3>1 DEF Startable
  <2>3. ASSUME NEW t \in Work, t.kind = "fiber"
        PROVE  t = FiberTask(t.id) /\ Resumable(t.id)'
    <3>1. t = FiberTask(t.id) /\ Resumable(t.id) /\ t.id \in Jobs
      BY <2>3, LocalTypes, KindsOfTask DEF OneInv, WorkInv
    <3>2. ctx[t.id].job \in Jobs
      BY <3>1, FiberTypes DEF OneInv, HoldInv, Resumable
    <3> QED BY <1>1, <1>9, <2>1, <3>1, <3>2 DEF Resumable
  <2>4. ASSUME NEW t \in Work', t \notin Work
        PROVE  /\ t.kind # "cb" /\ t = FiberTask(t.id)
               /\ Resumable(t.id)'
    <3>1. PICK g \in Jobs : g = f
      BY <1>3
    <3>2. Held(g)' /\ reg'[ctx'[g].job] = None
      BY <1>1, <1>3, <1>8, <1>9, <3>1
    <3>3. t = FiberTask(g) /\ t.id = g /\ t.kind = "fiber"
      BY <1>5, <1>7, <2>4, <3>1
    <3> QED BY <3>2, <3>3 DEF Resumable
  <2> QED BY <1>7, <2>2, <2>3, <2>4 DEF WorkInv
<1>17. UnusedInv'
  <2>1. \A k \in Jobs : CbTask(k) \in Work' => CbTask(k) \in Work
    BY <1>3, <1>7, KindsOfTask
  <2> QED BY <1>1, <1>2, <1>9, <2>1 DEF OneInv, UnusedInv
<1>18. KnownInv'
  BY <1>1, <1>2, <1>8, <1>10, FiberTypes DEF OneInv, KnownInv
<1>19. Moves(j, "waiting", "queued")
  BY <1>1, <1>2, <1>4, <1>10, <1>11 DEF Moves, Stage
<1>20. OwnerInv'
  BY <1>1, RunnerMoves DEF OneInv, OwnerInv
<1> QED BY <1>1, <1>12, <1>13, <1>14, <1>15, <1>16, <1>17, <1>18, <1>19, <1>20
        DEF OneInv

-----------------------------------------------------------------------------
\* What a step is to the pool: of one callback, or of none.
Transitions == {<<"queued", "running">>, <<"running", "waiting">>,
                <<"waiting", "queued">>, <<"running", "done">>,
                <<"new", "queued">>}
PoolMoves == \E j \in Jobs : \E m \in Transitions : Moves(j, m[1], m[2])

LEMMA MovesOfPool ==
    ASSUME NEW j \in Jobs,
           NEW a, NEW b, <<a, b>> \in Transitions, Moves(j, a, b)
    PROVE  PoolMoves
<1> PICK m \in Transitions : m = <<a, b>>
  OBVIOUS
<1>1. Moves(j, m[1], m[2])
  OBVIOUS
<1> QED BY <1>1 DEF PoolMoves

LEMMA TransitionsAre ==
    /\ <<"queued", "running">> \in Transitions
    /\ <<"running", "waiting">> \in Transitions
    /\ <<"waiting", "queued">> \in Transitions
    /\ <<"running", "done">> \in Transitions
    /\ <<"new", "queued">> \in Transitions
BY DEF Transitions

Calm == UNCHANGED <<tasks, cur, exec, cbFiber, fstate, ctx, reg, submitted,
                    done, crash>>

LEMMA RunStepOne ==
    ASSUME TypeOK, OneRunner, OneInv, RunStep(TheRunner)
    PROVE  OneInv' /\ (Stays \/ PoolMoves) /\ Where \notin GoneLabels
<1> USE TransitionsAre, MovesOfPool
<1>g. \A l \in {"take", "notify", "dispatch", "after", "check", "setHold",
                "runStop", "runStop2"} : l \notin GoneLabels
  BY DEF GoneLabels
<1>1. CASE Take(TheRunner)
  BY <1>1, <1>g, TakeOne DEF Take, At, Where
<1>2. CASE RunNotify(TheRunner)
  BY <1>2, <1>g, RunNotifyOne DEF RunNotify, At, Where
<1>3. CASE DispatchCb(TheRunner)
  BY <1>3, <1>g, DispatchCbOne DEF DispatchCb, At, Where
<1>4. CASE DispatchFiber(TheRunner)
  BY <1>4, <1>g, DispatchFiberOne DEF DispatchFiber, At, Where
<1>5. CASE AfterSwapIn(TheRunner)
  BY <1>5, <1>g, AfterSwapInOne DEF AfterSwapIn, At, Where
<1>6. CASE CheckCb(TheRunner)
  BY <1>6, <1>g, CheckCbOne DEF CheckCb, At, Where
<1>7. CASE CheckFiber(TheRunner)
  BY <1>7, <1>g, CheckFiberOne DEF CheckFiber, At, Where
<1>8. CASE SetHold(TheRunner)
  BY <1>8, <1>g, SetHoldOne DEF SetHold, At, Where
<1>9. CASE RunCanStop(TheRunner)
  <2>1. /\ Calm /\ Where \in {"runStop", "runStop2"}
        /\ \E l \in {"runStop2", "join", "exited", "take"} :
               Goto(TheRunner, l)
    BY <1>9 DEF RunCanStop, ReadPending, ReadScheduler, At, Where, Calm,
                fiberVars, ioVars, jobVars
  <2>2. {"runStop", "runStop2", "join", "exited", "take"} \subseteq IdleOrMain
    BY DEF IdleOrMain, Labels, TaskLabels, BusyLabels, OnFiberLabels,
           BackLabels
  <2>3. crash' = "no" /\ Where \in IdleOrMain
    BY <2>1, <2>2 DEF Calm, OneInv
  <2> QED BY <1>g, <2>1, <2>2, <2>3, IdleMove DEF Calm
<1> QED BY <1>1, <1>2, <1>3, <1>4, <1>5, <1>6, <1>7, <1>8, <1>9 DEF RunStep

LEMMA JobStepOne ==
    ASSUME TypeOK, OneRunner, OneInv, JobStep(TheRunner)
    PROVE  OneInv' /\ (Stays \/ PoolMoves) /\ Where \notin GoneLabels
<1> USE TransitionsAre, MovesOfPool
<1>g. \A l \in {"job", "jobNotify", "yield", "term"} : l \notin GoneLabels
  BY DEF GoneLabels
<1>1. CASE AddEvent(TheRunner)
  BY <1>1, <1>g, AddEventOne DEF AddEvent, At, Where
<1>2. CASE YieldToHold(TheRunner)
  BY <1>2, <1>g, YieldOne DEF YieldToHold, At, Where
<1>3. CASE Return(TheRunner)
  BY <1>3, <1>g, ReturnOne DEF Return, At, Where
<1>4. CASE TermSwapOut(TheRunner)
  BY <1>4, <1>g, TermSwapOutOne DEF TermSwapOut, At, Where
<1>5. ASSUME NEW k \in Jobs, JobPush(TheRunner, k)
      PROVE  OneInv' /\ (Stays \/ PoolMoves) /\ Where \notin GoneLabels
  BY <1>5, <1>g, JobPushOne DEF JobPush, At, Where
<1>6. CASE JobNotify(TheRunner)
  BY <1>6, <1>g, JobNotifyOne DEF JobNotify, At, Where
<1> QED BY <1>1, <1>2, <1>3, <1>4, <1>5, <1>6 DEF JobStep

LEMMA IdleStepOne ==
    ASSUME TypeOK, OneRunner, OneInv, IdleStep(TheRunner)
    PROVE  OneInv' /\ (Stays \/ PoolMoves) /\ Where \notin GoneLabels
<1> USE TransitionsAre, MovesOfPool
<1> DEFINE Idly == {"goIdle", "idleStop", "idleStop2", "wait", "events",
                    "evNotify", "idleBack", "runStop"}
<1>g. /\ \A l \in Idly : l \notin GoneLabels
      /\ Idly \subseteq IdleOrMain
  BY DEF GoneLabels, IdleOrMain, Labels, TaskLabels, BusyLabels,
         OnFiberLabels, BackLabels
<1>1. ASSUME NEW j \in Jobs, TriggerEvent(TheRunner, j)
      PROVE  OneInv' /\ (Stays \/ PoolMoves) /\ Where \notin GoneLabels
  BY <1>1, <1>g, TriggerOne DEF TriggerEvent, At, Where
<1>2. ASSUME Calm, Where \in Idly, NEW l \in Idly, Goto(TheRunner, l)
      PROVE  OneInv' /\ (Stays \/ PoolMoves) /\ Where \notin GoneLabels
  <2>1. crash' = "no" /\ Where \in IdleOrMain /\ l \in IdleOrMain
    BY <1>2, <1>g DEF Calm, OneInv
  <2> HIDE DEF Idly
  <2> QED BY <1>2, <1>g, <2>1, IdleMove DEF Calm
<1>3. CASE \/ GoIdle(TheRunner) \/ IdleCanStop(TheRunner)
           \/ EpollWait(TheRunner) \/ EventNotify(TheRunner)
           \/ IdleYield(TheRunner) \/ IdleBack(TheRunner)
  <2>1. /\ Calm /\ Where \in Idly
        /\ \E l \in Idly : Goto(TheRunner, l)
    BY <1>3 DEF GoIdle, IdleCanStop, ReadPending, ReadScheduler, EpollWait,
                EventNotify, IdleYield, IdleBack, At, Where, Calm,
                fiberVars, ioVars, jobVars
  <2> QED BY <1>2, <2>1
<1>4. CASE \/ DrainEventfd(TheRunner)
           \/ \E j \in Jobs : SkipEvent(TheRunner, j)
  <2>1. Calm /\ pc' = pc /\ Where = "events"
    BY <1>4 DEF DrainEventfd, SkipEvent, At, Where, Calm, fiberVars, jobVars
  <2>2. Goto(TheRunner, "events")
    BY <2>1, RunnerIsProc, FiberTypes DEF Goto, Where
  <2> QED BY <1>2, <2>1, <2>2
<1> QED BY <1>1, <1>3, <1>4 DEF IdleStep

LEMMA MainIsRunner == OneRunner => (UseMain <=> TheRunner = Main)
BY ProcAssumption DEF OneRunner, Runners

LEMMA MainPushOne ==
    ASSUME TypeOK, OneRunner, OneInv, NEW k \in Jobs, MainPush(k)
    PROVE  OneInv' /\ Moves(k, "new", "queued")
<1>1. /\ pc[Main] = "main" /\ Goto(Main, "mainNotify") /\ crash' = "no"
      /\ k \notin submitted /\ Push(CbTask(k))
      /\ submitted' = submitted \cup {k}
      /\ UNCHANGED <<cur, exec, cbFiber, fstate, ctx, reg, done>>
  BY DEF MainPush, At, fiberVars, ioVars, OneInv
<1>2. Stack' = Stack /\ Mine' = Mine /\ Spare' = Spare
  BY <1>1 DEF Stack, Mine, Spare
<1>3. MyFiber' = MyFiber
  BY <1>2 DEF MyFiber
<1>l. /\ {"main", "mainNotify"} \cap (TaskLabels \cup {"notify"}) = {}
      /\ "yield" \in TaskLabels
  BY DEF TaskLabels, BusyLabels, OnFiberLabels, BackLabels
<1>4. \/ /\ Where' = Where
         /\ pc'[Main] = "mainNotify"
         /\ \A q \in Procs \ {TheRunner} :
                pc'[q] = pc[q] \/ pc'[q] = "mainNotify"
      \/ /\ Where = "main" /\ Where' = "mainNotify"
         /\ \A q \in Procs \ {TheRunner} : pc'[q] = pc[q]
  BY <1>1, RunnerIsProc, RunnersAreProcs, FiberTypes DEF Goto, Where
<1>5. InHand' = InHand /\ (Where # "yield" \/ Where' = Where)
  BY <1>2, <1>4, <1>l DEF InHand
<1>6. StackInv'
  <2>1. Where \in OnFiberLabels => Stack.job \in submitted
    BY DEF OneInv, StackInv
  <2> QED BY <1>1, <1>2, <1>3, <1>4, <1>l, <2>1, LabelsApart
          DEF OneInv, StackInv
<1>7. BackInv'
  BY <1>1, <1>2, <1>3, <1>4, <1>l, LabelsApart
  DEF OneInv, BackInv, Clean, Held, Ended
<1>8. OwnerInv'
  BY <1>1, <1>4 DEF OneInv, OwnerInv
<1>9. /\ HoldInv' /\ AwaitInv' /\ WorkInv' /\ UnusedInv' /\ KnownInv'
      /\ Moves(k, "new", "queued")
  BY <1>1, <1>5, PushedCbOne
<1> QED BY <1>1, <1>6, <1>7, <1>8, <1>9 DEF OneInv

LEMMA OwnerMoveOne ==
    ASSUME TypeOK, OneRunner, OneInv, Calm,
           NEW l, Goto(Main, l),
           pc[Main] \in {"main", "mainNotify", "join"},
           \/ l \in {"main", "mainNotify", "join", "stopped"}
           \/ l = "take" /\ TheRunner = Main
    PROVE  OneInv' /\ Stays
<1>1. crash' = "no"
  BY DEF Calm, OneInv
<1>l. {"main", "mainNotify", "join", "stopped", "take"} \subseteq IdleOrMain
  BY DEF IdleOrMain, Labels, TaskLabels, BusyLabels, OnFiberLabels, BackLabels
<1>2. CASE TheRunner = Main
  <2>1. Where \in IdleOrMain /\ l \in IdleOrMain /\ Goto(TheRunner, l)
    BY <1>2, <1>l DEF Where
  <2> QED BY <1>1, <2>1, IdleMove DEF Calm
<1>3. CASE TheRunner # Main
  <2>1. /\ Where' = Where
        /\ \A q \in Procs \ {TheRunner} :
               pc'[q] \in {"main", "mainNotify", "join", "stopped"}
    BY <1>3, RunnerIsProc, FiberTypes DEF Goto, Where, OneInv, OwnerInv
  <2> QED BY <1>1, <2>1, OthersStep DEF Calm
<1> QED BY <1>2, <1>3

LEMMA MainStepOne ==
    ASSUME TypeOK, OneRunner, OneInv, MainStep
    PROVE  /\ OneInv' /\ (Stays \/ PoolMoves)
           /\ pc[Main] # "stopped"
           /\ pc'[Main] = "stopped" => Join
<1>1. ASSUME NEW k \in Jobs, MainPush(k)
      PROVE  /\ OneInv' /\ (Stays \/ PoolMoves)
             /\ pc[Main] # "stopped" /\ pc'[Main] # "stopped"
  <2>1. PoolMoves /\ OneInv'
    BY <1>1, MainPushOne, TransitionsAre, MovesOfPool
  <2>2. pc[Main] = "main" /\ Goto(Main, "mainNotify")
    BY <1>1 DEF MainPush, At
  <2> QED BY <2>1, <2>2, RunnersAreProcs, FiberTypes DEF Goto
<1>2. CASE MainNotify \/ Stop
  <2> DEFINE l == IF MainNotify THEN "main"
                  ELSE IF UseMain THEN "take" ELSE "join"
  <2>1. /\ Calm /\ pc[Main] \in {"main", "mainNotify"} /\ Goto(Main, l)
    BY <1>2 DEF MainNotify, Stop, At, Calm, fiberVars, ioVars, jobVars
  <2>2. l \in {"main", "join"} \/ (l = "take" /\ TheRunner = Main)
    BY MainIsRunner
  <2> HIDE DEF l
  <2>3. OneInv' /\ Stays
    BY <2>1, <2>2, OwnerMoveOne
  <2>4. pc'[Main] = l
    BY <2>1, RunnersAreProcs, FiberTypes DEF Goto
  <2> QED BY <2>1, <2>2, <2>3, <2>4
<1>3. CASE Join
  <2>1. Calm /\ pc[Main] = "join" /\ Goto(Main, "stopped")
    BY <1>3 DEF Join, At, Calm, fiberVars, ioVars, jobVars
  <2> QED BY <1>3, <2>1, OwnerMoveOne
<1> QED BY <1>1, <1>2, <1>3 DEF MainStep

LEMMA StillOne ==
    ASSUME TypeOK, OneRunner, OneInv, Calm, pc' = pc
    PROVE  OneInv' /\ Stays
<1>1. Where' = Where /\ crash' = "no"
  BY DEF Where, Calm, OneInv
<1>2. \A q \in Procs \ {TheRunner} :
          pc'[q] \in {"main", "mainNotify", "join", "stopped"}
  BY DEF OneInv, OwnerInv
<1> QED BY <1>1, <1>2, OthersStep DEF Calm

LEMMA NextOne ==
    ASSUME TypeOK, OneRunner, OneInv, [Next]_vars
    PROVE  OneInv'
<1>1. ASSUME NEW p \in Runners, RunStep(p) \/ JobStep(p) \/ IdleStep(p)
      PROVE  OneInv'
  BY <1>1, RunnerIsProc, RunStepOne, JobStepOne, IdleStepOne
<1>2. ASSUME NEW j \in Jobs, FdReady(j)
      PROVE  OneInv'
  BY <1>2, StillOne DEF FdReady, Calm, fiberVars, jobVars
<1>3. CASE Over \/ UNCHANGED vars
  BY <1>3, StillOne DEF Over, vars, Calm
<1> QED BY <1>1, <1>2, <1>3, MainStepOne DEF Next

LEMMA OneCorrect ==
    ASSUME OneRunner
    PROVE  Spec => []OneInv
<1>1. Init => OneInv
  BY InitOne
<1>2. TypeOK /\ OneInv /\ [Next]_vars => OneInv'
  BY NextOne
<1> QED BY <1>1, <1>2, TypeCorrect, PTL DEF Spec

\* With one thread no fiber is resumed on a second stack or after its end
\* (SwapIn, ContextFunc), and the assertions of YieldToHold and addEvent on the
\* fiber's state hold.
THEOREM OneThreadNeverAborts ==
    ASSUME OneRunner
    PROVE  Spec => [](crash = "no")
<1>1. OneInv => crash = "no"
  BY DEF OneInv
<1> QED BY <1>1, OneCorrect, PTL

-----------------------------------------------------------------------------
\* Steps of the owner and of the runner do not stop the scheduler, but Join.
LEMMA RunnerPc ==
    ASSUME TypeOK, OneRunner,
           RunStep(TheRunner) \/ JobStep(TheRunner) \/ IdleStep(TheRunner)
    PROVE  pc' = pc \/ \E l \in Labels \ {"stopped"} : Goto(TheRunner, l)
<1>1. CASE RunStep(TheRunner)
  <2>1. \E l \in {"goIdle", "notify", "dispatch", "job", "take", "check",
                  "setHold", "runStop2", "join", "exited"} :
            Goto(TheRunner, l)
    BY <1>1 DEF RunStep, Take, RunNotify, DispatchCb, DispatchFiber,
                AfterSwapIn, CheckCb, CheckFiber, SetHold, RunCanStop,
                ReadPending, ReadScheduler
  <2> QED BY <2>1 DEF Labels
<1>2. CASE JobStep(TheRunner)
  <2>1. \E l \in {"yield", "after", "term", "jobNotify", "job"} :
            Goto(TheRunner, l)
    BY <1>2 DEF JobStep, AddEvent, YieldToHold, Return, TermSwapOut, JobPush,
                JobNotify
  <2> QED BY <2>1 DEF Labels
<1>3. CASE IdleStep(TheRunner)
  <2>1. \/ pc' = pc
        \/ \E l \in {"idleStop", "idleStop2", "wait", "idleBack", "events",
                     "evNotify", "runStop"} : Goto(TheRunner, l)
    BY <1>3 DEF IdleStep, GoIdle, IdleCanStop, ReadPending, ReadScheduler,
                EpollWait, DrainEventfd, SkipEvent, TriggerEvent, EventNotify,
                IdleYield, IdleBack
  <2> QED BY <2>1 DEF Labels
<1> QED BY <1>1, <1>2, <1>3

LEMMA RunnerKeepsOpen ==
    ASSUME TypeOK, OneRunner, LeaveInv, Where \notin GoneLabels,
           RunStep(TheRunner) \/ JobStep(TheRunner) \/ IdleStep(TheRunner)
    PROVE  pc[Main] # "stopped" /\ pc'[Main] # "stopped"
<1>1. pc[Main] # "stopped"
  BY StillOpen
<1>2. pc'[Main] # "stopped"
  <2>1. CASE pc' = pc
    BY <1>1, <2>1
  <2>2. ASSUME NEW l \in Labels \ {"stopped"}, Goto(TheRunner, l)
        PROVE  pc'[Main] # "stopped"
    BY <1>1, <2>2, RunnerIsProc, RunnersAreProcs, FiberTypes DEF Goto
  <2> QED BY <2>1, <2>2, RunnerPc
<1> QED BY <1>1, <1>2

\* In the pool a callback is what Stage says.
StagesInv == \A j \in Jobs : StatusOf(j) = Stage(j)

\* A step that moves no callback is a step of the pool when nothing closes.
LEMMA PoolStays ==
    ASSUME StagesInv, StagesInv', Stays,
           (pc[Main] = "stopped") <=> (pc'[Main] = "stopped")
    PROVE  [Pool!PoolNext]_<<[j \in Jobs |-> StatusOf(j)],
                             pc[Main] = "stopped">>
<1>1. \A j \in Jobs : StatusOf(j)' = StatusOf(j)
  BY DEF StagesInv, Stays
<1>2. (pc[Main] = "stopped") = (pc'[Main] = "stopped")
  OBVIOUS
<1>3. [j \in Jobs |-> StatusOf(j)'] = [j \in Jobs |-> StatusOf(j)]
  BY <1>1
<1> QED BY <1>2, <1>3

LEMMA PoolChanges ==
    ASSUME OneRunner, StagesInv, StagesInv', PoolMoves,
           pc[Main] # "stopped", pc'[Main] # "stopped"
    PROVE  Pool!PoolNext
<1>1. PICK j \in Jobs, m \in Transitions : Moves(j, m[1], m[2])
  BY DEF PoolMoves
<1>2. \A k \in Jobs : StatusOf(k) = Stage(k)
  BY DEF StagesInv
<1>3. \A k \in Jobs : StatusOf(k)' = Stage(k)'
  BY DEF StagesInv
<1>4. /\ StatusOf(j) = m[1] /\ StatusOf(j)' = m[2]
      /\ \A k \in Jobs \ {j} : StatusOf(k)' = StatusOf(k)
  BY <1>1, <1>2, <1>3 DEF Moves
<1>5. Pool!Change(j, m[1], m[2])
  <2>1. [k \in Jobs |-> StatusOf(k)']
            = [[k \in Jobs |-> StatusOf(k)] EXCEPT ![j] = m[2]]
    BY <1>4
  <2>2. [k \in Jobs |-> StatusOf(k)][j] = m[1]
    BY <1>4
  <2>3. (pc'[Main] = "stopped") = (pc[Main] = "stopped")
    OBVIOUS
  <2> QED BY <2>1, <2>2, <2>3 DEF Pool!Change
<1>6. m = <<"queued", "running">>
          => Cardinality(Pool!InStatus("running")) < Cardinality(Runners)
  <2> SUFFICES ASSUME m = <<"queued", "running">>
               PROVE  Cardinality(Pool!InStatus("running"))
                          < Cardinality(Runners)
    OBVIOUS
  <2>1. Stage(j)' = "running" /\ Stage(j) = "queued"
    BY <1>1 DEF Moves
  <2>2. \A k \in Jobs : Stage(k)' = "running" => k = j
    BY <2>1 DEF Stage
  <2>3. \A k \in Jobs : StatusOf(k) # "running"
    BY <1>1, <1>2, <2>1, <2>2 DEF Moves
  <2>4. Pool!InStatus("running") = {}
    BY <2>3 DEF Pool!InStatus
  <2>5. Cardinality({}) = 0 /\ Cardinality({TheRunner}) = 1
    BY FS_EmptySet, FS_Singleton
  <2> QED BY <2>4, <2>5 DEF OneRunner
<1>7. \/ Pool!Submit(j) \/ Pool!StartJob(j) \/ Pool!Suspend(j)
      \/ Pool!Wake(j) \/ Pool!Finish(j)
  <2>1. CASE m = <<"queued", "running">>
    <3>1. Pool!Change(j, "queued", "running")
      BY <1>5, <2>1
    <3>2. Pool!Cardinality(Pool!InStatus("running"))
              = Cardinality(Pool!InStatus("running"))
      BY Zenon DEF Pool!Cardinality, Cardinality
    <3>3. Pool!Cardinality(Pool!InStatus("running")) < Cardinality(Runners)
      BY <1>6, <2>1, <3>2
    <3> QED BY <3>1, <3>3 DEF Pool!StartJob
  <2>2. CASE m = <<"running", "waiting">>
    BY <1>5, <2>2 DEF Pool!Suspend
  <2>3. CASE m = <<"waiting", "queued">>
    BY <1>5, <2>3 DEF Pool!Wake
  <2>4. CASE m = <<"running", "done">>
    BY <1>5, <2>4 DEF Pool!Finish
  <2>5. CASE m = <<"new", "queued">>
    BY <1>5, <2>5 DEF Pool!Submit
  <2> QED BY <2>1, <2>2, <2>3, <2>4, <2>5 DEF Transitions
<1> QED BY <1>7 DEF Pool!PoolNext

\* The pool closes when Stop has joined its thread: every callback that was
\* handed to pushtask has returned then.
LEMMA PoolCloses ==
    ASSUME TypeOK, OneRunner, OneInv, StagesInv, StagesInv', LeaveInv',
           StopIsClean', Join
    PROVE  Pool!PoolNext
<1>1. /\ pc[Main] = "join" /\ Goto(Main, "stopped")
      /\ UNCHANGED <<tasks, cur, exec, ctx, reg, submitted, done>>
  BY DEF Join, At, fiberVars, ioVars, jobVars
<1>2. pc'[Main] = "stopped"
  BY <1>1, RunnersAreProcs, FiberTypes DEF Goto
<1>3. /\ tasks = <<>> /\ \A j \in Jobs : reg[j] = None
      /\ Stack.fiber = None
  BY <1>1, <1>2, RunnerIsProc DEF StopIsClean, Awaited, Stack
<1>4. Where \in GoneLabels
  <2>1. Where' \in GoneLabels
    BY <1>2, RunnerIsProc DEF LeaveInv, AllGone, Where
  <2> QED BY <1>1, <2>1, RunnerIsProc, FiberTypes
          DEF Goto, Where, GoneLabels
<1>5. Stack.job = None
  BY <1>4 DEF OneInv, StackInv, GoneLabels, OnFiberLabels
<1>6. InHand = NoTask
  BY <1>4 DEF InHand, GoneLabels
<1>7. Work = {}
  BY <1>3, <1>6 DEF Work
<1>8. \A j \in Jobs : Stage(j) \in {"new", "done"}
  BY <1>3, <1>5, <1>7, JobAssumption, FiberTypes
  DEF Stage, Queued, OneInv, KnownInv
<1>9. \A j \in Jobs : StatusOf(j) \in {"new", "done"}
  BY <1>8 DEF StagesInv
<1>10. Stays
  <2>1. Stack' = Stack /\ Work' = Work
    <3>1. Where' \in GoneLabels
      BY <1>2, RunnerIsProc DEF LeaveInv, AllGone, Where
    <3>2. InHand' = NoTask
      BY <3>1 DEF InHand, GoneLabels
    <3> QED BY <1>1, <1>6, <3>2 DEF Stack, Work
  <2> QED BY <1>1, <2>1 DEF Stays, Stage, Queued, Serves
<1>11. \A j \in Jobs : StatusOf(j)' = StatusOf(j)
  BY <1>10 DEF Stays, StagesInv
<1>12. [j \in Jobs |-> StatusOf(j)'] = [j \in Jobs |-> StatusOf(j)]
  BY <1>11
<1>13. Pool!InStatus("new") \cup Pool!InStatus("done") = Jobs
  BY <1>9 DEF Pool!InStatus
<1>14. Pool!Close
  BY <1>1, <1>2, <1>12, <1>13 DEF Pool!Close
<1> QED BY <1>14 DEF Pool!PoolNext

LEMMA InitPool == OneRunner /\ Init => Pool!PoolInit
<1> SUFFICES ASSUME OneRunner, Init PROVE Pool!PoolInit
  OBVIOUS
<1>1. \A j \in Jobs : StatusOf(j) = "new"
  BY DEF Init, StatusOf
<1>2. pc[Main] # "stopped"
  BY RunnersAreProcs DEF Init
<1>3. [j \in Jobs |-> StatusOf(j)] = [j \in Jobs |-> "new"]
  BY <1>1
<1> QED BY <1>2, <1>3 DEF Pool!PoolInit

LEMMA NextPool ==
    ASSUME TypeOK, OneRunner, OneInv, StagesInv, StagesInv', LeaveInv,
           LeaveInv', StopIsClean', [Next]_vars
    PROVE  [Pool!PoolNext]_<<[j \in Jobs |-> StatusOf(j)],
                             pc[Main] = "stopped">>
<1>1. ASSUME NEW p \in Runners, RunStep(p) \/ JobStep(p) \/ IdleStep(p)
      PROVE  [Pool!PoolNext]_<<[j \in Jobs |-> StatusOf(j)],
                               pc[Main] = "stopped">>
  <2>1. RunStep(TheRunner) \/ JobStep(TheRunner) \/ IdleStep(TheRunner)
    BY <1>1, RunnerIsProc
  <2>2. (Stays \/ PoolMoves) /\ Where \notin GoneLabels
    BY <2>1, RunStepOne, JobStepOne, IdleStepOne
  <2>3. pc[Main] # "stopped" /\ pc'[Main] # "stopped"
    BY <2>1, <2>2, RunnerKeepsOpen
  <2>4. CASE Stays
    BY <2>3, <2>4, PoolStays
  <2>5. CASE PoolMoves
    BY <2>3, <2>5, PoolChanges
  <2> QED BY <2>2, <2>4, <2>5
<1>2. CASE MainStep
  <2>1. /\ Stays \/ PoolMoves
        /\ pc[Main] # "stopped" /\ (pc'[Main] = "stopped" => Join)
    BY <1>2, MainStepOne
  <2>2. CASE Join
    BY <2>2, PoolCloses
  <2>3. CASE Stays /\ pc'[Main] # "stopped"
    BY <2>1, <2>3, PoolStays
  <2>4. CASE PoolMoves /\ pc'[Main] # "stopped"
    BY <2>1, <2>4, PoolChanges
  <2> QED BY <2>1, <2>2, <2>3, <2>4
<1>3. ASSUME NEW j \in Jobs, FdReady(j)
      PROVE  Stays /\ pc' = pc
  BY <1>3, StillOne DEF FdReady, Calm, fiberVars, jobVars
<1>4. CASE Over \/ UNCHANGED vars
  <2>1. Stays /\ pc' = pc
    BY <1>4, StillOne DEF Over, vars, Calm
  <2> QED BY <2>1, PoolStays
<1> QED BY <1>1, <1>2, <1>3, <1>4, PoolStays DEF Next

\* With one thread no callback is lost or run twice, and Stop returns only
\* when the last one has returned, whatever the callbacks hand to pushtask and
\* wait for and whenever the owner calls Stop.
THEOREM OneThreadImplementsPool ==
    ASSUME OneRunner
    PROVE  Spec => ImplementsPool
<1>1. Init => Pool!PoolInit
  BY InitPool
<1>2. /\ TypeOK /\ OneInv /\ StagesInv /\ StagesInv' /\ LeaveInv
      /\ LeaveInv' /\ StopIsClean' /\ [Next]_vars
      => [Pool!PoolNext]_<<[j \in Jobs |-> StatusOf(j)],
                           pc[Main] = "stopped">>
  BY NextPool
<1>3. Spec => []OneInv
  BY OneCorrect
<1>4. TypeOK /\ OneInv => StagesInv
  BY StageIsStatus DEF StagesInv
<1>5. DrainInv => LeaveInv
  BY DEF DrainInv
<1> QED BY <1>1, <1>2, <1>3, <1>4, <1>5, TypeCorrect, DrainCorrect, StopClean,
           PTL DEF Spec, ImplementsPool, Pool!PoolSpec

\* Run gives a fiber to a new callback in two places only, and neither takes
\* one that is on hold.
LEMMA NextKeepsHeld ==
    ASSUME TypeOK, OneRunner, OneInv, [Next]_vars,
           NEW f \in Jobs, Held(f)
    PROVE  ctx'[f].at # "entry"
<1>1. ctx[f].at = "yield" /\ fstate[f] = "HOLD"
  BY DEF OneInv, HoldInv, Held
<1>2. CASE UNCHANGED ctx
  BY <1>1, <1>2
<1>3. ASSUME NEW g \in Jobs, NEW c \in {"yield", "exit"}, NEW j,
             ctx' = [ctx EXCEPT ![g] = [at |-> c, job |-> j]]
      PROVE  ctx'[f].at # "entry"
  BY <1>1, <1>3, FiberTypes
<1>4. ASSUME NEW g \in Jobs \ {f}, NEW c, ctx' = [ctx EXCEPT ![g] = c]
      PROVE  ctx'[f].at # "entry"
  BY <1>1, <1>4, FiberTypes
<1>5. CASE DispatchCb(TheRunner)
  <2> DEFINE g == IF Spare = None THEN Mine.id ELSE Spare
  <2>1. /\ Where = "dispatch" /\ Mine.kind = "cb" /\ Goto(TheRunner, "job")
        /\ ctx' = [ctx EXCEPT ![g] = [at |-> "entry", job |-> Mine.id]]
        /\ UNCHANGED <<tasks, cur>>
    BY <1>5 DEF DispatchCb, At, Where, Mine, Spare
  <2>2. Mine \in Work /\ Mine \in Task
    BY <2>1, Dispatched
  <2>3. Mine.id \in Jobs /\ Clean(Mine.id)
    BY <2>1, <2>2, KindsOfTask DEF OneInv, WorkInv, UnusedInv
  <2>4. Spare # None => Clean(Spare) /\ Spare \in Jobs
    BY <2>1, LocalTypes, LabelsApart DEF OneInv, BackInv
  <2>5. g \in Jobs \ {f}
    BY <1>1, <2>3, <2>4 DEF Clean
  <2> QED BY <1>4, <2>1, <2>5
<1>6. CASE CheckCb(TheRunner)
  <2>1. Where = "check" /\ Mine.kind = "cb"
    BY <1>6 DEF CheckCb, At, Where, Mine
  <2>2. Spare \in Jobs
    BY <2>1, LabelsApart DEF MyFiber, OneInv, BackInv
  <2>3. CASE fstate[Spare] = "TERM"
    <3>1. ctx' = [ctx EXCEPT ![Spare] = [at |-> "entry", job |-> None]]
      BY <1>6, <2>3 DEF CheckCb, Spare
    <3> QED BY <1>1, <1>4, <2>2, <2>3, <3>1
  <2>4. CASE fstate[Spare] # "TERM"
    BY <1>2, <1>6, <2>4 DEF CheckCb, Spare
  <2> QED BY <2>3, <2>4
<1>7. CASE YieldToHold(TheRunner) \/ TermSwapOut(TheRunner)
  <2>1. /\ Where \in OnFiberLabels
        /\ \E c \in {"yield", "exit"} : \E j :
               ctx' = [ctx EXCEPT ![Stack.fiber] = [at |-> c, job |-> j]]
    BY <1>7, LabelsApart DEF YieldToHold, TermSwapOut, At, Where, Stack
  <2>2. Stack.fiber \in Jobs
    BY <2>1, LocalTypes DEF OneInv, StackInv, OnStack
  <2> QED BY <1>3, <2>1, <2>2
<1>8. ASSUME NEW p \in Runners, RunStep(p)
      PROVE  ctx'[f].at # "entry"
  <2>1. RunStep(TheRunner)
    BY <1>8, RunnerIsProc
  <2>2. \/ UNCHANGED ctx \/ DispatchCb(TheRunner) \/ CheckCb(TheRunner)
    BY <2>1 DEF RunStep, Take, RunNotify, DispatchFiber, AfterSwapIn,
                CheckFiber, SetHold, RunCanStop, ReadPending, ReadScheduler,
                fiberVars
  <2> QED BY <1>2, <1>5, <1>6, <2>2
<1>9. ASSUME NEW p \in Runners, JobStep(p)
      PROVE  ctx'[f].at # "entry"
  <2>1. JobStep(TheRunner)
    BY <1>9, RunnerIsProc
  <2>2. \/ UNCHANGED ctx
        \/ YieldToHold(TheRunner) \/ TermSwapOut(TheRunner)
    BY <2>1 DEF JobStep, AddEvent, Return, JobPush, JobNotify, fiberVars
  <2> QED BY <1>2, <1>7, <2>2
<1>10. ASSUME NEW p \in Runners, IdleStep(p)
       PROVE  UNCHANGED ctx
  BY <1>10 DEF IdleStep, GoIdle, IdleCanStop, ReadPending, ReadScheduler,
               EpollWait, DrainEventfd, SkipEvent, TriggerEvent, EventNotify,
               IdleYield, IdleBack, fiberVars
<1>11. CASE MainStep
  BY <1>2, <1>11 DEF MainStep, MainPush, MainNotify, Stop, Join, fiberVars
<1>12. ASSUME NEW j \in Jobs, FdReady(j)
       PROVE  UNCHANGED ctx
  BY <1>12 DEF FdReady, fiberVars
<1>13. CASE Over \/ UNCHANGED vars
  BY <1>2, <1>13 DEF Over, vars, fiberVars
<1> QED BY <1>2, <1>8, <1>9, <1>10, <1>11, <1>12, <1>13 DEF Next

\* With one thread Run never Resets a fiber whose callback waits.
THEOREM OneThreadReusesNoHeldFiber ==
    ASSUME OneRunner
    PROVE  Spec => HeldFiberNotReused
<1>1. TypeOK /\ OneInv /\ [Next]_vars
          => [\A f \in Jobs : ctx[f].at = "yield" /\ ~OnCpu(f)
                                  => ctx'[f].at # "entry"]_vars
  <2> SUFFICES ASSUME TypeOK, OneInv, [Next]_vars,
                      NEW f \in Jobs, ctx[f].at = "yield", ~OnCpu(f)
               PROVE  ctx'[f].at # "entry"
    OBVIOUS
  <2>1. Held(f)
    BY RunnerIsProc DEF Held, Stack, OnCpu
  <2> QED BY <2>1, NextKeepsHeld
<1> QED BY <1>1, OneCorrect, TypeCorrect, PTL DEF Spec, HeldFiberNotReused
==============================================================================
