------------------------------ MODULE LogsProof ------------------------------
(***************************************************************************)
(* Proofs about modules Config and Logs: listeners know the last value of  *)
(* their variable, the loggers are what the variable "logs" says, and no   *)
(* fatal event gets lost unless root is redefined, for every number of     *)
(* variables, values, files, listeners, loggers and threads.               *)
(*                                                                         *)
(* Two invariants are inductive one upon the other: who holds the locks    *)
(* and what listeners were told (ConfigInv), and which loggers follow what *)
(* the listener of "logs" was told, and how far it is with the one it is at*)
(* (LoggersInv).                                                           *)
(*                                                                         *)
(* Module LogPattern has no state.  A pattern is taken apart from the left *)
(* and put together from the right: CutAt says of every place where a      *)
(* piece begins that the loop gets the pieces from there on, whatever      *)
(* comes first.                                                            *)
(***************************************************************************)
EXTENDS LogsProps, SequenceTheorems, WellFoundedInduction, TLAPS

Labels     == {"idle", "entry", "compare", "lock", "notify", "slow", "waits", "again"}
InSetValue == {"compare", "lock", "notify", "slow", "waits", "again"}
Locking    == {"notify", "slow", "waits", "again"}

\* What a thread has yet to apply: entries of a file.
IsEntry(e) == e.var \in Vars /\ e.val \in Values[e.var] \cup {Bad}
IsJob(j) ==
    /\ Len(j) \in Nat /\ j = [i \in 1..Len(j) |-> j[i]]
    /\ \A i \in 1..Len(j) : IsEntry(j[i])

ConfigType ==
    /\ DOMAIN value = Vars
    /\ \A v \in Vars : value[v] \in Values[v] \cup {None}
    /\ hooks \in [Vars -> SUBSET Listeners]
    /\ readers \in [Vars -> SUBSET Loaders]
    /\ writer \in [Vars -> Loaders \cup {None}]
    /\ pc \in [Loaders -> Labels]
    /\ DOMAIN job = Loaders
    /\ \A t \in Loaders : IsJob(job[t])
    /\ todo \in [Loaders -> SUBSET Listeners]
    /\ DOMAIN seen = Vars /\ \A v \in Vars : DOMAIN seen[v] = Listeners

\* The write lock excludes readers, and who has it is calling listeners.
HeldInv ==
    /\ \A v \in Vars : writer[v] # None => readers[v] = {}
    /\ \A v \in Vars, t \in Loaders :
           writer[v] = t => pc[t] \in Locking /\ Entry(t).var = v

\* A thread in setValue has a value for a variable there is.
EntryInv ==
    \A t \in Loaders : pc[t] \in InSetValue =>
        job[t] # <<>> /\ value[Entry(t).var] # None /\ Entry(t).val # Bad

\* The listeners it has yet to call are the variable's, and stay so.
TodoInv ==
    \A t \in Loaders : pc[t] \in Locking =>
        writer[Entry(t).var] = t /\ todo[t] \subseteq hooks[Entry(t).var]

\* Slow listens to its variable only, from the beginning.
SlowInv ==
    /\ \A v \in Vars : hooks[v] # {} => value[v] # None
    /\ \A v \in Vars : Slow \in hooks[v] <=> v = SlowVar /\ value[v] # None
    /\ \A t \in Loaders : pc[t] = "slow" => Entry(t).var = SlowVar /\ Slow \notin todo[t]

LockInv == HeldInv /\ EntryInv /\ TodoInv /\ SlowInv

\* A call that a listener makes ends before the listener returns.
NestInv ==
    \A t \in Loaders : Inner(t) \in Loaders /\ pc[t] # "waits" => pc[Inner(t)] = "idle"

ConfigInv == ConfigType /\ LockInv /\ NestInv /\ ListenersUpToDate

-----------------------------------------------------------------------------
\* A formatter that a definition sets.
Sound(formatter) == formatter \notin {""} \cup Faulty

\* A logger is what its definition says.
Follows(n, logger, def) ==
    /\ def # None =>
           /\ logger # None /\ logger.level = def.level /\ logger.appenders = def.appenders
           /\ Sound(def.formatter) => logger.formatter = def.formatter
    /\ def = None /\ logger # None =>
           logger = Fresh(n) \/ (logger.level = Unknown /\ logger.appenders = {})

\* The listener is at a logger, and has done to it what comes before its next setter.
HalfDone(logger, def, op, adds) ==
    /\ logger # None
    /\ op = "format" => def # None /\ def.formatter # "" /\ logger.level = def.level
    /\ op \in {"clear", "add"} =>
           /\ logger.level = IF def = None THEN Unknown ELSE def.level
           /\ def # None => (Sound(def.formatter) => logger.formatter = def.formatter)
    /\ op = "add" => def # None /\ logger.appenders \cup adds = def.appenders

Ops  == {"level", "format", "clear", "add"}
Task == [change : SUBSET Names, gone : SUBSET Names, name : Names \cup {None},
         op : Ops, adds : SUBSET Appender]

At == [step : {"idle", "check", "deliver", "root", "toRoot", "done"},
       name : Names \cup {None}, level : Debug..Unknown]

LoggersType ==
    /\ loggers \in [Names -> Logger \cup {None}] /\ loggers[Root] # None
    /\ \A n \in Names : loggers[n] # None => loggers[n].formatter \notin Faulty
    /\ task \in Task
    /\ at \in [Writers -> At]
    /\ heard \in [Writers -> SUBSET Appender]
    /\ \A w \in Writers : at[w].step # "idle" =>
           at[w].name \in Names /\ loggers[at[w].name] # None

TaskInv ==
    /\ (\A t \in Loaders : pc[t] # "slow") => task = NoTask
    /\ \A n \in Names \ (task.change \cup task.gone) :
           ~(Busy /\ n = task.name) => Follows(n, loggers[n], Told(n))
    /\ Busy => /\ task.name \in Names \ (task.change \cup task.gone)
               /\ HalfDone(loggers[task.name], Told(task.name), task.op, task.adds)

LoggersInv == LoggersType /\ TaskInv

\* Appenders let events of the highest level pass.
Loud(appenders) == \A a \in appenders : a.level <= Fatal
HeardInv ==
    /\ Loud(task.adds)
    /\ \A n \in Names : loggers[n] # None =>
           (n # Root => loggers[n].root) /\ Loud(loggers[n].appenders)

-----------------------------------------------------------------------------
\* What is left of a job is a job.
LEMMA JobTail ==
  ASSUME NEW j, IsJob(j), j # <<>>
  PROVE  IsJob(Tail(j)) /\ IsEntry(j[1])
<1> DEFINE S == {j[i] : i \in 1..Len(j)}
<1>1. j \in Seq(S)
  <2>1. j \in [1..Len(j) -> S]
    BY DEF IsJob
  <2> QED
    BY <2>1, SeqDef DEF IsJob
<1> HIDE DEF S
<1>2. Len(j) >= 1
  BY <1>1, EmptySeq
<1>3. /\ Tail(j) \in Seq(S) /\ Len(Tail(j)) = Len(j) - 1
      /\ \A i \in 1..Len(Tail(j)) : Tail(j)[i] = j[i + 1]
  BY <1>1, HeadTailProperties
<1>4. \A x \in S : IsEntry(x)
  BY DEF S, IsJob
<1>5. \A i \in 1..Len(Tail(j)) : Tail(j)[i] \in S
  BY <1>3, ElementOfSeq
<1>6. Tail(j) = [i \in 1..Len(Tail(j)) |-> Tail(j)[i]]
  <2>1. Tail(j) \in [1..Len(Tail(j)) -> S]
    BY <1>3, LenProperties
  <2> QED
    BY <2>1
<1> QED
  BY <1>1, <1>2, <1>3, <1>4, <1>5, <1>6, ElementOfSeq DEF IsJob

LEMMA NoneIsNoCall == None \notin Loaders /\ Slow \in Listeners /\ SlowVar \in Vars
BY ConfigAssumption

LEMMA JobFile == IsJob(<<>>) /\ \A f \in Files : IsJob(f)
<1>1. IsJob(<<>>)
  BY DEF IsJob
<1> QED
  BY <1>1, ConfigAssumption DEF IsJob, IsEntry

-----------------------------------------------------------------------------
(* The locks, and what listeners were told. *)

\* What a call calls is another call, deeper than all that files are loaded by.
LEMMA InnerIsOther ==
  ASSUME NEW t \in Loaders
  PROVE  /\ Inner(t) # t /\ Inner(t)[2] # 1
         /\ \A u \in Loaders : Inner(u) = Inner(t) => u = t
<1>1. PICK a \in Threads, k \in 1..Depth : t = <<a, k>>
  BY DEF Loaders
<1>2. Inner(t) = <<a, k + 1>> /\ k \in Nat /\ k >= 1
  BY <1>1, ConfigAssumption DEF Inner
<1>3. ASSUME NEW u \in Loaders, Inner(u) = Inner(t) PROVE u = t
  <2>1. PICK b \in Threads, m \in 1..Depth : u = <<b, m>>
    BY DEF Loaders
  <2>2. <<b, m + 1>> = <<a, k + 1>>
    BY <1>2, <1>3, <2>1 DEF Inner
  <2>3. b = a /\ m = k
    BY <1>2, <2>1, <2>2, ConfigAssumption
  <2> QED
    BY <1>1, <2>1, <2>3
<1> QED
  BY <1>1, <1>2, <1>3

\* A call that goes on has one that waits for it, or none, and waits for none.
LEMMA NestStep ==
  ASSUME ConfigInv, NEW t \in Loaders, NEW label, pc' = [pc EXCEPT ![t] = label],
         pc[t] # "idle", pc[t] = "waits" => pc[Inner(t)] = "idle"
  PROVE  NestInv'
<1> SUFFICES ASSUME NEW u \in Loaders, Inner(u) \in Loaders, pc'[u] # "waits"
             PROVE  pc'[Inner(u)] = "idle"
  BY DEF NestInv
<1>1. CASE u = t
  BY <1>1, InnerIsOther DEF ConfigInv, ConfigType, NestInv
<1>2. CASE u # t
  BY <1>2 DEF ConfigInv, ConfigType, NestInv
<1> QED
  BY <1>1, <1>2

LEMMA ConfigStarts == Init => ConfigInv
BY ConfigAssumption, JobFile
   DEF Init, ConfigInit, ConfigInv, ConfigType, LockInv, HeldInv, EntryInv, TodoInv,
       SlowInv, NestInv, ListenersUpToDate, Labels, InSetValue, Locking

\* The entry a loader is at names a variable and one of its values.
LEMMA EntryFits ==
  ASSUME ConfigInv, NEW t \in Loaders
  PROVE  /\ job[t] # <<>> => IsEntry(Entry(t)) /\ IsJob(Tail(job[t]))
         /\ pc[t] \in InSetValue => Entry(t).var \in Vars
                               /\ Entry(t).val \in Values[Entry(t).var]
BY JobTail DEF ConfigInv, ConfigType, LockInv, EntryInv, Entry, IsEntry

LEMMA LookupSafe ==
  ASSUME ConfigInv, NEW v \in Vars, Lookup(v)
  PROVE  ConfigInv'
<1>1. ConfigType'
  BY ConfigAssumption DEF ConfigInv, ConfigType, Lookup
<1>2. LockInv'
  <2>1. \A t \in Loaders : pc[t] \in InSetValue =>
           Entry(t).var \in Vars \ {v} /\ Entry(t)' = Entry(t) /\ pc'[t] = pc[t]
    BY EntryFits DEF ConfigInv, LockInv, HeldInv, EntryInv, TodoInv, SlowInv, Lookup, Entry
  <2>2. HeldInv'
    BY <2>1, ConfigAssumption
       DEF ConfigInv, ConfigType, LockInv, HeldInv, Lookup, Locking, InSetValue
  <2>3. EntryInv'
    BY <2>1 DEF ConfigInv, ConfigType, LockInv, EntryInv, Lookup
  <2>4. TodoInv'
    BY <2>1 DEF ConfigInv, ConfigType, LockInv, TodoInv, Lookup, Locking, InSetValue
  <2>5. SlowInv'
    BY <2>1, ConfigAssumption
       DEF ConfigInv, ConfigType, LockInv, SlowInv, Lookup, InSetValue
  <2> QED
    BY <2>2, <2>3, <2>4, <2>5 DEF LockInv
<1>3. ListenersUpToDate'
  <2>1. writer[v] = None
    BY EntryFits
       DEF ConfigInv, ConfigType, LockInv, HeldInv, EntryInv, TodoInv, SlowInv, Lookup,
           Entry, Locking, InSetValue
  <2> QED
    BY <2>1, ConfigAssumption
       DEF ConfigInv, ConfigType, LockInv, HeldInv, EntryInv, TodoInv, SlowInv,
           ListenersUpToDate, Lookup, Entry
<1>4. NestInv'
  BY DEF ConfigInv, NestInv, Lookup
<1> QED
  BY <1>1, <1>2, <1>3, <1>4 DEF ConfigInv

LEMMA HookSafe ==
  ASSUME ConfigInv, NEW v \in Vars, NEW l \in Listeners, AddHook(v, l) \/ DelHook(v, l)
  PROVE  ConfigInv'
<1>1. ConfigType'
  BY DEF ConfigInv, ConfigType, AddHook, DelHook
<1>2. LockInv'
  <2>1. HeldInv' /\ EntryInv'
    BY DEF ConfigInv, LockInv, HeldInv, EntryInv, AddHook, DelHook, Entry
  <2>2. TodoInv'
    <3>1. \A t \in Loaders : pc[t] \in Locking => Entry(t).var \in Vars \ {v}
      BY EntryFits, ConfigAssumption
         DEF ConfigInv, LockInv, TodoInv, AddHook, DelHook, Locking, InSetValue
    <3>2. \A x \in Vars \ {v} : hooks'[x] = hooks[x]
      BY DEF ConfigInv, ConfigType, AddHook, DelHook
    <3> QED
      BY <3>1, <3>2 DEF ConfigInv, LockInv, TodoInv, AddHook, DelHook, Entry
  <2>3. SlowInv'
    BY DEF ConfigInv, ConfigType, LockInv, SlowInv, AddHook, DelHook, Entry
  <2> QED
    BY <2>1, <2>2, <2>3 DEF LockInv
<1>3. ListenersUpToDate'
  BY NoneIsNoCall
     DEF ConfigInv, ConfigType, LockInv, HeldInv, EntryInv, TodoInv, SlowInv,
         ListenersUpToDate, AddHook, DelHook, Entry
<1>4. NestInv'
  BY DEF ConfigInv, NestInv, AddHook, DelHook
<1> QED
  BY <1>1, <1>2, <1>3, <1>4 DEF ConfigInv

LEMMA LoadSafe ==
  ASSUME ConfigInv, NEW t \in Loaders, NEW f \in Files, Load(t, f)
  PROVE  ConfigInv'
<1>1. ConfigType'
  BY JobFile DEF ConfigInv, ConfigType, Load, Goto, Labels
<1>2. LockInv'
  BY
     DEF ConfigInv, ConfigType, LockInv, HeldInv, EntryInv, TodoInv, SlowInv, Load, Goto,
         InSetValue, Locking, Entry
<1>3. ListenersUpToDate'
  BY ConfigAssumption
     DEF ConfigInv, ConfigType, LockInv, HeldInv, EntryInv, TodoInv, SlowInv,
         ListenersUpToDate, Load, Goto, Entry, Locking
<1>4. NestInv'
  BY InnerIsOther DEF ConfigInv, ConfigType, NestInv, Load, Goto
<1> QED
  BY <1>1, <1>2, <1>3, <1>4 DEF ConfigInv

LEMMA NextEntrySafe ==
  ASSUME ConfigInv, NEW t \in Loaders, NextEntry(t)
  PROVE  ConfigInv'
<1>0. IsJob(<<>>) /\ (job[t] # <<>> => IsJob(Tail(job[t])) /\ IsEntry(Entry(t)))
  BY JobFile, JobTail DEF ConfigInv, ConfigType, Entry
<1>1. ConfigType'
  <2>1. /\ pc' \in [Loaders -> Labels] /\ readers' \in [Vars -> SUBSET Loaders]
        /\ DOMAIN job' = Loaders
    BY <1>0 DEF ConfigInv, ConfigType, NextEntry, Goto, Labels
  <2>2. \A u \in Loaders : IsJob(job'[u])
    BY <1>0 DEF ConfigInv, ConfigType, NextEntry
  <2> QED
    BY <2>1, <2>2 DEF ConfigInv, ConfigType, NextEntry
<1>2. LockInv'
  BY <1>0
     DEF ConfigInv, ConfigType, LockInv, HeldInv, EntryInv, TodoInv, SlowInv, NextEntry,
         Goto, InSetValue, Locking, Entry, IsEntry
<1>3. ListenersUpToDate'
  BY NoneIsNoCall
     DEF ConfigInv, ConfigType, LockInv, HeldInv, EntryInv, TodoInv, SlowInv,
         ListenersUpToDate, NextEntry, Goto, Entry, Locking
<1>4. NestInv'
  <2>1. pc[t] = "entry" /\ (UNCHANGED pc \/ \E label \in Labels : pc' = [pc EXCEPT ![t] = label])
    BY DEF NextEntry, Goto, Labels
  <2> QED
    BY <2>1, NestStep DEF ConfigInv, NestInv
<1> QED
  BY <1>1, <1>2, <1>3, <1>4 DEF ConfigInv

LEMMA CompareSafe ==
  ASSUME ConfigInv, NEW t \in Loaders, Compare(t)
  PROVE  ConfigInv'
<1>0. Entry(t).var \in Vars /\ IsJob(Tail(job[t]))
  BY EntryFits DEF ConfigInv, LockInv, EntryInv, InSetValue, Compare
<1>1. ConfigType'
  <2>1. /\ pc' \in [Loaders -> Labels] /\ readers' \in [Vars -> SUBSET Loaders]
        /\ DOMAIN job' = Loaders
    BY <1>0 DEF ConfigInv, ConfigType, Compare, Goto, Labels
  <2>2. \A u \in Loaders : IsJob(job'[u])
    BY <1>0 DEF ConfigInv, ConfigType, Compare
  <2> QED
    BY <2>1, <2>2 DEF ConfigInv, ConfigType, Compare
<1>2. \A u \in Loaders : pc'[u] \in InSetValue \/ pc[u] \in Locking =>
          /\ job'[u] = job[u] /\ pc[u] \in InSetValue
          /\ pc'[u] = pc[u] \/ (pc[u] = "compare" /\ pc'[u] = "lock")
  BY DEF ConfigInv, ConfigType, Compare, Goto, InSetValue, Locking
<1>3. LockInv'
  <2>1. HeldInv'
    <3>1. \A v \in Vars : readers'[v] \subseteq readers[v] /\ writer'[v] = writer[v]
      BY <1>0 DEF ConfigInv, ConfigType, Compare
    <3> QED
      BY <1>2, <3>1 DEF ConfigInv, LockInv, HeldInv, Entry, InSetValue, Locking
  <2>2. EntryInv' /\ TodoInv'
    BY <1>2 DEF ConfigInv, LockInv, EntryInv, TodoInv, Compare, Entry, InSetValue, Locking
  <2>3. SlowInv'
    BY <1>2 DEF ConfigInv, LockInv, SlowInv, Compare, Entry, InSetValue, Locking
  <2> QED
    BY <2>1, <2>2, <2>3 DEF LockInv
<1>4. ListenersUpToDate'
  BY <1>2, ConfigAssumption
     DEF ConfigInv, ConfigType, LockInv, HeldInv, ListenersUpToDate, Compare, Entry, Locking
<1>5. NestInv'
  <2>1. pc[t] = "compare" /\ \E label \in Labels : pc' = [pc EXCEPT ![t] = label]
    BY DEF Compare, Goto, Labels
  <2> QED
    BY <2>1, NestStep
<1> QED
  BY <1>1, <1>3, <1>4, <1>5 DEF ConfigInv

LEMMA WriteLockSafe ==
  ASSUME ConfigInv, NEW t \in Loaders, WriteLock(t)
  PROVE  ConfigInv'
<1> DEFINE x == Entry(t).var
<1>0. /\ x \in Vars /\ writer[x] = None /\ readers[x] = {} /\ pc[t] = "lock"
      /\ writer' = [writer EXCEPT ![x] = t] /\ todo' = [todo EXCEPT ![t] = hooks[x]]
      /\ pc' = [pc EXCEPT ![t] = "notify"]
      /\ UNCHANGED <<value, hooks, readers, job, seen>>
  BY EntryFits DEF InSetValue, WriteLock, Goto
<1> HIDE DEF x
<1>1. ConfigType'
  BY <1>0 DEF ConfigInv, ConfigType, Labels
<1>2. \A u \in Loaders : Entry(u)' = Entry(u)
  BY <1>0 DEF Entry
<1>3. HeldInv'
  BY <1>0, <1>2, ConfigAssumption DEF ConfigInv, ConfigType, LockInv, HeldInv, Locking, x
<1>4. EntryInv'
  BY <1>0, <1>2 DEF ConfigInv, ConfigType, LockInv, EntryInv, InSetValue
<1>5. TodoInv'
  BY <1>0, <1>2, ConfigAssumption DEF ConfigInv, ConfigType, LockInv, TodoInv, Locking, x
<1>6. SlowInv'
  BY <1>0, <1>2 DEF ConfigInv, ConfigType, LockInv, SlowInv
<1>7. ListenersUpToDate'
  BY <1>0, <1>2, NoneIsNoCall
     DEF ConfigInv, ConfigType, LockInv, HeldInv, ListenersUpToDate, Locking
<1>8. NestInv'
  BY <1>0, NestStep
<1> QED
  BY <1>1, <1>3, <1>4, <1>5, <1>6, <1>7, <1>8 DEF ConfigInv, LockInv

LEMMA NotifySafe ==
  ASSUME ConfigInv, NEW t \in Loaders, NEW l \in Listeners, Notify(t, l)
  PROVE  ConfigInv'
<1> DEFINE x == Entry(t).var
           val == Entry(t).val
<1>0. /\ x \in Vars /\ writer[x] = t /\ pc[t] = "notify" /\ l \in todo[t]
      /\ todo' = [todo EXCEPT ![t] = @ \ {l}] /\ seen' = [seen EXCEPT ![x][l] = val]
      /\ pc' = [pc EXCEPT ![t] = IF l = Slow THEN "slow" ELSE "notify"]
      /\ UNCHANGED <<value, hooks, readers, writer, job>>
  BY EntryFits DEF ConfigInv, LockInv, TodoInv, Locking, InSetValue, Notify, Goto
<1> HIDE DEF x, val
<1>1. ConfigType'
  BY <1>0 DEF ConfigInv, ConfigType, Labels
<1>2. \A u \in Loaders : Entry(u)' = Entry(u) /\ (pc'[u] # pc[u] => u = t)
  BY <1>0 DEF ConfigInv, ConfigType, Entry
<1>3. HeldInv' /\ EntryInv'
  BY <1>0, <1>2 DEF ConfigInv, ConfigType, LockInv, HeldInv, EntryInv, Locking, InSetValue
<1>4. TodoInv'
  BY <1>0, <1>2 DEF ConfigInv, ConfigType, LockInv, TodoInv, Locking
<1>5. SlowInv'
  BY <1>0, <1>2 DEF ConfigInv, ConfigType, LockInv, SlowInv, TodoInv, Locking, x
<1>6. ListenersUpToDate'
  BY <1>0, <1>2, ConfigAssumption
     DEF ConfigInv, ConfigType, LockInv, HeldInv, ListenersUpToDate, Locking, val, x
<1>7. NestInv'
  BY <1>0, NestStep
<1> QED
  BY <1>1, <1>3, <1>4, <1>5, <1>6, <1>7 DEF ConfigInv, LockInv

LEMMA AssignSafe ==
  ASSUME ConfigInv, NEW t \in Loaders, Assign(t)
  PROVE  ConfigInv'
<1> DEFINE x == Entry(t).var
           val == Entry(t).val
<1>0. /\ x \in Vars /\ val \in Values[x] /\ val # None /\ value[x] # None
      /\ IsJob(Tail(job[t]))
      /\ writer[x] = t /\ pc[t] = "notify" /\ todo[t] = {}
      /\ value' = [value EXCEPT ![x] = val] /\ writer' = [writer EXCEPT ![x] = None]
      /\ job' = [job EXCEPT ![t] = Tail(@)] /\ pc' = [pc EXCEPT ![t] = "entry"]
      /\ UNCHANGED <<hooks, readers, todo, seen>>
  BY EntryFits, ConfigAssumption
     DEF ConfigInv, LockInv, TodoInv, EntryInv, Locking, InSetValue, Assign, Goto
<1> HIDE DEF x, val
<1>1. ConfigType'
  BY <1>0 DEF ConfigInv, ConfigType, Labels
<1>2. \A u \in Loaders : pc'[u] \in InSetValue =>
          u # t /\ pc'[u] = pc[u] /\ Entry(u)' = Entry(u)
  BY <1>0 DEF ConfigInv, ConfigType, Entry, InSetValue
<1>3. \A u \in Loaders \ {t} : /\ pc'[u] = pc[u] /\ Entry(u)' = Entry(u)
                                  /\ (pc[u] \in Locking => Entry(u).var # x)
  BY <1>0 DEF ConfigInv, ConfigType, LockInv, TodoInv, Entry
<1>4. HeldInv'
  <2>1. \A v \in Vars \ {x} : writer'[v] = writer[v] /\ writer[v] # t
    BY <1>0 DEF ConfigInv, ConfigType, LockInv, HeldInv, x
  <2> QED
    BY <1>0, <1>3, <2>1, ConfigAssumption
       DEF ConfigInv, ConfigType, LockInv, HeldInv
<1>5. EntryInv'
  BY <1>0, <1>2, EntryFits DEF ConfigInv, ConfigType, LockInv, EntryInv, InSetValue
<1>6. TodoInv'
  BY <1>0, <1>2, <1>3 DEF ConfigInv, ConfigType, LockInv, TodoInv, Locking, InSetValue
<1>7. SlowInv'
  BY <1>0, <1>2 DEF ConfigInv, ConfigType, LockInv, SlowInv, InSetValue
<1>8. ListenersUpToDate'
  <2> SUFFICES ASSUME NEW v \in Vars, NEW l \in hooks[v]
               PROVE  seen[v][l] = IF \E u \in Loaders : writer'[v] = u /\ l \notin todo[u]
                                   THEN Entry(writer[v])'.val ELSE value'[v]
    BY <1>0 DEF ListenersUpToDate
  <2>1. seen[v][l] = IF \E u \in Loaders : writer[v] = u /\ l \notin todo[u]
                     THEN Entry(writer[v]).val ELSE value[v]
    BY DEF ConfigInv, ListenersUpToDate
  <2>2. CASE v = x
    <3>1. seen[v][l] = val
      BY <1>0, <2>1, <2>2 DEF val
    <3>2. value'[x] = val /\ writer'[x] \notin Loaders
      BY <1>0, ConfigAssumption DEF ConfigInv, ConfigType
    <3> QED
      BY <2>2, <3>1, <3>2
  <2>3. CASE v # x
    <3>1. writer'[v] = writer[v] /\ writer[v] # t /\ value'[v] = value[v]
      BY <1>0, <2>3 DEF ConfigInv, ConfigType, LockInv, HeldInv, x
    <3>2. writer[v] \in Loaders => Entry(writer[v])' = Entry(writer[v])
      BY <1>0, <3>1 DEF ConfigInv, ConfigType, Entry
    <3> QED
      BY <2>1, <3>1, <3>2
  <2> QED
    BY <2>2, <2>3
<1>9. NestInv'
  BY <1>0, NestStep
<1> QED
  BY <1>1, <1>4, <1>5, <1>6, <1>7, <1>8, <1>9 DEF ConfigInv, LockInv

\* A listener returns, which nothing depends on, ...
LEMMA ReturnSafe ==
  ASSUME ConfigInv, NEW t \in Loaders, SlowReturns(t) \/ ListenerReturns(t)
  PROVE  ConfigInv'
<1>0. /\ pc[t] \in {"slow", "waits"} /\ pc' = [pc EXCEPT ![t] = "notify"]
      /\ pc[t] = "waits" => pc[Inner(t)] = "idle"
      /\ UNCHANGED <<value, hooks, readers, writer, job, todo, seen>>
  BY DEF SlowReturns, BetweenLoggers, Setting, ListenerReturns, Goto
<1>1. ConfigType'
  BY <1>0 DEF ConfigInv, ConfigType, Labels
<1>2. \A u \in Loaders : /\ Entry(u)' = Entry(u)
                         /\ \/ pc'[u] = pc[u]
                            \/ pc[u] \in {"slow", "waits"} /\ pc'[u] = "notify"
  BY <1>0 DEF ConfigInv, ConfigType, Entry
<1>3. LockInv'
  BY <1>0, <1>2
     DEF ConfigInv, LockInv, HeldInv, EntryInv, TodoInv, SlowInv, InSetValue, Locking
<1>4. ListenersUpToDate'
  BY <1>0, <1>2, ConfigAssumption DEF ConfigInv, ConfigType, ListenersUpToDate
<1>5. NestInv'
  BY <1>0, NestStep
<1> QED
  BY <1>1, <1>3, <1>4, <1>5 DEF ConfigInv

\* ... or sets a variable, with a call that has done nothing so far.
LEMMA SetsSafe ==
  ASSUME ConfigInv, NEW t \in Loaders, NEW l \in Listeners \ {Slow}, ListenerSets(t, l)
  PROVE  ConfigInv'
<1> DEFINE x == Entry(t).var
           val == Entry(t).val
<1>0. /\ x \in Vars /\ writer[x] = t /\ pc[t] = "notify" /\ l \in todo[t]
      /\ todo' = [todo EXCEPT ![t] = @ \ {l}] /\ seen' = [seen EXCEPT ![x][l] = val]
      /\ UNCHANGED <<value, hooks, readers, writer>>
  BY EntryFits DEF ConfigInv, LockInv, TodoInv, Locking, InSetValue, ListenerSets
<1>1. PICK e \in MaySet[x] :
          \/ pc' = [pc EXCEPT ![t] = "again"] /\ UNCHANGED job
          \/ /\ Inner(t) \in Loaders
             /\ pc' = [pc EXCEPT ![t] = "waits", ![Inner(t)] = "entry"]
             /\ job' = [job EXCEPT ![Inner(t)] = <<e>>]
  BY DEF ListenerSets, Goto
<1>2. IsJob(<<e>>)
  BY <1>0, ConfigAssumption DEF IsJob, IsEntry
<1> HIDE DEF x, val
<1>3. Inner(t) # t /\ (Inner(t) \in Loaders => pc[Inner(t)] = "idle")
  BY <1>0, InnerIsOther DEF ConfigInv, NestInv
<1>4. ConfigType'
  BY <1>0, <1>1, <1>2, <1>3 DEF ConfigInv, ConfigType, Labels
<1>5. /\ pc'[t] \in {"again", "waits"}
      /\ \A u \in Loaders \ {t} :
             \/ pc'[u] = pc[u] /\ Entry(u)' = Entry(u) /\ job'[u] = job[u]
             \/ pc[u] = "idle" /\ pc'[u] = "entry" /\ u = Inner(t)
      /\ Entry(t)' = Entry(t) /\ job'[t] = job[t]
  <2>1. CASE pc' = [pc EXCEPT ![t] = "again"] /\ UNCHANGED job
    BY <2>1 DEF ConfigInv, ConfigType, Entry
  <2>2. CASE /\ Inner(t) \in Loaders
             /\ pc' = [pc EXCEPT ![t] = "waits", ![Inner(t)] = "entry"]
             /\ job' = [job EXCEPT ![Inner(t)] = <<e>>]
    <3> DEFINE i == Inner(t)
    <3>1. /\ i \in Loaders /\ i # t /\ pc[i] = "idle"
          /\ pc' = [pc EXCEPT ![t] = "waits", ![i] = "entry"]
          /\ job' = [job EXCEPT ![i] = <<e>>]
      BY <1>3, <2>2
    <3> HIDE DEF i
    <3>2. pc'[t] = "waits" /\ \A u \in Loaders : u # i => job'[u] = job[u]
      BY <3>1 DEF ConfigInv, ConfigType
    <3>3. \A u \in Loaders \ {t} : pc'[u] = IF u = i THEN "entry" ELSE pc[u]
      BY <3>1 DEF ConfigInv, ConfigType
    <3> QED
      BY <3>1, <3>2, <3>3 DEF Entry, i
  <2> QED
    BY <1>1, <2>1, <2>2
<1>6. HeldInv'
  BY <1>0, <1>5 DEF ConfigInv, ConfigType, LockInv, HeldInv, Locking
<1>7. EntryInv'
  BY <1>0, <1>5 DEF ConfigInv, ConfigType, LockInv, EntryInv, Locking, InSetValue
<1>8. TodoInv'
  BY <1>0, <1>5 DEF ConfigInv, ConfigType, LockInv, TodoInv, Locking
<1>9. SlowInv'
  BY <1>0, <1>5 DEF ConfigInv, ConfigType, LockInv, SlowInv
<1>10. ListenersUpToDate'
  <2>1. \A u \in Loaders : u # t /\ (\E v \in Vars : writer[v] = u) => Entry(u)' = Entry(u)
    BY <1>5 DEF ConfigInv, LockInv, HeldInv, Locking
  <2> QED
    BY <1>0, <1>5, <2>1, NoneIsNoCall
       DEF ConfigInv, ConfigType, LockInv, HeldInv, ListenersUpToDate, Locking, val, x
<1>11. NestInv'
  <2> SUFFICES ASSUME NEW u \in Loaders, Inner(u) \in Loaders, pc'[u] # "waits"
               PROVE  pc'[Inner(u)] = "idle"
    BY DEF NestInv
  <2>1. pc[Inner(u)] = "idle"
    BY <1>0, <1>5 DEF ConfigInv, NestInv
  <2>2. CASE pc'[Inner(u)] # "idle"
    <3>1. Inner(u) = Inner(t) \/ Inner(u) = t
      BY <1>5, <2>1, <2>2
    <3>2. u = t
      BY <1>0, <2>1, <3>1, InnerIsOther
    <3>3. UNCHANGED job /\ pc' = [pc EXCEPT ![t] = "again"]
      BY <1>1, <1>3, <3>2 DEF ConfigInv, ConfigType
    <3> QED
      BY <1>3, <2>1, <3>2, <3>3 DEF ConfigInv, ConfigType
  <2> QED
    BY <2>2
<1> QED
  BY <1>4, <1>6, <1>7, <1>8, <1>9, <1>10, <1>11 DEF ConfigInv, LockInv

LEMMA ConfigUnchanged ==
  ASSUME ConfigInv, UNCHANGED config
  PROVE  ConfigInv'
BY DEF config, ConfigInv, ConfigType, LockInv, HeldInv, EntryInv, TodoInv, SlowInv,
       NestInv, ListenersUpToDate, Entry

LEMMA ConfigStep ==
  ASSUME ConfigInv, [Next]_vars
  PROVE  ConfigInv'
<1>1. CASE UNCHANGED vars
  BY <1>1, ConfigUnchanged DEF vars
<1>2. ASSUME NEW v \in Vars, Lookup(v) PROVE ConfigInv'
  BY <1>2, LookupSafe
<1>3. CASE Hooking
  BY <1>3, HookSafe DEF Hooking
<1>4. ASSUME NEW t \in Loaders, Loading(t) PROVE ConfigInv'
  <2>1. CASE LoaderStep(t)
    BY <2>1, NextEntrySafe, CompareSafe, WriteLockSafe, ReturnSafe, AssignSafe DEF LoaderStep
  <2>2. ASSUME NEW l \in Listeners \ {Slow}, Notify(t, l) \/ ListenerSets(t, l)
        PROVE  ConfigInv'
    BY <2>2, NotifySafe, SetsSafe
  <2>3. CASE SlowBegins(t)
    BY <2>3, NotifySafe, ConfigAssumption DEF SlowBegins
  <2>4. CASE SlowStep(t)
    BY <2>4, ConfigUnchanged
       DEF SlowStep, Obtain, SetLevel, SetFormatter, ClearAppenders, AddAppender
  <2>5. CASE SlowReturns(t)
    BY <2>5, ReturnSafe
  <2> QED
    BY <1>4, <2>1, <2>2, <2>3, <2>4, <2>5 DEF Loading
<1>5. ASSUME NEW t \in Loaders, NEW f \in Files, Load(t, f) PROVE ConfigInv'
  BY <1>5, LoadSafe
<1>6. ASSUME NEW w \in Writers,
             (\E n \in Names, level \in EventLevels : BeginLog(w, n, level)) \/ Logging(w)
      PROVE  ConfigInv'
  BY <1>6, ConfigUnchanged
     DEF BeginLog, Logging, CheckLevel, Deliver, CheckRoot, RootDelivers, EndLog
<1> QED
  BY <1>1, <1>2, <1>3, <1>4, <1>5, <1>6 DEF Next

LEMMA ConfigHolds == Spec => []ConfigInv
BY ConfigStarts, ConfigStep, PTL DEF Spec

\* Listeners know the last value that was set, or, while one is set, the new one if
\* they were called already, whoever sets it and whatever listeners come and go
\* (Config.h:273-293, 325-346).
THEOREM ListenersAreUpToDate == Spec => []ListenersUpToDate
BY ConfigHolds, PTL DEF ConfigInv

-----------------------------------------------------------------------------
(* The listener of "logs". *)

\* What it was told are definitions: the old value, or the new one it is given.
LEMMA ToldFits ==
  ASSUME ConfigInv
  PROVE  /\ \A n \in Names : Told(n) \in Definition \cup {None}
         /\ value[SlowVar] # None /\ writer[SlowVar] = None =>
                \A n \in Names : Told(n) = value[SlowVar][n]
<1>1. SlowVar \in Vars /\ Slow \in Listeners /\ None \notin Loaders
  BY ConfigAssumption
<1>2. ASSUME value[SlowVar] # None
      PROVE  /\ seen[SlowVar][Slow] \in Values[SlowVar]
             /\ writer[SlowVar] = None => seen[SlowVar][Slow] = value[SlowVar]
  <2>1. Slow \in hooks[SlowVar]
    BY <1>1, <1>2 DEF ConfigInv, LockInv, SlowInv
  <2>2. seen[SlowVar][Slow] = IF \E t \in Loaders : writer[SlowVar] = t /\ Slow \notin todo[t]
                              THEN Entry(writer[SlowVar]).val ELSE value[SlowVar]
    BY <1>1, <2>1 DEF ConfigInv, ListenersUpToDate
  <2>3. value[SlowVar] \in Values[SlowVar]
    BY <1>1, <1>2 DEF ConfigInv, ConfigType
  <2>4. \A t \in Loaders : writer[SlowVar] = t => Entry(t).val \in Values[SlowVar]
    BY <1>1, EntryFits DEF ConfigInv, LockInv, HeldInv, Locking, InSetValue
  <2> QED
    BY <1>1, <2>2, <2>3, <2>4
<1>3. \A val \in Values[SlowVar] : \A n \in Names : val[n] \in Definition \cup {None}
  BY LogsAssumption
<1> QED
  BY <1>2, <1>3 DEF Told

\* It is done by one thread at a time, and follows what it was told.
LEMMA OneIsSlow ==
  ASSUME ConfigInv, NEW t \in Loaders, pc[t] = "slow"
  PROVE  /\ value[SlowVar] # None
         /\ \A u \in Loaders : pc[u] = "slow" => u = t
         /\ \A n : Told(n) = Entry(t).val[n]
<1>1. SlowVar \in Vars /\ Slow \in Listeners /\ None \notin Loaders
  BY ConfigAssumption
<1>2. /\ \A u \in Loaders : pc[u] = "slow" => writer[SlowVar] = u
      /\ value[SlowVar] # None /\ Slow \notin todo[t]
  BY DEF ConfigInv, LockInv, EntryInv, TodoInv, SlowInv, InSetValue, Locking
<1>3. Slow \in hooks[SlowVar]
  BY <1>1, <1>2 DEF ConfigInv, LockInv, SlowInv
<1>4. seen[SlowVar][Slow] = Entry(t).val
  BY <1>1, <1>2, <1>3 DEF ConfigInv, ListenersUpToDate
<1> QED
  BY <1>2, <1>4 DEF Told

\* What does neither tell it anything nor touch a logger.
LEMMA Carried ==
  ASSUME LoggersInv, UNCHANGED logs, \A n \in Names : Told(n)' = Told(n),
         \A u \in Loaders : pc[u] = "slow" <=> pc'[u] = "slow"
  PROVE  LoggersInv'
<1>1. LoggersType'
  BY DEF LoggersInv, LoggersType, logs
<1>2. TaskInv'
  <2>1. UNCHANGED <<loggers, task>>
    BY DEF logs
  <2>2. (\A u \in Loaders : pc'[u] # "slow") => task = NoTask
    BY DEF LoggersInv, TaskInv
  <2>3. \A n \in Names \ (task.change \cup task.gone) :
            ~(Busy /\ n = task.name) => Follows(n, loggers[n], Told(n))'
    BY <2>1 DEF LoggersInv, TaskInv, Follows
  <2>4. Busy => /\ task.name \in Names \ (task.change \cup task.gone)
                /\ HalfDone(loggers[task.name], Told(task.name), task.op, task.adds)'
    BY <2>1 DEF LoggersInv, TaskInv, HalfDone, Told
  <2> QED
    BY <2>1, <2>2, <2>3, <2>4 DEF TaskInv, Busy
<1> QED
  BY <1>1, <1>2 DEF LoggersInv

LEMMA ConfigCarries ==
  ASSUME ConfigInv, LoggersInv, UNCHANGED logs,
         \/ \E v \in Vars : Lookup(v)
         \/ Hooking
         \/ \E t \in Loaders : \/ LoaderStep(t)
                               \/ \E l \in Listeners \ {Slow} :
                                      Notify(t, l) \/ ListenerSets(t, l)
                               \/ \E f \in Files : Load(t, f)
  PROVE  LoggersInv'
<1> USE NoneIsNoCall DEF ConfigInv, ConfigType, Told
<1>1. CASE \E v \in Vars : Lookup(v)
  <2> PICK v \in Vars : Lookup(v)
    BY <1>1
  <2>1. \A n \in Names : Told(n)' = Told(n)
    BY LogsAssumption DEF Lookup
  <2> QED
    BY <2>1, Carried DEF Lookup
<1>2. CASE Hooking
  <2> PICK v \in Vars, l \in Listeners : AddHook(v, l) \/ DelHook(v, l)
    BY <1>2 DEF Hooking
  <2>1. seen'[SlowVar][Slow] = seen[SlowVar][Slow]
    BY DEF AddHook, DelHook
  <2>2. UNCHANGED <<value, pc>>
    BY DEF AddHook, DelHook
  <2> QED
    BY <2>1, <2>2, Carried
<1>3. ASSUME NEW t \in Loaders, LoaderStep(t) PROVE LoggersInv'
  <2>1. UNCHANGED seen /\ (value'[SlowVar] = None <=> value[SlowVar] = None)
    <3>1. CASE Assign(t)
      <4>1. Entry(t).var \in Vars /\ Entry(t).val \in Values[Entry(t).var]
        BY <3>1, EntryFits DEF Assign, InSetValue
      <4>2. value[Entry(t).var] # None /\ Entry(t).val # None
        BY <3>1, <4>1, ConfigAssumption DEF Assign, LockInv, EntryInv, InSetValue
      <4> QED BY <3>1, <4>1, <4>2 DEF Assign
    <3>2. CASE ~Assign(t)
      BY <1>3, <3>2 DEF LoaderStep, NextEntry, Compare, WriteLock, ListenerReturns
    <3> QED BY <3>1, <3>2
  <2>2. \A u \in Loaders : pc[u] = "slow" <=> pc'[u] = "slow"
    BY <1>3 DEF LoaderStep, NextEntry, Compare, WriteLock, ListenerReturns, Assign, Goto
  <2> QED
    BY <2>1, <2>2, Carried
<1>4. ASSUME NEW t \in Loaders, NEW l \in Listeners \ {Slow}, Notify(t, l) PROVE LoggersInv'
  <2>1. seen'[SlowVar][Slow] = seen[SlowVar][Slow] /\ UNCHANGED value
    BY <1>4, EntryFits DEF Notify, InSetValue
  <2>2. \A u \in Loaders : pc[u] = "slow" <=> pc'[u] = "slow"
    BY <1>4 DEF Notify, Goto
  <2> QED
    BY <2>1, <2>2, Carried
<1>5. ASSUME NEW t \in Loaders, NEW l \in Listeners \ {Slow}, ListenerSets(t, l)
      PROVE  LoggersInv'
  <2>1. seen'[SlowVar][Slow] = seen[SlowVar][Slow] /\ UNCHANGED value
    BY <1>5, EntryFits DEF ListenerSets, InSetValue
  <2>2. \A u \in Loaders : pc[u] = "slow" <=> pc'[u] = "slow"
    <3>1. Inner(t) # t /\ (Inner(t) \in Loaders => pc[Inner(t)] = "idle")
      BY <1>5, InnerIsOther DEF ListenerSets, NestInv
    <3> QED
      BY <1>5, <3>1 DEF ListenerSets, Goto
  <2> QED
    BY <2>1, <2>2, Carried
<1>6. ASSUME NEW t \in Loaders, NEW f \in Files, Load(t, f) PROVE LoggersInv'
  <2>1. \A u \in Loaders : pc[u] = "slow" <=> pc'[u] = "slow"
    BY <1>6 DEF Load, Goto
  <2> QED
    BY <1>6, <2>1, Carried DEF Load
<1> QED
  BY <1>1, <1>2, <1>3, <1>4, <1>5, <1>6

\* The loggers that are as the old value says, and are not in the two lists, are as
\* the new one says.
LEMMA BeginsSafe ==
  ASSUME ConfigInv, ConfigInv', LoggersInv, NEW t \in Loaders, SlowBegins(t)
  PROVE  LoggersInv'
<1> DEFINE old == value[SlowVar]
           new == Entry(t).val
<1>1. SlowVar \in Vars /\ Slow \in Listeners /\ None \notin Loaders
  BY ConfigAssumption
<1>2. /\ Entry(t).var = SlowVar /\ writer[SlowVar] = t /\ pc[t] = "notify"
      /\ Slow \in todo[t] /\ Slow \in hooks[SlowVar] /\ old # None /\ pc'[t] = "slow"
  <2>1. pc[t] = "notify" /\ Slow \in todo[t] /\ pc'[t] = "slow"
    BY DEF ConfigInv, ConfigType, SlowBegins, Notify, Goto
  <2>2. Entry(t).var \in Vars /\ writer[Entry(t).var] = t /\ Slow \in hooks[Entry(t).var]
    BY <2>1, EntryFits DEF ConfigInv, LockInv, TodoInv, InSetValue, Locking
  <2> QED
    BY <2>1, <2>2 DEF ConfigInv, LockInv, SlowInv
<1>3. \A u \in Loaders : pc[u] # "slow"
  BY <1>2 DEF ConfigInv, LockInv, TodoInv, SlowInv, Locking
<1>4. seen[SlowVar][Slow] = old
  BY <1>1, <1>2 DEF ConfigInv, ListenersUpToDate
<1>5. /\ \A n \in Names : Told(n) = old[n] /\ Told(n)' = new[n]
      /\ UNCHANGED <<value, loggers, at, heard>>
  BY <1>1, <1>2, <1>4 DEF Told, ConfigInv, ConfigType, SlowBegins, Notify
<1>6. task = NoTask
  BY <1>3 DEF LoggersInv, TaskInv
<1> DEFINE changed == {n \in Names : new[n] # None /\ old[n] # new[n]}
           undef   == {n \in Names : old[n] # None /\ new[n] = None}
<1>7. task' = [NoTask EXCEPT !.change = changed, !.gone = undef]
  BY <1>6 DEF SlowBegins
<1> HIDE DEF old, new
<1>8. LoggersType'
  BY <1>5, <1>7 DEF LoggersInv, LoggersType, Task, Ops, NoTask
<1>9. TaskInv'
  <2>1. ~Busy'
    BY <1>7 DEF NoTask, Busy
  <2>2. ASSUME NEW n \in Names \ (changed \cup undef) PROVE Follows(n, loggers[n], Told(n))'
    <3>1. Follows(n, loggers[n], Told(n))
      BY <1>6 DEF LoggersInv, TaskInv, NoTask, Busy
    <3>2. Told(n)' = Told(n)
      BY <1>5
    <3> QED
      BY <1>5, <3>1, <3>2 DEF Follows
  <2>3. task'.change = changed /\ task'.gone = undef
    BY <1>7 DEF NoTask
  <2> QED
    BY <1>2, <2>1, <2>2, <2>3 DEF TaskInv
<1> QED
  BY <1>8, <1>9 DEF LoggersInv

LEMMA ReturnsSafe ==
  ASSUME ConfigInv, LoggersInv, NEW t \in Loaders, SlowReturns(t)
  PROVE  LoggersInv'
<1>1. /\ UNCHANGED <<value, seen, loggers, at, heard>> /\ task' = NoTask
      /\ task.op = "add" /\ task.adds = {} /\ task.change \cup task.gone = {}
  BY DEF SlowReturns, BetweenLoggers, Setting
<1>2. LoggersType'
  BY <1>1 DEF LoggersInv, LoggersType, Task, Ops, NoTask
<1>3. \A n \in Names : Follows(n, loggers[n], Told(n))'
  BY <1>1 DEF LoggersInv, TaskInv, Busy, Follows, Told
<1>4. ~Busy' /\ task' = NoTask
  BY <1>1 DEF NoTask, Busy
<1> QED
  BY <1>2, <1>3, <1>4 DEF LoggersInv, TaskInv

\* The setters, one by one.  Each is called on one logger, and tells the listener
\* nothing.
LEMMA SetterFacts ==
  ASSUME ConfigInv, LoggersInv, NEW t \in Loaders, pc[t] = "slow", UNCHANGED config
  PROVE  /\ \A n : Told(n)' = Told(n)
         /\ \A n \in Names : Told(n) \in Definition \cup {None}
         /\ NewDefinition(t) = Told(task.name)
         /\ ~(\A u \in Loaders : pc'[u] # "slow")
BY ToldFits, OneIsSlow DEF config, Told, NewDefinition

LEMMA LevelsInOrder ==
  /\ Debug \in Int /\ Fatal \in Int /\ Unknown \in Int /\ Debug <= Fatal /\ Fatal < Unknown
  /\ Root \in Names /\ None \notin Definition \cup Logger
BY LogsAssumption

LEMMA LevelsFit ==
  /\ {Debug, Fatal, Unknown} \cup EventLevels \subseteq Debug..Unknown
  /\ Console \in Appender /\ NewLogger \in Logger /\ NewRoot \in Logger
  /\ "default" \notin Faulty
<1>1. {Debug, Fatal, Unknown} \cup EventLevels \subseteq Debug..Unknown
  <2>1. Debug \in Int /\ Fatal \in Int /\ Unknown \in Int /\ Debug <= Fatal /\ Fatal < Unknown
        /\ EventLevels \subseteq Debug..Fatal
    BY LogsAssumption
  <2> QED
    BY <2>1
<1>2. Console \in Appender
  BY <1>1 DEF Console, Appender
<1>3. "default" \in Formatters \ Faulty
  BY LogsAssumption
<1>4. NewLogger \in Logger /\ NewRoot \in Logger
  BY <1>1, <1>2, <1>3 DEF NewLogger, NewRoot, Logger
<1> QED
  BY <1>1, <1>2, <1>3, <1>4

LEMMA ObtainSafe ==
  ASSUME ConfigInv, LoggersInv, NEW t \in Loaders, Obtain(t)
  PROVE  LoggersInv'
<1> PICK n \in IF task.change # {} THEN task.change ELSE task.gone :
        /\ GetLogger(n)
        /\ task' = [task EXCEPT !.change = @ \ {n}, !.gone = @ \ {n},
                                !.name = n, !.op = "level"]
  BY DEF Obtain
<1>1. /\ pc[t] = "slow" /\ UNCHANGED <<config, at, heard>> /\ task.op = "add" /\ task.adds = {}
  BY DEF Obtain, BetweenLoggers, Setting
<1>2. n \in Names /\ NewLogger \in Logger
  BY LevelsFit DEF LoggersInv, LoggersType, Task, Ops
<1>3. /\ loggers' \in [Names -> Logger \cup {None}] /\ loggers'[n] # None
      /\ \A m \in Names : m # n => loggers'[m] = loggers[m]
      /\ \A m \in Names : loggers[m] # None => loggers'[m] # None
      /\ loggers'[n] # loggers[n] => loggers'[n].formatter = "default"
  BY <1>2, LogsAssumption DEF LoggersInv, LoggersType, GetLogger, NewLogger
<1>4. /\ task'.change = task.change \ {n} /\ task'.gone = task.gone \ {n}
      /\ task'.name = n /\ task'.op = "level"
  BY DEF LoggersInv, LoggersType
<1>5. LoggersType'
  <2>1. \A m \in Names : loggers'[m] # None => loggers'[m].formatter \notin Faulty
    BY <1>3, LevelsFit DEF LoggersInv, LoggersType
  <2> QED
    BY <1>1, <1>2, <1>3, <2>1, LogsAssumption DEF LoggersInv, LoggersType, Task, Ops
<1>6. \A m \in Names \ (task'.change \cup task'.gone) :
          m # n => Follows(m, loggers[m], Told(m))'
  <2> TAKE m \in Names \ (task'.change \cup task'.gone)
  <2>1. m # n => Follows(m, loggers[m], Told(m))
    BY <1>1, <1>4 DEF LoggersInv, TaskInv, Busy
  <2>2. Told(m)' = Told(m)
    BY <1>1, SetterFacts
  <2> QED
    BY <1>3, <2>1, <2>2 DEF Follows
<1>7. HalfDone(loggers'[n], Told(n)', task'.op, task'.adds)
  BY <1>3, <1>4 DEF HalfDone
<1>8. TaskInv'
  BY <1>1, <1>2, <1>4, <1>6, <1>7, SetterFacts DEF TaskInv, Busy, Told
<1> QED
  BY <1>5, <1>8 DEF LoggersInv

\* The listener goes on to another setter, or has other appenders to add.
IsSet(op, adds) ==
    /\ task' \in Task /\ task'.op = op /\ task'.adds = adds
    /\ task'.change = task.change /\ task'.gone = task.gone /\ task'.name = task.name

\* A setter that changes one field of the logger the listener is at.
LEMMA SetterSafe ==
  ASSUME ConfigInv, LoggersInv, NEW t \in Loaders, pc[t] = "slow", Busy,
         UNCHANGED <<config, at, heard>>,
         NEW logger \in Logger, loggers' = [loggers EXCEPT ![task.name] = logger],
         logger.formatter \notin Faulty,
         NEW op \in Ops, NEW adds \in SUBSET Appender, IsSet(op, adds),
         IF op # "add" \/ adds # {}
         THEN HalfDone(logger, Told(task.name), op, adds)
         ELSE Follows(task.name, logger, Told(task.name))
  PROVE  LoggersInv'
<1> DEFINE n == task.name
<1>1. n \in Names \ (task.change \cup task.gone)
  BY DEF LoggersInv, TaskInv
<1>2. /\ task'.change = task.change /\ task'.gone = task.gone
      /\ task'.name = n /\ task'.op = op /\ task'.adds = adds
  BY DEF IsSet
<1>3. /\ loggers'[n] = logger /\ logger # None
      /\ \A m \in Names : m # n => loggers'[m] = loggers[m]
  BY <1>1, LogsAssumption DEF LoggersInv, LoggersType
<1>4. LoggersType'
  BY <1>1, <1>2, <1>3, LogsAssumption DEF LoggersInv, LoggersType, Task, Ops, IsSet
<1>5. \A m \in Names : Told(m)' = Told(m)
  BY SetterFacts
<1>6. ASSUME NEW m \in Names \ (task.change \cup task.gone), ~(Busy' /\ m = n)
      PROVE  Follows(m, loggers[m], Told(m))'
  <2>1. Follows(m, loggers'[m], Told(m))
    <3>1. CASE m = n
      BY <1>2, <1>3, <1>6, <3>1 DEF Busy
    <3>2. CASE m # n
      BY <1>3, <3>2 DEF LoggersInv, TaskInv
    <3> QED
      BY <3>1, <3>2
  <2>2. Told(m)' = Told(m)
    BY <1>5
  <2> QED
    BY <2>1, <2>2 DEF Follows
<1>7. ASSUME Busy' PROVE HalfDone(loggers'[n], Told(n), task'.op, task'.adds)
  BY <1>2, <1>3, <1>7 DEF Busy
<1>8. TaskInv'
  <2>1. Told(task.name)' = Told(n)
    BY <1>2 DEF Told, config
  <2> QED
    BY <1>1, <1>2, <1>6, <1>7, <2>1, SetterFacts DEF TaskInv, HalfDone
<1> QED
  BY <1>4, <1>8 DEF LoggersInv

LEMMA SettersSafe ==
  ASSUME ConfigInv, LoggersInv, NEW t \in Loaders,
         SetLevel(t) \/ SetFormatter(t) \/ ClearAppenders(t) \/ AddAppender(t)
  PROVE  LoggersInv'
<1> DEFINE n      == task.name
           def    == Told(n)
           logger == loggers[n]
<1>1. pc[t] = "slow" /\ Busy /\ UNCHANGED <<config, at, heard>>
  BY DEF SetLevel, SetFormatter, ClearAppenders, AddAppender, Setting, Busy
<1>2. /\ n \in Names /\ HalfDone(logger, def, task.op, task.adds)
      /\ logger \in Logger /\ def \in Definition \cup {None} /\ task.adds \in SUBSET Appender
      /\ logger.formatter \notin Faulty
  BY <1>1, SetterFacts DEF LoggersInv, LoggersType, Task, Ops, TaskInv, HalfDone
<1>3. NewDefinition(t) = def
  BY <1>1, SetterFacts
<1>4. None \notin Definition
  BY LogsAssumption
<1> HIDE DEF def
<1>5. CASE SetLevel(t)
  <2> DEFINE set == [logger EXCEPT !.level = IF def = None THEN Unknown ELSE def.level]
             op  == IF def = None THEN "clear"
                    ELSE IF def.formatter = "" THEN "clear" ELSE "format"
  <2>1. /\ loggers' = [loggers EXCEPT ![n] = set]
        /\ IsSet(op, task.adds)
    BY <1>2, <1>3, <1>5 DEF SetLevel, LoggersInv, LoggersType, IsSet, Task, Ops
  <2>2. /\ set \in Logger /\ set.level = IF def = None THEN Unknown ELSE def.level
        /\ set.formatter \notin Faulty
    BY <1>2, <1>4, LevelsFit DEF Logger, Definition
  <2>3. HalfDone(set, def, op, task.adds)
    BY <1>4, <2>2, LogsAssumption DEF HalfDone, Sound
  <2> HIDE DEF set
  <2>4. op \in Ops /\ op # "add"
    BY DEF Ops
  <2> HIDE DEF op
  <2> QED
    BY <1>1, <1>2, <2>1, <2>2, <2>3, <2>4, SetterSafe DEF def
<1>6. CASE SetFormatter(t)
  <2> DEFINE set == IF def.formatter \in Faulty THEN logger
                    ELSE [logger EXCEPT !.formatter = def.formatter]
  <2>1. /\ loggers' = [loggers EXCEPT ![n] = set]
        /\ IsSet("clear", task.adds)
    BY <1>2, <1>3, <1>6 DEF SetFormatter, LoggersInv, LoggersType, IsSet, Task, Ops
  <2>2. def # None /\ logger.level = def.level
    BY <1>2, <1>6 DEF SetFormatter, Setting, HalfDone
  <2>3. /\ set \in Logger /\ set.level = def.level /\ set.formatter \notin Faulty
        /\ Sound(def.formatter) => set.formatter = def.formatter
    BY <1>2, <2>2 DEF Logger, Definition, Sound
  <2>4. HalfDone(set, def, "clear", task.adds)
    BY <2>2, <2>3, LogsAssumption DEF HalfDone
  <2> HIDE DEF set
  <2> QED
    BY <1>1, <1>2, <2>1, <2>3, <2>4, SetterSafe DEF def, Ops
<1>7. CASE ClearAppenders(t)
  <2> DEFINE set  == [logger EXCEPT !.appenders = {}]
             adds == IF def = None THEN {} ELSE def.appenders
  <2>1. /\ loggers' = [loggers EXCEPT ![n] = set]
        /\ IsSet("add", adds)
    BY <1>2, <1>3, <1>4, <1>7
       DEF ClearAppenders, LoggersInv, LoggersType, IsSet, Task, Ops, Definition
  <2>2. /\ logger.level = IF def = None THEN Unknown ELSE def.level
        /\ def # None => (Sound(def.formatter) => logger.formatter = def.formatter)
    BY <1>2, <1>7 DEF ClearAppenders, Setting, HalfDone
  <2>3. /\ set \in Logger /\ set.level = logger.level
        /\ set.formatter = logger.formatter /\ set.appenders = {}
    BY <1>2 DEF Logger
  <2>4. adds \in SUBSET Appender
    BY <1>2, <1>4 DEF Definition
  <2>5. IF adds # {} THEN HalfDone(set, def, "add", adds) ELSE Follows(n, set, def)
    BY <2>2, <2>3, LogsAssumption DEF HalfDone, Follows
  <2> HIDE DEF set, adds
  <2> QED
    BY <1>1, <1>2, <2>1, <2>3, <2>4, <2>5, SetterSafe DEF def, Ops, Ops
<1>8. CASE AddAppender(t)
  <2> PICK a \in task.adds :
          /\ loggers' = [loggers EXCEPT ![n].appenders = @ \cup {a}]
          /\ task' = [task EXCEPT !.adds = @ \ {a}]
    BY <1>8 DEF AddAppender
  <2> DEFINE set  == [logger EXCEPT !.appenders = @ \cup {a}]
             adds == task.adds \ {a}
  <2>1. /\ loggers' = [loggers EXCEPT ![n] = set]
        /\ IsSet("add", adds)
    <3>1. IsSet("add", adds)
      BY <1>2, <1>8 DEF AddAppender, Setting, LoggersInv, LoggersType, IsSet, Task
    <3>2. loggers' = [loggers EXCEPT ![n] = set]
      BY <1>2 DEF LoggersInv, LoggersType
    <3> QED
      BY <3>1, <3>2
  <2>2. /\ logger.level = def.level /\ def # None
        /\ Sound(def.formatter) => logger.formatter = def.formatter
        /\ logger.appenders \cup task.adds = def.appenders
    BY <1>2, <1>8 DEF AddAppender, Setting, HalfDone
  <2>3. /\ set \in Logger /\ set.level = logger.level
        /\ set.formatter = logger.formatter /\ set.appenders = logger.appenders \cup {a}
    BY <1>2 DEF Logger
  <2>4. adds \in SUBSET Appender /\ set.appenders \cup adds = def.appenders
    BY <1>2, <2>2, <2>3
  <2>5. IF adds # {} THEN HalfDone(set, def, "add", adds) ELSE Follows(n, set, def)
    BY <2>2, <2>3, <2>4, LogsAssumption DEF HalfDone, Follows
  <2> HIDE DEF set, adds
  <2> QED
    BY <1>1, <1>2, <2>1, <2>3, <2>4, <2>5, SetterSafe DEF def, Ops, Ops
<1> QED
  BY <1>5, <1>6, <1>7, <1>8

-----------------------------------------------------------------------------
(* The threads that log, and the theorems. *)

\* Writers make loggers, which are as undefined ones are, and change none.
LEMMA WriterSafe ==
  ASSUME ConfigInv, LoggersInv, NEW w \in Writers,
         (\E n \in Names, level \in EventLevels : BeginLog(w, n, level)) \/ Logging(w)
  PROVE  LoggersInv'
<1>1. ASSUME NEW n \in Names, NEW level \in EventLevels, BeginLog(w, n, level)
      PROVE  LoggersInv'
  <2>1. /\ loggers' \in [Names -> Logger \cup {None}] /\ loggers'[n] # None
        /\ \A m \in Names : /\ loggers[m] # None => loggers'[m] = loggers[m]
                            /\ loggers[m] = None => loggers'[m] \in {None, NewLogger}
        /\ loggers'[Root] = loggers[Root]
    BY <1>1, LevelsFit, LogsAssumption DEF BeginLog, GetLogger, LoggersInv, LoggersType
  <2>2. /\ UNCHANGED <<value, seen, pc, task>>
        /\ at' = [at EXCEPT ![w] = [step |-> "check", name |-> n, level |-> level]]
        /\ heard' = heard
    BY <1>1 DEF BeginLog, config
  <2>3. LoggersType'
    <3>1. /\ at' \in [Writers -> At]
          /\ heard' \in [Writers -> SUBSET Appender]
      BY <2>2, LevelsFit DEF LoggersInv, LoggersType, At
    <3>3. \A m \in Names : loggers'[m] # None => loggers'[m].formatter \notin Faulty
      BY <2>1, LevelsFit DEF LoggersInv, LoggersType, NewLogger
    <3>2. \A u \in Writers : at'[u].step # "idle" =>
              at'[u].name \in Names /\ loggers'[at'[u].name] # None
      BY <2>1, <2>2, LogsAssumption DEF LoggersInv, LoggersType
    <3> QED
      BY <2>1, <2>2, <3>1, <3>2, <3>3 DEF LoggersInv, LoggersType
  <2>4. \A m \in Names : Follows(m, loggers[m], Told(m)) => Follows(m, loggers'[m], Told(m))
    BY <2>1, LogsAssumption DEF Follows, Fresh, LoggersInv, LoggersType
  <2>5. \A m \in Names : Told(m)' = Told(m)
    BY <2>2 DEF Told
  <2>6. ASSUME NEW m \in Names \ (task.change \cup task.gone), ~(Busy /\ m = task.name)
        PROVE  Follows(m, loggers[m], Told(m))'
    <3>1. Follows(m, loggers'[m], Told(m))
      BY <2>4, <2>6 DEF LoggersInv, TaskInv
    <3> QED
      BY <2>5, <3>1 DEF Follows
  <2>7. Busy => /\ task.name \in Names \ (task.change \cup task.gone)
                /\ loggers'[task.name] = loggers[task.name]
                /\ HalfDone(loggers[task.name], Told(task.name), task.op, task.adds)
    BY <2>1 DEF LoggersInv, TaskInv, HalfDone
  <2>8. TaskInv'
    BY <2>2, <2>6, <2>7 DEF LoggersInv, TaskInv, Busy, Told
  <2> QED
    BY <2>3, <2>8 DEF LoggersInv
<1>2. CASE Logging(w)
  <2>1. UNCHANGED <<value, seen, pc, task, loggers>>
    BY <1>2
       DEF Logging, CheckLevel, Deliver, CheckRoot, RootDelivers, EndLog, config
  <2>2. heard' \in [Writers -> SUBSET Appender]
    <3>1. /\ loggers[Root].appenders \subseteq Appender
          /\ at[w].step = "deliver" => loggers[at[w].name].appenders \subseteq Appender
      BY LogsAssumption DEF LoggersInv, LoggersType, Logger
    <3> QED
      BY <1>2, <3>1
         DEF Logging, CheckLevel, Deliver, CheckRoot, RootDelivers, EndLog, Takers,
             LoggersInv, LoggersType
  <2>3. NoEvent \in At /\ at[w] \in At
    BY LevelsFit DEF NoEvent, At, LoggersInv, LoggersType
  <2>4. \/ at' = [at EXCEPT ![w] = NoEvent]
        \/ at[w].step # "idle" /\ \E step \in {"deliver", "root", "toRoot", "done"} :
               at' = [at EXCEPT ![w] = [at[w] EXCEPT !.step = step]]
    <3>1. CASE CheckLevel(w)
      BY <3>1 DEF CheckLevel
    <3>2. CASE Deliver(w)
      BY <3>2 DEF Deliver, LoggersInv, LoggersType
    <3>3. CASE CheckRoot(w)
      BY <3>3 DEF CheckRoot, LoggersInv, LoggersType
    <3>4. CASE RootDelivers(w)
      BY <3>4 DEF RootDelivers, LoggersInv, LoggersType
    <3>5. CASE EndLog(w)
      BY <3>5 DEF EndLog
    <3> QED
      BY <1>2, <3>1, <3>2, <3>3, <3>4, <3>5 DEF Logging
  <2> DEFINE Kept ==
          /\ at' \in [Writers -> At]
          /\ \A u \in Writers : at'[u].step # "idle" =>
                 at[u].step # "idle" /\ at'[u].name = at[u].name
  <2>5. Kept
    <3>1. CASE at' = [at EXCEPT ![w] = NoEvent]
      BY <2>3, <3>1 DEF NoEvent, LoggersInv, LoggersType
    <3>2. ASSUME at[w].step # "idle", NEW step \in {"deliver", "root", "toRoot", "done"},
                 at' = [at EXCEPT ![w] = [at[w] EXCEPT !.step = step]]
          PROVE  Kept
      BY <2>3, <3>2 DEF At, LoggersInv, LoggersType
    <3> QED
      BY <2>4, <3>1, <3>2
  <2>6. LoggersType'
    BY <2>1, <2>2, <2>5 DEF LoggersInv, LoggersType
  <2>7. TaskInv'
    BY <2>1 DEF LoggersInv, TaskInv, Busy, Told, Follows, HalfDone
  <2> QED
    BY <2>6, <2>7 DEF LoggersInv
<1> QED
  BY <1>1, <1>2

LEMMA LoggersStart == Init => LoggersInv
<1> SUFFICES ASSUME Init PROVE LoggersInv
  OBVIOUS
<1>1. LoggersType
  <2>1. loggers \in [Names -> Logger \cup {None}] /\ loggers[Root] # None
    BY LevelsFit, LogsAssumption DEF Init
  <2>2. \A n \in Names : loggers[n] # None => loggers[n].formatter \notin Faulty
    BY LevelsFit DEF Init, NewRoot
  <2>3. task \in Task /\ at \in [Writers -> At] /\ heard \in [Writers -> SUBSET Appender]
        /\ \A w \in Writers : at[w].step = "idle"
    BY LevelsFit DEF Init, NoTask, NoEvent, Task, Ops, At
  <2> QED
    BY <2>1, <2>2, <2>3 DEF LoggersType
<1>2. \A n \in Names : Told(n) = None /\ (loggers[n] = None \/ loggers[n] = Fresh(n))
  BY ConfigAssumption DEF Init, ConfigInit, Told, Fresh
<1>3. TaskInv
  BY <1>2 DEF Init, NoTask, TaskInv, Busy, Follows
<1> QED
  BY <1>1, <1>3 DEF LoggersInv

LEMMA LoggersStep ==
  ASSUME ConfigInv, ConfigInv', LoggersInv, [Next]_vars
  PROVE  LoggersInv'
<1>1. CASE UNCHANGED vars
  BY <1>1, Carried DEF vars, config, Told
<1>2. CASE UNCHANGED logs /\ (Hooking \/ \E v \in Vars : Lookup(v))
  BY <1>2, ConfigCarries
<1>3. ASSUME NEW t \in Loaders, Loading(t) PROVE LoggersInv'
  <2>1. CASE /\ UNCHANGED logs
             /\ \/ LoaderStep(t)
                \/ \E l \in Listeners \ {Slow} : Notify(t, l) \/ ListenerSets(t, l)
    BY <2>1, ConfigCarries
  <2>2. CASE SlowBegins(t)
    BY <2>2, BeginsSafe
  <2>3. CASE SlowStep(t)
    BY <2>3, ObtainSafe, SettersSafe DEF SlowStep
  <2>4. CASE SlowReturns(t)
    BY <2>4, ReturnsSafe
  <2> QED
    BY <1>3, <2>1, <2>2, <2>3, <2>4 DEF Loading
<1>4. ASSUME NEW t \in Loaders, NEW f \in Files, Load(t, f) /\ UNCHANGED logs
      PROVE  LoggersInv'
  BY <1>4, ConfigCarries
<1>5. ASSUME NEW w \in Writers,
             (\E n \in Names, level \in EventLevels : BeginLog(w, n, level)) \/ Logging(w)
      PROVE  LoggersInv'
  BY <1>5, WriterSafe
<1> QED
  BY <1>1, <1>2, <1>3, <1>4, <1>5 DEF Next

LEMMA LoggersHold == Spec => []LoggersInv
BY ConfigHolds, LoggersStart, LoggersStep, PTL DEF Spec

\* Whenever nobody sets "logs", each logger has the level, the appenders and the
\* formatter its value gives it, and one without a definition is as GetLogger makes
\* it or silent, whatever loggers other threads made meanwhile and however many
\* files were loaded at the same time (Log.cc:721-800).
THEOREM LoggersAreExact == Spec => []LoggersExact
<1>1. ASSUME ConfigInv, LoggersInv PROVE LoggersExact
  <2>1. TypeOK
    <3>1. \A n \in Names : loggers[n] = None \/ loggers[n].level \in Debug..Unknown
      BY <1>1 DEF LoggersInv, LoggersType, Logger
    <3> QED
      BY <1>1, <3>1 DEF TypeOK, ConfigInv, ConfigType, LockInv, HeldInv, NestInv, Labels
  <2>2. ASSUME value[SlowVar] # None, writer[SlowVar] = None, NEW n \in Names
        PROVE  Follows(n, loggers[n], value[SlowVar][n])
    <3>1. Told(n) = value[SlowVar][n]
      BY <1>1, <2>2, ToldFits
    <3>2. \A t \in Loaders : pc[t] # "slow"
      BY <1>1, <2>2, ConfigAssumption DEF ConfigInv, LockInv, TodoInv, SlowInv, Locking
    <3>3. task = NoTask
      BY <1>1, <3>2 DEF LoggersInv, TaskInv
    <3> QED
      BY <1>1, <3>1, <3>3 DEF LoggersInv, TaskInv, Busy, NoTask
  <2>3. LoggersMatch
    BY <1>1, <2>2 DEF LoggersMatch, Follows, Sound, LoggersInv, LoggersType
  <2>4. UndefinedSilent
    BY <2>2 DEF UndefinedSilent, Follows
  <2> QED
    BY <2>1, <2>3, <2>4 DEF LoggersExact
<1> QED
  BY <1>1, ConfigHolds, LoggersHold, PTL

-----------------------------------------------------------------------------
(* Who hears an event. *)

\* Appenders that are defined let events of the highest level pass.
LoudValues ==
    \A val \in Values[SlowVar] : \A n \in Names : val[n] # None => Loud(val[n].appenders)

LEMMA HeardStep ==
  ASSUME LoudValues, ConfigInv, LoggersInv, HeardInv, [Next]_vars
  PROVE  HeardInv'
<1>1. CASE UNCHANGED logs
  BY <1>1 DEF HeardInv, Loud, logs
<1>2. \A n \in Names : loggers[n] # None => loggers[n] \in Logger
  BY DEF LoggersInv, LoggersType
<1>3. ASSUME NEW t \in Loaders, SlowBegins(t) PROVE HeardInv'
  BY <1>3 DEF SlowBegins, LoggersInv, LoggersType, HeardInv, Loud
<1>4. ASSUME NEW t \in Loaders, SlowReturns(t) PROVE HeardInv'
  BY <1>4 DEF SlowReturns, NoTask, HeardInv, Loud
<1>5. ASSUME NEW n \in Names, GetLogger(n)
      PROVE  \A m \in Names : loggers'[m] # None =>
                 (m # Root => loggers'[m].root) /\ Loud(loggers'[m].appenders)
  <2>1. NewLogger.root /\ Loud(NewLogger.appenders)
    <3>1. Console.level <= Fatal
      BY LogsAssumption DEF Console
    <3> QED
      BY <3>1 DEF NewLogger, Loud
  <2> QED
    BY <1>5, <2>1 DEF GetLogger, LoggersInv, LoggersType, HeardInv
<1>6. ASSUME NEW t \in Loaders, Obtain(t) PROVE HeardInv'
  <2>1. PICK n \in Names : GetLogger(n) /\ task'.adds = task.adds
    BY <1>6 DEF Obtain, LoggersInv, LoggersType, Task, Ops
  <2> QED
    BY <1>5, <1>6, <2>1 DEF Obtain, HeardInv, Loud
<1>7. ASSUME NEW t \in Loaders,
             SetLevel(t) \/ SetFormatter(t) \/ ClearAppenders(t) \/ AddAppender(t)
      PROVE  HeardInv'
  <2>1. /\ pc[t] = "slow" /\ Busy /\ UNCHANGED <<config, at, heard>>
    BY <1>7 DEF SetLevel, SetFormatter, ClearAppenders, AddAppender, Setting, Busy
  <2>2. /\ task.name \in Names /\ loggers[task.name] # None
        /\ loggers[task.name] \in Logger /\ (task.name # Root => loggers[task.name].root)
        /\ Loud(loggers[task.name].appenders)
    BY <1>2, <2>1 DEF LoggersInv, TaskInv, HalfDone, HeardInv
  <2>3. NewDefinition(t) # None => Loud(NewDefinition(t).appenders)
    BY <2>1, <2>2, ConfigAssumption, EntryFits
       DEF LoudValues, NewDefinition, ConfigInv, LockInv, SlowInv, InSetValue
  <2>4. \A m \in Names : m # task.name => loggers'[m] = loggers[m]
    BY <1>7 DEF SetLevel, SetFormatter, ClearAppenders, AddAppender, LoggersInv, LoggersType
  <2>5. /\ Loud(task'.adds) /\ Loud(loggers'[task.name].appenders)
        /\ task.name # Root => loggers'[task.name].root
    <3> DEFINE old == loggers[task.name]
               new == loggers'[task.name]
    <3>0. DOMAIN loggers = Names
      BY DEF LoggersInv, LoggersType
    <3>1. /\ new.root = old.root
          /\ \/ new.appenders = old.appenders \/ new.appenders = {}
             \/ \E a \in task.adds : new.appenders = old.appenders \cup {a}
      <4>1. CASE SetLevel(t)
        BY <2>2, <3>0, <4>1 DEF SetLevel, Logger
      <4>2. CASE SetFormatter(t)
        BY <2>2, <3>0, <4>2 DEF SetFormatter, Logger
      <4>3. CASE ClearAppenders(t)
        BY <2>2, <3>0, <4>3 DEF ClearAppenders, Logger
      <4>4. CASE AddAppender(t)
        <5> PICK a \in task.adds :
                loggers' = [loggers EXCEPT ![task.name].appenders = @ \cup {a}]
          BY <4>4 DEF AddAppender
        <5>1. new = [old EXCEPT !.appenders = @ \cup {a}]
          BY <2>2, <3>0
        <5>2. new.root = old.root /\ new.appenders = old.appenders \cup {a}
          BY <2>2, <5>1 DEF Logger
        <5> QED
          BY <5>2
      <4> QED
        BY <1>7, <4>1, <4>2, <4>3, <4>4
    <3>2. \/ task'.adds \subseteq task.adds
          \/ NewDefinition(t) # None /\ task'.adds = NewDefinition(t).appenders
      BY <1>7
         DEF SetLevel, SetFormatter, ClearAppenders, AddAppender, LoggersInv, LoggersType, Task, Ops
    <3> HIDE DEF old, new
    <3>3. Loud(task.adds)
      BY DEF HeardInv
    <3> QED
      BY <2>2, <2>3, <3>1, <3>2, <3>3 DEF Loud, old, new
  <2> QED
    BY <2>1, <2>4, <2>5 DEF HeardInv, Loud
<1>8. ASSUME NEW w \in Writers, NEW n \in Names, NEW level \in EventLevels,
             BeginLog(w, n, level)
      PROVE  HeardInv'
  BY <1>5, <1>8 DEF BeginLog, HeardInv, Loud
<1>9. ASSUME NEW w \in Writers, Logging(w) PROVE HeardInv'
  <2>1. UNCHANGED <<loggers, task>>
    BY <1>9 DEF Logging, CheckLevel, Deliver, CheckRoot, RootDelivers, EndLog
  <2> QED
    BY <2>1 DEF HeardInv, Loud
<1> QED
  BY <1>1, <1>3, <1>4, <1>6, <1>7, <1>8, <1>9 DEF Next, Loading, SlowStep, vars

\* Root takes events of the highest level if nothing silences it.
LEMMA RootTakes ==
  ASSUME ConfigInv, LoggersInv, ~RootSilenced
  PROVE  loggers[Root].level <= Fatal /\ loggers[Root].appenders # {}
<1>1. /\ Root \in Names /\ Told(Root) \in Definition \cup {None}
      /\ Follows(Root, loggers[Root], Told(Root)) /\ loggers[Root] # None
  BY ToldFits, LevelsInOrder DEF RootSilenced, LoggersInv, LoggersType, TaskInv
<1>2. CASE Told(Root) = None
  BY <1>2, LevelsInOrder DEF RootSilenced, NewRoot
<1>3. CASE Told(Root) # None
  <2>1. Told(Root).level \in Int /\ ~(Told(Root).level > Fatal)
    BY <1>1, <1>3, LevelsInOrder DEF RootSilenced, Definition
  <2> QED
    BY <1>1, <1>3, <2>1, LevelsInOrder DEF RootSilenced, Follows
<1> QED
  BY <1>2, <1>3

\* Whoever lets such an event pass has appenders that take it, or root has.
LEMMA EventReaches ==
  ASSUME ConfigInv, LoggersInv, HeardInv, [Next]_vars, NEW w \in Writers,
         at[w].level = Fatal, at[w].step # "done", at'[w].step = "done", heard'[w] = {}
  PROVE  RootSilenced
<1> SUFFICES ASSUME ~RootSilenced PROVE FALSE
  OBVIOUS
<1>1. UNCHANGED at \/ \E u \in Writers :
          (\E n \in Names, level \in EventLevels : BeginLog(u, n, level)) \/ Logging(u)
  BY DEF Next, vars, logs, Loading, SlowBegins, SlowStep, Obtain, SetLevel, SetFormatter,
         ClearAppenders, AddAppender, SlowReturns
<1>2. PICK u \in Writers :
          (\E n \in Names, level \in EventLevels : BeginLog(u, n, level)) \/ Logging(u)
  BY <1>1
<1>3. Logging(w)
  <2>1. u # w => at'[w] = at[w]
    BY <1>2
       DEF BeginLog, Logging, CheckLevel, Deliver, CheckRoot, RootDelivers, EndLog,
           LoggersInv, LoggersType
  <2>2. ASSUME NEW n \in Names, NEW level \in EventLevels, BeginLog(w, n, level) PROVE FALSE
    BY <2>2 DEF BeginLog, LoggersInv, LoggersType
  <2> QED
    BY <1>2, <2>1, <2>2
<1>4. ASSUME NEW logger \in Logger, Loud(logger.appenders), logger.appenders # {}
      PROVE  Takers(logger, Fatal) # {}
  BY <1>4, LevelsInOrder DEF Takers, Loud, Logger, Appender
<1>5. /\ Root \in Names /\ loggers[Root] \in Logger /\ Loud(loggers[Root].appenders)
      /\ loggers[Root].level \in Int
      /\ Takers(loggers[Root], Fatal) # {}
  BY <1>4, RootTakes, LevelsInOrder DEF LoggersInv, LoggersType, Logger, HeardInv
<1>6. CASE CheckLevel(w)
  BY <1>6 DEF CheckLevel, NoEvent, LoggersInv, LoggersType
<1>7. CASE Deliver(w)
  <2> DEFINE logger == loggers[at[w].name]
  <2>1. /\ at[w].name \in Names /\ logger \in Logger /\ Loud(logger.appenders)
        /\ at[w].name # Root => logger.root
    BY <1>7 DEF Deliver, LoggersInv, LoggersType, HeardInv
  <2>2. /\ ~(logger.appenders = {} /\ logger.root)
        /\ Takers(logger, Fatal) = {}
    BY <1>7 DEF Deliver, LoggersInv, LoggersType
  <2>3. logger.appenders = {}
    BY <1>4, <2>1, <2>2
  <2> QED
    BY <2>1, <2>2, <2>3, RootTakes
<1>8. CASE CheckRoot(w)
  BY <1>5, <1>8, RootTakes, LevelsInOrder DEF CheckRoot, LoggersInv, LoggersType
<1>9. CASE RootDelivers(w)
  BY <1>5, <1>9 DEF RootDelivers, LoggersInv, LoggersType
<1>10. CASE EndLog(w)
  BY <1>10 DEF EndLog
<1> QED
  BY <1>3, <1>6, <1>7, <1>8, <1>9, <1>10 DEF Logging

\* An event of the highest level that passes its logger's level reaches an appender
\* of it or of root, also while the listener takes the logger's appenders away and
\* adds others, if no appender is defined to refuse it and "logs" does not redefine
\* or silence root (Log.cc:498-515, 664-672, 758-796).
THEOREM FatalIsHeard ==
  ASSUME LoudValues
  PROVE  Spec => Heard
<1>1. Init => HeardInv
  <2>1. Loud(NewRoot.appenders)
    BY LevelsInOrder DEF NewRoot, Console, Loud
  <2> QED
    BY <2>1, LevelsInOrder DEF Init, NoTask, HeardInv, Loud
<1>2. ASSUME ConfigInv, LoggersInv, HeardInv, [Next]_vars PROVE HeardInv'
  BY <1>2, HeardStep
<1>3. ConfigInv /\ LoggersInv /\ HeardInv /\ [Next]_vars =>
          [\A w \in Writers :
               at[w].level = Fatal /\ at[w].step # "done" /\ at'[w].step = "done"
                   /\ heard'[w] = {} => RootSilenced]_vars
  BY EventReaches
<1> QED
  BY <1>1, <1>2, <1>3, ConfigHolds, LoggersHold, PTL DEF Spec, Heard

-----------------------------------------------------------------------------
(* Induction *)

\* The order of the natural numbers, as a relation.
LessThan == {ss \in Nat \X Nat : ss[1] < ss[2]}

\* A set of natural numbers that is not empty has a least element.
LEMMA LeastNat ==
    ASSUME NEW T \in SUBSET Nat, T # {}
    PROVE  \E x \in T : \A y \in T : x <= y
<1>1. LessThan = OpToRel(<, Nat)
  BY DEF LessThan, OpToRel
<1>2. IsWellFoundedOn(LessThan, Nat)
  BY <1>1, NatLessThanWellFounded
<1>3. PICK x \in T : \A y \in T : ~ (<<y, x>> \in LessThan)
  BY <1>2, WFMin, Zenon
<1>4. \A y \in T : ~(y < x)
  BY <1>3 DEF LessThan
<1> QED BY <1>4

\* Induction over a set of numbers, which needs no operator as a parameter.
LEMMA InductionOnSet ==
    ASSUME NEW T \in SUBSET Nat, 0 \in T, \A n \in T : n + 1 \in T
    PROVE  T = Nat
<1> SUFFICES ASSUME Nat \ T # {} PROVE FALSE
  OBVIOUS
<1>1. PICK x \in Nat \ T : \A y \in Nat \ T : x <= y
  BY LeastNat
<1>2. x # 0 /\ x - 1 \in Nat
  BY <1>1
<1>3. x - 1 \in T
  BY <1>1, <1>2
<1> QED BY <1>1, <1>2, <1>3

-----------------------------------------------------------------------------
(* The loop over a pattern *)

\* What a search finds.
LEMMA FirstInFinds ==
    ASSUME NEW p, Len(p) \in Nat, NEW D, NEW from \in Nat, from <= Len(p) + 1
    PROVE  /\ FirstIn(p, D, from) \in from..(Len(p) + 1)
           /\ \A i \in from..(FirstIn(p, D, from) - 1) : p[i] \notin D
           /\ FirstIn(p, D, from) <= Len(p) => p[FirstIn(p, D, from)] \in D
<1> DEFINE hits == {i \in from..Len(p) : p[i] \in D}
<1>1. CASE hits = {}
  <2>1. FirstIn(p, D, from) = Len(p) + 1
    BY <1>1 DEF FirstIn
  <2>2. \A i \in from..Len(p) : p[i] \notin D
    BY <1>1
  <2> QED BY <2>1, <2>2
<1>2. CASE hits # {}
  <2>1. hits \in SUBSET Nat
    OBVIOUS
  <2>2. \E x \in hits : \A y \in hits : x <= y
    <3> HIDE DEF hits
    <3> QED BY <1>2, <2>1, LeastNat
  <2>3. FirstIn(p, D, from) = CHOOSE i \in hits : \A j \in hits : i <= j
    BY <1>2 DEF FirstIn
  <2>4. FirstIn(p, D, from) \in hits /\ \A j \in hits : FirstIn(p, D, from) <= j
    <3> HIDE DEF hits
    <3> QED BY <2>2, <2>3
  <2> QED BY <2>4
<1> QED BY <1>1, <1>2

\* It finds the first.
IsFirst(p, D, from, k) ==
    /\ Len(p) \in Nat /\ from \in Nat /\ k \in from..(Len(p) + 1)
    /\ \A i \in from..(k - 1) : p[i] \notin D
    /\ k <= Len(p) => p[k] \in D

LEMMA FirstInIs ==
    ASSUME NEW p, NEW D, NEW from, NEW k, IsFirst(p, D, from, k)
    PROVE  FirstIn(p, D, from) = k
<1> USE DEF IsFirst
<1> PICK x : x = FirstIn(p, D, from)
  OBVIOUS
<1>1. /\ x \in from..(Len(p) + 1) /\ \A i \in from..(x - 1) : p[i] \notin D
      /\ x <= Len(p) => p[x] \in D
  BY FirstInFinds
<1>2. ~(x < k)
  <2> SUFFICES ASSUME x < k PROVE FALSE
    OBVIOUS
  <2>1. x \in from..(k - 1) /\ x <= Len(p)
    BY <1>1
  <2> QED BY <1>1, <2>1
<1>3. ~(k < x)
  <2> SUFFICES ASSUME k < x PROVE FALSE
    OBVIOUS
  <2>1. k \in from..(x - 1) /\ k <= Len(p)
    BY <1>1
  <2> QED BY <1>1, <2>1
<1> QED BY <1>1, <1>2, <1>3

\* An item ends behind its "%".
LEMMA ItemEnds ==
    ASSUME NEW p, Len(p) \in Nat, NEW i \in 1..Len(p)
    PROVE  ItemAt(p, i).next \in (i + 1)..(Len(p) + 1)
<1>1. PICK D : D = {p[j] : j \in DOMAIN p} \ (Letters \cup {"}"})
  OBVIOUS
<1>2. PICK stop : stop = FirstIn(p, D, i + 1)
  OBVIOUS
<1>3. PICK close : close = FirstIn(p, {"}"}, stop + 1)
  OBVIOUS
<1>4. PICK name : name = SubSeq(p, i + 1, stop - 1)
  OBVIOUS
<1>5. ItemAt(p, i) =
          IF stop > Len(p) \/ p[stop] # "{" THEN [token |-> Item(name, <<>>), next |-> stop]
          ELSE IF close > Len(p) THEN [token |-> Broken, next |-> i + 1]
          ELSE [token |-> Item(name, SubSeq(p, stop + 1, close - 1)), next |-> close + 1]
  BY <1>1, <1>2, <1>3, <1>4 DEF ItemAt
<1>6. stop \in (i + 1)..(Len(p) + 1)
  <2>1. i + 1 \in Nat /\ i + 1 <= Len(p) + 1
    OBVIOUS
  <2>2. FirstIn(p, D, i + 1) \in (i + 1)..(Len(p) + 1)
    BY <2>1, FirstInFinds
  <2> QED BY <1>2, <2>2
<1>7. stop <= Len(p) => close \in (stop + 1)..(Len(p) + 1)
  <2> SUFFICES ASSUME stop <= Len(p) PROVE close \in (stop + 1)..(Len(p) + 1)
    OBVIOUS
  <2>1. stop + 1 \in Nat /\ stop + 1 <= Len(p) + 1
    BY <1>6
  <2>2. FirstIn(p, {"}"}, stop + 1) \in (stop + 1)..(Len(p) + 1)
    BY <2>1, FirstInFinds
  <2> QED BY <1>3, <2>2
<1>8. CASE stop > Len(p) \/ p[stop] # "{"
  <2>1. ItemAt(p, i) = [token |-> Item(name, <<>>), next |-> stop]
    BY <1>5, <1>8, Zenon
  <2>2. ItemAt(p, i).next = stop
    BY <2>1
  <2> QED BY <1>6, <2>2
<1>9. CASE ~(stop > Len(p) \/ p[stop] # "{") /\ close > Len(p)
  <2>1. ItemAt(p, i) = [token |-> Broken, next |-> i + 1]
    BY <1>5, <1>9, Zenon
  <2>2. ItemAt(p, i).next = i + 1
    BY <2>1
  <2> QED BY <2>2
<1>10. CASE ~(stop > Len(p) \/ p[stop] # "{") /\ ~(close > Len(p))
  <2>1. ItemAt(p, i) =
            [token |-> Item(name, SubSeq(p, stop + 1, close - 1)), next |-> close + 1]
    BY <1>5, <1>10, Zenon
  <2>2. ItemAt(p, i).next = close + 1
    BY <2>1
  <2>3. ~(stop > Len(p)) /\ ~(close > Len(p))
    BY <1>10, Zenon
  <2>4. stop <= Len(p)
    BY <1>6, <2>3
  <2> QED BY <1>6, <1>7, <2>2, <2>3, <2>4
<1> QED BY <1>8, <1>9, <1>10

\* One turn of the loop.
TokenBody(p, f, i) ==
    IF i > Len(p) THEN <<>>
    ELSE IF p[i] # "%" \/ (i < Len(p) /\ p[i + 1] = "%")
         THEN <<Text(<<p[i]>>)>> \o f[i + 1]
    ELSE <<ItemAt(p, i).token>> \o f[ItemAt(p, i).next]

\* The recursive function is defined.
LEMMA TokensDef ==
    ASSUME NEW p, Len(p) \in Nat
    PROVE  \E f : /\ Tokens(p) = f[1]
                  /\ \A i \in 1..(Len(p) + 1) : f[i] = TokenBody(p, f, i)
<1> DEFINE Good(m, g) == g = [i \in (Len(p) + 1 - m)..(Len(p) + 1) |-> TokenBody(p, g, i)]
           M == {m \in Nat : m < Len(p) + 1 => \E g : Good(m, g)}
<1>1. PICK N \in Nat \ {0} : N = Len(p) + 1
  OBVIOUS
<1>2. 0 \in M
  <2> DEFINE g == [i \in (Len(p) + 1 - 0)..(Len(p) + 1) |-> <<>>]
  <2>1. \A i \in (Len(p) + 1 - 0)..(Len(p) + 1) : TokenBody(p, g, i) = <<>>
    BY DEF TokenBody
  <2>2. Good(0, g)
    BY <2>1
  <2> QED BY <2>2
<1>3. ASSUME NEW m \in M PROVE m + 1 \in M
  <2> SUFFICES ASSUME m + 1 < Len(p) + 1 PROVE \E h : Good(m + 1, h)
    <3> HIDE DEF Good
    <3> QED OBVIOUS
  <2>1. m \in Nat /\ m < Len(p) + 1
    OBVIOUS
  <2>2. PICK g : Good(m, g)
    <3> HIDE DEF Good
    <3> QED BY <2>1
  <2>3. PICK k \in 1..Len(p) : k = Len(p) + 1 - (m + 1) /\ Len(p) + 1 - m = k + 1
    BY <2>1
  <2> DEFINE h == [i \in k..N |-> IF i = k THEN TokenBody(p, g, k) ELSE g[i]]
  <2>4. \A i \in (k + 1)..N : g[i] = TokenBody(p, g, i) /\ h[i] = g[i]
    <3> SUFFICES ASSUME NEW i \in (k + 1)..N
                 PROVE  g[i] = TokenBody(p, g, i) /\ h[i] = g[i]
      OBVIOUS
    <3>1. g = [j \in (k + 1)..N |-> TokenBody(p, g, j)]
      BY <1>1, <2>2, <2>3
    <3>2. i \in k..N /\ i # k
      BY <1>1, <2>3
    <3>3. g[i] = TokenBody(p, g, i)
      BY <3>1
    <3> QED BY <3>2, <3>3
  <2>5. ASSUME NEW i \in k..N PROVE TokenBody(p, h, i) = TokenBody(p, g, i)
    <3>1. CASE i > Len(p)
      BY <3>1 DEF TokenBody
    <3>2. CASE i <= Len(p)
      <4>1. i + 1 \in (k + 1)..N
        BY <1>1, <2>3, <3>2
      <4>2. ItemAt(p, i).next \in (k + 1)..N
        <5>1. i \in 1..Len(p)
          BY <2>3, <3>2
        <5>2. ItemAt(p, i).next \in (i + 1)..(Len(p) + 1)
          BY <5>1, ItemEnds
        <5> QED BY <1>1, <2>3, <5>2
      <4>3. h[i + 1] = g[i + 1] /\ h[ItemAt(p, i).next] = g[ItemAt(p, i).next]
        BY <2>4, <4>1, <4>2
      <4> HIDE DEF h
      <4> QED BY <4>3 DEF TokenBody
    <3> QED BY <1>1, <2>3, <3>1, <3>2
  <2>6. ASSUME NEW i \in k..N PROVE h[i] = TokenBody(p, g, i)
    <3>1. CASE i = k
      BY <3>1
    <3>2. CASE i # k
      <4>1. i \in (k + 1)..N
        BY <1>1, <2>3, <3>2
      <4> HIDE DEF h
      <4> QED BY <2>4, <4>1
    <3> QED BY <3>1, <3>2
  <2>7. h = [i \in k..N |-> TokenBody(p, h, i)]
    BY <2>5, <2>6
  <2>8. Good(m + 1, h)
    BY <1>1, <2>3, <2>7
  <2> HIDE DEF Good, h
  <2> QED BY <2>8
<1>4. M = Nat
  <2>1. M \in SUBSET Nat
    OBVIOUS
  <2> HIDE DEF M
  <2> QED BY <1>2, <1>3, <2>1, InductionOnSet
<1>5. PICK g : Good(Len(p), g)
  <2>1. Len(p) \in Nat /\ Len(p) < Len(p) + 1
    OBVIOUS
  <2> HIDE DEF Good
  <2> QED BY <1>4, <2>1
<1> DEFINE IsFrom(f) == f = [i \in 1..(Len(p) + 1) |->
                IF i > Len(p) THEN <<>>
                ELSE IF p[i] # "%" \/ (i < Len(p) /\ p[i + 1] = "%")
                     THEN <<Text(<<p[i]>>)>> \o f[i + 1]
                ELSE <<ItemAt(p, i).token>> \o f[ItemAt(p, i).next]]
<1>6. IsFrom(g)
  <2>1. Len(p) + 1 - Len(p) = 1
    OBVIOUS
  <2>2. g = [i \in 1..(Len(p) + 1) |-> TokenBody(p, g, i)]
    BY <1>5, <2>1
  <2> QED BY <2>2 DEF TokenBody
<1>7. IsFrom(CHOOSE f : IsFrom(f))
  <2> HIDE DEF IsFrom
  <2> QED BY <1>6
<1>8. PICK f : f = CHOOSE x : IsFrom(x)
  OBVIOUS
<1>9. Tokens(p) = f[1]
  BY <1>8 DEF Tokens
<1>10. IsFrom(f)
  <2> HIDE DEF IsFrom
  <2> QED BY <1>7, <1>8
<1>11. \A i \in 1..(Len(p) + 1) : f[i] = TokenBody(p, f, i)
  BY <1>10 DEF TokenBody
<1> QED BY <1>9, <1>11

-----------------------------------------------------------------------------
(* What stands in the middle of a sequence *)

\* Named, for the provers to see which three are meant.
Associates(a, b, c) == (a \o b) \o c = a \o (b \o c)

LEMMA AllAssociate ==
    ASSUME NEW C, NEW a \in Seq(C), NEW b \in Seq(C), NEW c \in Seq(C)
    PROVE  Associates(a, b, c)
BY ConcatAssociative DEF Associates

IsMiddle(p, a, m, b) == p = a \o (m \o b)

LEMMA InTheMiddle ==
    ASSUME NEW C, NEW a \in Seq(C), NEW m \in Seq(C), NEW b \in Seq(C),
           NEW p, IsMiddle(p, a, m, b)
    PROVE  /\ p \in Seq(C) /\ Len(p) = Len(a) + Len(m) + Len(b)
           /\ Len(a) \in Nat /\ Len(m) \in Nat /\ Len(b) \in Nat
           /\ \A k \in 1..Len(m) : p[Len(a) + k] = m[k]
           /\ b # <<>> => p[Len(a) + Len(m) + 1] = b[1]
           /\ SubSeq(p, Len(a) + 1, Len(a) + Len(m)) = m
<1>1. PICK q \in Seq(C) : q = m \o b
  BY ConcatProperties
<1>2. /\ Len(q) = Len(m) + Len(b)
      /\ \A k \in 1..(Len(m) + Len(b)) :
             q[k] = IF k <= Len(m) THEN m[k] ELSE b[k - Len(m)]
  BY <1>1, ConcatProperties
<1>3. /\ p \in Seq(C) /\ Len(p) = Len(a) + Len(q)
      /\ \A k \in 1..(Len(a) + Len(q)) :
             p[k] = IF k <= Len(a) THEN a[k] ELSE q[k - Len(a)]
  <2>1. p = a \o q
    BY <1>1, Zenon DEF IsMiddle
  <2>2. /\ a \o q \in Seq(C) /\ Len(a \o q) = Len(a) + Len(q)
        /\ \A k \in 1..(Len(a) + Len(q)) :
             (a \o q)[k] = IF k <= Len(a) THEN a[k] ELSE q[k - Len(a)]
    BY ConcatProperties
  <2> QED BY <2>1, <2>2, Zenon
<1>4. Len(a) \in Nat /\ Len(m) \in Nat /\ Len(b) \in Nat
  OBVIOUS
<1>5. ASSUME NEW k \in 1..Len(m) PROVE p[Len(a) + k] = m[k]
  <2>1. PICK j : j = Len(a) + k
    OBVIOUS
  <2>2. j \in 1..(Len(a) + Len(q)) /\ ~(j <= Len(a)) /\ j - Len(a) = k
    BY <1>2, <1>4, <2>1
  <2>3. p[j] = q[k]
    <3>1. p[j] = IF j <= Len(a) THEN a[j] ELSE q[j - Len(a)]
      BY <1>3, <2>2
    <3> QED BY <2>2, <3>1
  <2>4. k \in 1..(Len(m) + Len(b)) /\ k <= Len(m)
    BY <1>4
  <2>5. q[k] = m[k]
    BY <1>2, <2>4
  <2> QED BY <2>1, <2>3, <2>5, Zenon
<1>6. ASSUME b # <<>> PROVE p[Len(a) + Len(m) + 1] = b[1]
  <2>1. Len(b) >= 1
    BY <1>6, EmptySeq
  <2>2. PICK k : k = Len(m) + 1
    OBVIOUS
  <2>3. PICK j : j = Len(a) + Len(m) + 1
    OBVIOUS
  <2>4. j \in 1..(Len(a) + Len(q)) /\ ~(j <= Len(a)) /\ j - Len(a) = k
    BY <1>2, <1>4, <2>1, <2>2, <2>3
  <2>5. p[j] = q[k]
    <3>1. p[j] = IF j <= Len(a) THEN a[j] ELSE q[j - Len(a)]
      BY <1>3, <2>4
    <3> QED BY <2>4, <3>1
  <2>6. k \in 1..(Len(m) + Len(b)) /\ ~(k <= Len(m)) /\ k - Len(m) = 1
    BY <1>4, <2>1, <2>2
  <2>7. q[k] = b[1]
    <3>1. q[k] = IF k <= Len(m) THEN m[k] ELSE b[k - Len(m)]
      BY <1>2, <2>6
    <3> QED BY <2>6, <3>1
  <2> QED BY <2>3, <2>5, <2>7, Zenon
<1>7. SubSeq(p, Len(a) + 1, Len(a) + Len(m)) = m
  <2>1. PICK s : s = SubSeq(p, Len(a) + 1, Len(a) + Len(m))
    OBVIOUS
  <2>2. s = [k \in 1..Len(m) |-> p[k + Len(a)]]
    <3>1. s = [k \in 1..(1 + Len(a) + Len(m) - (Len(a) + 1)) |-> p[k + (Len(a) + 1) - 1]]
      BY <2>1 DEF SubSeq
    <3>2. 1 + Len(a) + Len(m) - (Len(a) + 1) = Len(m)
      BY <1>4
    <3>3. \A k \in 1..Len(m) : k + (Len(a) + 1) - 1 = k + Len(a)
      BY <1>4
    <3> QED BY <3>1, <3>2, <3>3
  <2>3. \A k \in 1..Len(m) : s[k] = m[k]
    <3> SUFFICES ASSUME NEW k \in 1..Len(m) PROVE s[k] = m[k]
      OBVIOUS
    <3>1. s[k] = p[k + Len(a)] /\ k + Len(a) = Len(a) + k
      BY <1>4, <2>2
    <3> QED BY <1>5, <3>1
  <2>4. m = [k \in 1..Len(m) |-> m[k]]
    BY <1>4
  <2> QED BY <2>1, <2>2, <2>3, <2>4
<1>8. Len(p) = Len(a) + Len(m) + Len(b)
  BY <1>2, <1>3, <1>4
<1> QED BY <1>3, <1>4, <1>5, <1>6, <1>7, <1>8, Zenon

-----------------------------------------------------------------------------
(* One turn of the loop takes one piece *)

\* A character of text.
LEMMA TakesText ==
    ASSUME NEW C, NEW h \in Seq(C), NEW w \in Seq(C), NEW c \in C, c # "%",
           NEW p, IsMiddle(p, h, <<c>>, w), NEW f
    PROVE  TokenBody(p, f, Len(h) + 1) = <<Text(<<c>>)>> \o f[Len(h) + 1 + 1]
<1>1. <<c>> \in Seq(C) /\ Len(<<c>>) = 1 /\ <<c>>[1] = c
  OBVIOUS
<1>2. /\ Len(p) = Len(h) + Len(<<c>>) + Len(w)
      /\ Len(h) \in Nat /\ Len(w) \in Nat
      /\ \A k \in 1..Len(<<c>>) : p[Len(h) + k] = <<c>>[k]
  <2>1. PICK y \in Seq(C) : y = <<c>>
    BY <1>1
  <2>2. IsMiddle(p, h, y, w)
    BY <2>1, Zenon
  <2>3. /\ Len(p) = Len(h) + Len(y) + Len(w)
        /\ Len(h) \in Nat /\ Len(w) \in Nat
        /\ \A k \in 1..Len(y) : p[Len(h) + k] = y[k]
    BY <2>2, InTheMiddle
  <2> QED BY <2>1, <2>3, Zenon
<1>3. 1 \in 1..Len(<<c>>)
  BY <1>1
<1>4. p[Len(h) + 1] = c
  BY <1>1, <1>2, <1>3
<1>5. ~(Len(h) + 1 > Len(p))
  BY <1>1, <1>2
<1> QED BY <1>4, <1>5 DEF TokenBody

\* Where the name of an item stops.
Stops(p, a, n, w, L) ==
    /\ IsMiddle(p, a, n, w)
    /\ \A k \in 1..Len(n) : n[k] \in L
    /\ w # <<>> => w[1] \notin L

LEMMA NameStops ==
    ASSUME NEW C, NEW a \in Seq(C), NEW n \in Seq(C), NEW w \in Seq(C), NEW p, NEW L,
           Stops(p, a, n, w, L)
    PROVE  FirstIn(p, {p[j] : j \in DOMAIN p} \ L, Len(a) + 1) = Len(a) + Len(n) + 1
<1>1. /\ p \in Seq(C) /\ Len(p) = Len(a) + Len(n) + Len(w)
      /\ Len(a) \in Nat /\ Len(n) \in Nat /\ Len(w) \in Nat
      /\ \A k \in 1..Len(n) : p[Len(a) + k] = n[k]
      /\ w # <<>> => p[Len(a) + Len(n) + 1] = w[1]
  BY InTheMiddle DEF Stops
<1>2. /\ Len(p) = Len(a) + Len(n) + Len(w)
      /\ Len(a) \in Nat /\ Len(n) \in Nat /\ Len(w) \in Nat
  BY <1>1
<1>3. PICK D : D = {p[j] : j \in DOMAIN p} \ L
  OBVIOUS
<1>4. PICK z : z = Len(a) + Len(n) + 1
  OBVIOUS
<1>5. Len(p) \in Nat /\ Len(a) + 1 \in Nat /\ z \in (Len(a) + 1)..(Len(p) + 1)
  BY <1>2, <1>4
<1>6. \A i \in (Len(a) + 1)..(z - 1) : p[i] \notin D
  <2> SUFFICES ASSUME NEW i \in (Len(a) + 1)..(z - 1) PROVE p[i] \notin D
    OBVIOUS
  <2>1. PICK k : k = i - Len(a)
    OBVIOUS
  <2>2. k \in 1..Len(n) /\ Len(a) + k = i
    BY <1>2, <1>4, <2>1
  <2>3. p[i] = n[k]
    BY <1>1, <2>2
  <2> QED BY <1>3, <2>2, <2>3 DEF Stops
<1>7. z <= Len(p) => p[z] \in D
  <2> SUFFICES ASSUME z <= Len(p) PROVE p[z] \in D
    OBVIOUS
  <2>1. w # <<>>
    <3> SUFFICES ASSUME w = <<>> PROVE FALSE
      OBVIOUS
    <3>1. Len(w) = 0
      OBVIOUS
    <3> QED BY <1>2, <1>4, <3>1
  <2>2. p[z] \notin L
    BY <1>1, <1>4, <2>1 DEF Stops
  <2>3. z \in DOMAIN p
    <3>1. z \in 1..Len(p)
      BY <1>2, <1>4
    <3> QED BY <1>1, <3>1
  <2> QED BY <1>3, <2>2, <2>3
<1>8. FirstIn(p, D, Len(a) + 1) = z
  <2>1. IsFirst(p, D, Len(a) + 1, z)
    BY <1>5, <1>6, <1>7 DEF IsFirst
  <2> QED BY <2>1, FirstInIs
<1> QED BY <1>3, <1>4, <1>8

\* What ItemAt takes, when it is known where the name and the format stop.
NameAt(p, i, stop, n) ==
    /\ stop = FirstIn(p, {p[j] : j \in DOMAIN p} \ (Letters \cup {"}"}), i + 1)
    /\ n = SubSeq(p, i + 1, stop - 1)
PlainAt(p, i, stop, n) ==
    NameAt(p, i, stop, n) /\ (stop > Len(p) \/ p[stop] # "{")
FormatAt(p, i, stop, close, n, fm) ==
    /\ NameAt(p, i, stop, n) /\ ~(stop > Len(p)) /\ p[stop] = "{"
    /\ close = FirstIn(p, {"}"}, stop + 1) /\ ~(close > Len(p))
    /\ fm = SubSeq(p, stop + 1, close - 1)

LEMMA TakesPlain ==
    ASSUME NEW p, NEW i, NEW stop, NEW n, PlainAt(p, i, stop, n)
    PROVE  ItemAt(p, i) = [token |-> Item(n, <<>>), next |-> stop]
<1>1. PICK close : close = FirstIn(p, {"}"}, stop + 1)
  OBVIOUS
<1>2. ItemAt(p, i) =
          IF stop > Len(p) \/ p[stop] # "{" THEN [token |-> Item(n, <<>>), next |-> stop]
          ELSE IF close > Len(p) THEN [token |-> Broken, next |-> i + 1]
          ELSE [token |-> Item(n, SubSeq(p, stop + 1, close - 1)), next |-> close + 1]
  BY <1>1 DEF ItemAt, PlainAt, NameAt
<1> QED BY <1>2, Zenon DEF PlainAt

LEMMA TakesFormat ==
    ASSUME NEW p, NEW i, NEW stop, NEW close, NEW n, NEW fm,
           FormatAt(p, i, stop, close, n, fm)
    PROVE  ItemAt(p, i) = [token |-> Item(n, fm), next |-> close + 1]
<1>1. ItemAt(p, i) =
          IF stop > Len(p) \/ p[stop] # "{" THEN [token |-> Item(n, <<>>), next |-> stop]
          ELSE IF close > Len(p) THEN [token |-> Broken, next |-> i + 1]
          ELSE [token |-> Item(n, fm), next |-> close + 1]
  BY DEF ItemAt, FormatAt, NameAt
<1> QED BY <1>1, Zenon DEF FormatAt

\* The characters a pattern is made of.
Signs == {"%", "{", "}"}

\* How an item is written, and where its parts stand in a pattern.
Braces(fm) == IF fm = <<>> THEN <<>> ELSE <<"{">> \o fm \o <<"}">>

AsItem(C, n, fm) ==
    /\ Source(Item(n, fm)) = <<"%">> \o n \o Braces(fm)
    /\ Braces(fm) \in Seq(C) /\ Source(Item(n, fm)) \in Seq(C)
    /\ Len(Source(Item(n, fm))) = 1 + Len(n) + Len(Braces(fm))
    /\ Len(Braces(fm)) = IF fm = <<>> THEN 0 ELSE 2 + Len(fm)

LEMMA ItemParts ==
    ASSUME NEW C, Signs \subseteq C, NEW n \in Seq(C), NEW fm \in Seq(C)
    PROVE  AsItem(C, n, fm)
<1>1. PICK sg \in C, op \in C, cl \in C : sg = "%" /\ op = "{" /\ cl = "}"
  BY Zenon DEF Signs
<1>2. /\ <<sg>> \in Seq(C) /\ <<op>> \in Seq(C) /\ <<cl>> \in Seq(C)
      /\ Len(<<sg>>) = 1 /\ Len(<<op>>) = 1 /\ Len(<<cl>>) = 1
  OBVIOUS
<1>3. PICK g : g = IF fm = <<>> THEN <<>> ELSE <<op>> \o fm \o <<cl>>
  OBVIOUS
<1>4. Len(n) \in Nat /\ Len(fm) \in Nat
  OBVIOUS
<1>5. g \in Seq(C) /\ Len(g) = IF fm = <<>> THEN 0 ELSE 2 + Len(fm)
  <2>1. CASE fm = <<>>
    <3>1. g = <<>>
      BY <1>3, <2>1
    <3> QED BY <2>1, <3>1
  <2>2. CASE fm # <<>>
    <3>1. PICK e \in Seq(C) : e = <<op>> \o fm
      BY <1>2, ConcatProperties
    <3>2. Len(e) = 1 + Len(fm)
      BY <1>2, <3>1, ConcatProperties
    <3>3. g = e \o <<cl>>
      BY <1>3, <2>2, <3>1
    <3>4. e \o <<cl>> \in Seq(C) /\ Len(e \o <<cl>>) = Len(e) + Len(<<cl>>)
      BY <1>2, ConcatProperties
    <3> QED BY <1>2, <1>4, <2>2, <3>2, <3>3, <3>4
  <2> QED BY <2>1, <2>2
<1>6. PICK e \in Seq(C) : e = <<sg>> \o n
  BY <1>2, ConcatProperties
<1>7. Len(e) = 1 + Len(n)
  BY <1>2, <1>6, ConcatProperties
<1>8. PICK s : s = e \o g
  OBVIOUS
<1>9. s \in Seq(C) /\ Len(s) = Len(e) + Len(g)
  BY <1>5, <1>8, ConcatProperties
<1>10. Len(g) \in Nat
  BY <1>5
<1>11. Len(s) = 1 + Len(n) + Len(g)
  BY <1>4, <1>7, <1>9, <1>10
<1>12. /\ Item(n, fm).kind # "text" /\ Item(n, fm).name = n /\ Item(n, fm).fmt = fm
  BY DEF Item
<1>13. Source(Item(n, fm)) = <<"%">> \o n \o (IF fm = <<>> THEN <<>> ELSE <<"{">> \o fm \o <<"}">>)
  BY <1>12, Zenon DEF Source
<1>14. g = IF fm = <<>> THEN <<>> ELSE <<"{">> \o fm \o <<"}">>
  BY <1>1, <1>3, Zenon
<1>15. g = Braces(fm)
  BY <1>14 DEF Braces
<1>16. s = <<"%">> \o n \o g /\ Source(Item(n, fm)) = s
  BY <1>1, <1>6, <1>8, <1>13, <1>14, Zenon
<1> QED BY <1>5, <1>9, <1>11, <1>15, <1>16, Zenon DEF AsItem

\* A name: letters.
IsName(n) == n # <<>> /\ \A k \in 1..Len(n) : n[k] \in Letters

\* What ends a name, and what does not begin a format either.
EndsName(u)  == u # <<>> => u[1] \notin Letters \cup {"}"}
EndsPlain(u) == u # <<>> => u[1] \notin Letters \cup {"{", "}"}

\* The place of an item: its "%", its name, and what comes after its name.
Place(C, p, h, n, u, sg) ==
    /\ p \in Seq(C) /\ Len(p) = Len(h) + 1 + Len(n) + Len(u)
    /\ p[Len(h) + 1] = sg /\ p[Len(h) + 1 + 1] # "%"
    /\ FirstIn(p, {p[j] : j \in DOMAIN p} \ (Letters \cup {"}"}), Len(h) + 1 + 1)
           = Len(h) + 1 + Len(n) + 1
    /\ SubSeq(p, Len(h) + 1 + 1, Len(h) + 1 + Len(n)) = n
    /\ u # <<>> => p[Len(h) + 1 + Len(n) + 1] = u[1]

LEMMA ItemPlace ==
    ASSUME NEW C, NEW h \in Seq(C), NEW n \in Seq(C), NEW u \in Seq(C), NEW sg \in C,
           IsName(n), EndsName(u), NEW p, IsMiddle(p, h \o <<sg>>, n, u)
    PROVE  Place(C, p, h, n, u, sg)
<1>1. <<sg>> \in Seq(C) /\ Len(<<sg>>) = 1 /\ <<sg>>[1] = sg
  OBVIOUS
<1>2. PICK a \in Seq(C) : a = h \o <<sg>>
  BY <1>1, ConcatProperties
<1>3. Len(a) = Len(h) + 1 /\ Len(h) \in Nat /\ a[Len(h) + 1] = sg
  <2>1. Len(a) = Len(h) + 1
    BY <1>1, <1>2, ConcatProperties
  <2>2. PICK j : j = Len(h) + 1
    OBVIOUS
  <2>3. j \in 1..(Len(h) + Len(<<sg>>)) /\ ~(j <= Len(h)) /\ j - Len(h) = 1
    BY <1>1, <2>2
  <2>4. a[j] = <<sg>>[1]
    BY <1>1, <1>2, <2>3, ConcatProperties
  <2> QED BY <1>1, <2>1, <2>2, <2>4
<1>4. IsMiddle(p, a, n, u)
  BY <1>2, Zenon
<1>5. /\ p \in Seq(C) /\ Len(p) = Len(a) + Len(n) + Len(u)
      /\ Len(n) \in Nat /\ Len(u) \in Nat
      /\ \A k \in 1..Len(n) : p[Len(a) + k] = n[k]
      /\ u # <<>> => p[Len(a) + Len(n) + 1] = u[1]
      /\ SubSeq(p, Len(a) + 1, Len(a) + Len(n)) = n
  BY <1>4, InTheMiddle
<1>6. p[Len(a)] = sg
  <2>1. n \o u \in Seq(C)
    BY ConcatProperties
  <2>2. Len(a) \in 1..(Len(a) + Len(n \o u)) /\ Len(a) <= Len(a)
    BY <1>3, <2>1
  <2>3. p[Len(a)] = a[Len(a)]
    BY <1>4, <2>1, <2>2, ConcatProperties DEF IsMiddle
  <2> QED BY <1>3, <2>3, Zenon
<1>7. p[Len(a) + 1] # "%"
  <2>1. 1 \in 1..Len(n)
    <3>1. n # <<>>
      BY DEF IsName
    <3> QED BY <1>5, <3>1, EmptySeq
  <2>2. p[Len(a) + 1] = n[1] /\ n[1] \in Letters
    BY <1>5, <2>1 DEF IsName
  <2>3. "%" \notin Letters
    BY PatternAssumption, Zenon
  <2> QED BY <2>2, <2>3, Zenon
<1>8. FirstIn(p, {p[j] : j \in DOMAIN p} \ (Letters \cup {"}"}), Len(a) + 1)
          = Len(a) + Len(n) + 1
  <2>1. PICK L : L = Letters \cup {"}"}
    OBVIOUS
  <2>2. \A k \in 1..Len(n) : n[k] \in L
    BY <2>1, Zenon DEF IsName
  <2>3. u # <<>> => u[1] \notin L
    BY <2>1, Zenon DEF EndsName
  <2>4. FirstIn(p, {p[j] : j \in DOMAIN p} \ L, Len(a) + 1) = Len(a) + Len(n) + 1
    <3>1. Stops(p, a, n, u, L)
      BY <1>4, <2>2, <2>3 DEF Stops
    <3> QED BY <3>1, NameStops
  <2> QED BY <2>1, <2>4, Zenon
<1>9. Len(a) = Len(h) + 1
  BY <1>3
<1> QED BY <1>5, <1>6, <1>7, <1>8, <1>9, Zenon DEF Place

\* One turn of the loop at x, that is written as s.
Takes(p, f, h, x, s) ==
    TokenBody(p, f, Len(h) + 1) = <<x>> \o f[Len(h) + 1 + Len(s)]

\* An item without a format.
LEMMA TakesName ==
    ASSUME NEW C, Signs \subseteq C, NEW h \in Seq(C), NEW n \in Seq(C), NEW w \in Seq(C),
           IsName(n), EndsPlain(w),
           NEW s, s = Source(Item(n, <<>>)), NEW p, IsMiddle(p, h, s, w), NEW f
    PROVE  Takes(p, f, h, Item(n, <<>>), s)
<1>1. PICK sg \in C : sg = "%"
  BY Zenon DEF Signs
<1>2. <<sg>> \in Seq(C) /\ <<>> \in Seq(C)
  OBVIOUS
<1>3. s = (<<sg>> \o n) \o <<>> /\ s \in Seq(C) /\ Len(s) = 1 + Len(n) + 0
  <2>1. PICK fm \in Seq(C) : fm = <<>>
    BY <1>2
  <2>2. /\ Source(Item(n, fm)) = <<"%">> \o n \o Braces(fm)
        /\ Source(Item(n, fm)) \in Seq(C)
        /\ Len(Source(Item(n, fm))) = 1 + Len(n) + Len(Braces(fm))
        /\ Len(Braces(fm)) = IF fm = <<>> THEN 0 ELSE 2 + Len(fm)
    <3>1. AsItem(C, n, fm)
      BY ItemParts
    <3> QED BY <3>1, Zenon DEF AsItem
  <2>3. Braces(fm) = <<>> /\ Len(Braces(fm)) = 0
    BY <2>1, <2>2, Zenon DEF Braces
  <2> QED BY <1>1, <2>1, <2>2, <2>3, Zenon
<1>4. s = <<sg>> \o n
  <2>1. <<sg>> \o n \in Seq(C)
    BY <1>2, ConcatProperties
  <2> QED BY <1>3, <2>1, ConcatEmptySeq
<1>5. IsMiddle(p, h \o <<sg>>, n, w)
  <2>1. PICK q \in Seq(C) : q = <<sg>>
    BY <1>2
  <2>2. Associates(q, n, w)
    BY AllAssociate
  <2>3. (h \o q) \o (n \o w) = h \o (q \o (n \o w))
    <3>1. PICK r \in Seq(C) : r = n \o w
      BY ConcatProperties
    <3>2. Associates(h, q, r)
      BY AllAssociate
    <3> QED BY <3>1, <3>2, Zenon DEF Associates
  <2>4. p = h \o (s \o w)
    BY DEF IsMiddle
  <2> QED BY <1>4, <2>1, <2>2, <2>3, <2>4, Zenon DEF IsMiddle, Associates
<1>6. EndsName(w)
  BY Zenon DEF EndsName, EndsPlain
<1>7. /\ p \in Seq(C) /\ Len(p) = Len(h) + 1 + Len(n) + Len(w)
      /\ p[Len(h) + 1] = sg /\ p[Len(h) + 1 + 1] # "%"
      /\ FirstIn(p, {p[j] : j \in DOMAIN p} \ (Letters \cup {"}"}), Len(h) + 1 + 1)
             = Len(h) + 1 + Len(n) + 1
      /\ SubSeq(p, Len(h) + 1 + 1, Len(h) + 1 + Len(n)) = n
      /\ w # <<>> => p[Len(h) + 1 + Len(n) + 1] = w[1]
  <2>1. Place(C, p, h, n, w, sg)
    BY <1>5, <1>6, ItemPlace
  <2> QED BY <2>1, Zenon DEF Place
<1>8. /\ Len(h) \in Nat /\ Len(n) \in Nat /\ Len(w) \in Nat
      /\ Len(p) = Len(h) + 1 + Len(n) + Len(w)
  <2>1. Len(p) = Len(h) + 1 + Len(n) + Len(w)
    BY <1>7, Zenon
  <2> QED BY <2>1
<1>9. PICK i : i = Len(h) + 1
  OBVIOUS
<1>10. PICK stop : stop = i + Len(n) + 1
  OBVIOUS
<1>11. stop > Len(p) \/ p[stop] # "{"
  <2>1. CASE w = <<>>
    <3>1. Len(w) = 0
      BY <2>1
    <3>2. stop > Len(p)
      BY <1>8, <1>9, <1>10, <3>1
    <3> QED BY <3>2
  <2>2. CASE w # <<>>
    <3>1. p[stop] = w[1] /\ w[1] # "{"
      BY <1>7, <1>9, <1>10, <2>2, Zenon DEF EndsPlain
    <3> QED BY <3>1, Zenon
  <2> QED BY <2>1, <2>2
<1>12. stop - 1 = i + Len(n)
  BY <1>8, <1>9, <1>10
<1>13. ItemAt(p, i) = [token |-> Item(n, <<>>), next |-> stop]
  <2>1. stop = FirstIn(p, {p[j] : j \in DOMAIN p} \ (Letters \cup {"}"}), i + 1)
    BY <1>7, <1>9, <1>10, Zenon
  <2>2. n = SubSeq(p, i + 1, stop - 1)
    BY <1>7, <1>9, <1>12, Zenon
  <2>3. PlainAt(p, i, stop, n)
    BY <1>11, <2>1, <2>2, Zenon DEF PlainAt, NameAt
  <2> QED BY <2>3, TakesPlain
<1>14. ItemAt(p, i).token = Item(n, <<>>) /\ ItemAt(p, i).next = stop
  BY <1>13
<1>15. ~(i > Len(p)) /\ stop = Len(h) + 1 + Len(s)
  <2>1. Len(n) > 0
    <3>1. n # <<>>
      BY DEF IsName
    <3> QED BY <1>8, <3>1, EmptySeq
  <2>2. PICK l : l = Len(s)
    OBVIOUS
  <2>5. l = 1 + Len(n) + 0
    BY <1>3, <2>2, Zenon
  <2>3. ~(i > Len(p))
    BY <1>8, <1>9, <2>1
  <2>4. stop = Len(h) + 1 + l
    BY <1>8, <1>9, <1>10, <2>5
  <2> QED BY <2>2, <2>3, <2>4, Zenon
<1>16. ~(p[i] # "%" \/ (i < Len(p) /\ p[i + 1] = "%"))
  BY <1>1, <1>7, <1>9, Zenon
<1>17. TokenBody(p, f, i) = <<ItemAt(p, i).token>> \o f[ItemAt(p, i).next]
  BY <1>15, <1>16, Zenon DEF TokenBody
<1> QED BY <1>9, <1>14, <1>15, <1>17, Zenon DEF Takes

\* The parts of a written item, regrouped.
Regrouped(h, a, n, g, w) == h \o (((a \o n) \o g) \o w) = (h \o a) \o (n \o (g \o w))
RegroupedAgain(a, n, b, f, c, w) ==
    /\ ((b \o f) \o c) \o w = b \o (f \o (c \o w))
    /\ a \o (n \o (b \o (f \o (c \o w)))) = ((a \o n) \o b) \o (f \o (c \o w))

LEMMA Regroup ==
    ASSUME NEW C, NEW h \in Seq(C), NEW a \in Seq(C), NEW n \in Seq(C), NEW g \in Seq(C),
           NEW w \in Seq(C)
    PROVE  Regrouped(h, a, n, g, w)
<1>1. PICK u \in Seq(C) : u = g \o w
  BY ConcatProperties
<1>2. PICK e \in Seq(C) : e = a \o n
  BY ConcatProperties
<1>3. PICK r \in Seq(C) : r = n \o u
  BY ConcatProperties
<1>4. Associates(e, g, w)
  BY AllAssociate
<1>5. Associates(a, n, u)
  BY AllAssociate
<1>6. Associates(h, a, r)
  BY AllAssociate
<1> QED BY <1>1, <1>2, <1>3, <1>4, <1>5, <1>6, Zenon DEF Associates, Regrouped

LEMMA RegroupAgain ==
    ASSUME NEW C, NEW a \in Seq(C), NEW n \in Seq(C), NEW b \in Seq(C), NEW f \in Seq(C),
           NEW c \in Seq(C), NEW w \in Seq(C)
    PROVE  RegroupedAgain(a, n, b, f, c, w)
<1>1. PICK v \in Seq(C) : v = c \o w
  BY ConcatProperties
<1>2. PICK u \in Seq(C) : u = f \o v
  BY ConcatProperties
<1>3. PICK e \in Seq(C) : e = a \o n
  BY ConcatProperties
<1>4. PICK d \in Seq(C) : d = b \o f
  BY ConcatProperties
<1>5. PICK q \in Seq(C) : q = b \o u
  BY ConcatProperties
<1>6. Associates(d, c, w)
  BY AllAssociate
<1>7. Associates(b, f, v)
  BY AllAssociate
<1>8. Associates(a, n, q)
  BY AllAssociate
<1>9. Associates(e, b, u)
  BY AllAssociate
<1>10. ((b \o f) \o c) \o w = b \o (f \o (c \o w))
  BY <1>1, <1>4, <1>6, <1>7, Zenon DEF Associates
<1>11. a \o (n \o (b \o (f \o (c \o w)))) = ((a \o n) \o b) \o (f \o (c \o w))
  BY <1>1, <1>2, <1>3, <1>5, <1>8, <1>9, Zenon DEF Associates
<1> QED BY <1>10, <1>11, Zenon DEF RegroupedAgain

\* A sequence behind one character.
LEMMA Behind ==
    ASSUME NEW C, NEW c \in C, NEW w \in Seq(C), NEW q \in Seq(C), q = <<c>>
    PROVE  q \o w \in Seq(C) /\ q \o w # <<>> /\ (q \o w)[1] = c /\ Len(q \o w) = 1 + Len(w)
<1>1. Len(q) = 1 /\ q[1] = c /\ Len(w) \in Nat
  OBVIOUS
<1>2. PICK z \in Seq(C) : z = q \o w
  BY ConcatProperties
<1>3. Len(z) = 1 + Len(w)
  BY <1>1, <1>2, ConcatProperties
<1>4. 1 \in 1..(Len(q) + Len(w)) /\ 1 <= Len(q)
  BY <1>1
<1>5. z[1] = q[1]
  BY <1>2, <1>4, ConcatProperties
<1>6. z # <<>>
  <2>1. Len(z) # 0
    BY <1>1, <1>3
  <2> QED BY <2>1, EmptySeq
<1> QED BY <1>1, <1>2, <1>3, <1>5, <1>6, Zenon

\* A format does not close itself.
IsFormat(fm) == \A k \in 1..Len(fm) : fm[k] # "}"

\* Where a format stops.
Within(p, b, fm, w, cl) ==
    /\ Len(p) = Len(b) + Len(fm) + 1 + Len(w)
    /\ SubSeq(p, Len(b) + 1, Len(b) + Len(fm)) = fm
    /\ cl = "}" => FirstIn(p, {"}"}, Len(b) + 1) = Len(b) + Len(fm) + 1

LEMMA FormatStops ==
    ASSUME NEW C, NEW b \in Seq(C), NEW fm \in Seq(C), NEW w \in Seq(C), NEW cl \in C,
           IsFormat(fm), NEW q \in Seq(C), q = <<cl>>, NEW p, IsMiddle(p, b, fm, q \o w)
    PROVE  Within(p, b, fm, w, cl)
<1>1. PICK v \in Seq(C) : v = q \o w
  BY ConcatProperties
<1>2. v # <<>> /\ v[1] = cl /\ Len(v) = 1 + Len(w)
  BY <1>1, Behind
<1>3. IsMiddle(p, b, fm, v)
  BY <1>1, Zenon
<1>4. /\ Len(p) = Len(b) + Len(fm) + Len(v)
      /\ \A k \in 1..Len(fm) : p[Len(b) + k] = fm[k]
      /\ p[Len(b) + Len(fm) + 1] = v[1]
      /\ SubSeq(p, Len(b) + 1, Len(b) + Len(fm)) = fm
  BY <1>2, <1>3, InTheMiddle
<1>5. Len(b) \in Nat /\ Len(fm) \in Nat /\ Len(w) \in Nat
  OBVIOUS
<1>6. Len(p) = Len(b) + Len(fm) + 1 + Len(w)
  <2>1. Len(p) = Len(b) + Len(fm) + Len(v) /\ Len(v) = 1 + Len(w)
    BY <1>2, <1>4, Zenon
  <2> QED BY <1>5, <2>1
<1>7. ASSUME cl = "}"
      PROVE  FirstIn(p, {"}"}, Len(b) + 1) = Len(b) + Len(fm) + 1
  <2>1. PICK D : D = {"}"}
    OBVIOUS
  <2>2. \A k \in 1..Len(fm) : fm[k] \notin D
    BY <2>1 DEF IsFormat
  <2>3. cl \in D
    BY <1>7, <2>1
  <2>4. PICK z : z = Len(b) + Len(fm) + 1
    OBVIOUS
  <2>5. p[z] \in D
    BY <1>2, <1>4, <2>3, <2>4, Zenon
  <2>6. ASSUME NEW i \in (Len(b) + 1)..(z - 1) PROVE p[i] \notin D
    <3>1. PICK k : k = i - Len(b)
      OBVIOUS
    <3>2. k \in 1..Len(fm) /\ Len(b) + k = i
      BY <1>5, <2>4, <3>1
    <3>3. p[i] = fm[k]
      BY <1>4, <3>2
    <3> QED BY <2>2, <3>2, <3>3
  <2>7. Len(p) \in Nat /\ Len(b) + 1 \in Nat /\ z \in (Len(b) + 1)..(Len(p) + 1)
    BY <1>5, <1>6, <2>4
  <2>8. IsFirst(p, D, Len(b) + 1, z)
    BY <2>5, <2>6, <2>7 DEF IsFirst
  <2>9. FirstIn(p, D, Len(b) + 1) = z
    BY <2>8, FirstInIs
  <2> QED BY <2>1, <2>4, <2>9, Zenon
<1> QED BY <1>4, <1>6, <1>7, Zenon DEF Within

\* An item with a format.
LEMMA TakesBoth ==
    ASSUME NEW C, Signs \subseteq C, NEW h \in Seq(C), NEW n \in Seq(C), NEW fm \in Seq(C),
           NEW w \in Seq(C), IsName(n), IsFormat(fm), fm # <<>>,
           NEW s, s = Source(Item(n, fm)), NEW p, IsMiddle(p, h, s, w), NEW f
    PROVE  Takes(p, f, h, Item(n, fm), s)
<1>1. PICK sg \in C, op \in C, cl \in C : sg = "%" /\ op = "{" /\ cl = "}"
  BY Zenon DEF Signs
<1>2. PICK s1 \in Seq(C), s2 \in Seq(C), s3 \in Seq(C) :
          s1 = <<sg>> /\ s2 = <<op>> /\ s3 = <<cl>>
  <2>1. PICK s1 \in Seq(C) : s1 = <<sg>>
    <3>1. <<sg>> \in Seq(C)
      OBVIOUS
    <3> QED BY <3>1, Zenon
  <2>2. PICK s2 \in Seq(C) : s2 = <<op>>
    <3>1. <<op>> \in Seq(C)
      OBVIOUS
    <3> QED BY <3>1, Zenon
  <2>3. PICK s3 \in Seq(C) : s3 = <<cl>>
    <3>1. <<cl>> \in Seq(C)
      OBVIOUS
    <3> QED BY <3>1, Zenon
  <2> QED BY <2>1, <2>2, <2>3, Zenon
<1>3. Len(h) \in Nat /\ Len(n) \in Nat /\ Len(fm) \in Nat /\ Len(w) \in Nat
  OBVIOUS
<1>4. s = (s1 \o n) \o ((s2 \o fm) \o s3) /\ Len(s) = 1 + Len(n) + (2 + Len(fm))
  <2>1. AsItem(C, n, fm)
    BY ItemParts
  <2>2. Braces(fm) = (s2 \o fm) \o s3
    BY <1>1, <1>2, Zenon DEF Braces
  <2> QED BY <1>1, <1>2, <2>1, <2>2, Zenon DEF AsItem
<1>5. PICK g \in Seq(C) : g = (s2 \o fm) \o s3
  <2>1. PICK e \in Seq(C) : e = s2 \o fm
    BY ConcatProperties
  <2>2. PICK g \in Seq(C) : g = e \o s3
    BY ConcatProperties
  <2> QED BY <2>1, <2>2
<1>6. PICK v \in Seq(C) : v = fm \o (s3 \o w)
  <2>1. PICK e \in Seq(C) : e = s3 \o w
    BY ConcatProperties
  <2>2. PICK v \in Seq(C) : v = fm \o e
    BY ConcatProperties
  <2> QED BY <2>1, <2>2
<1>7. PICK u \in Seq(C) : u = g \o w
  BY ConcatProperties
<1>8. u = s2 \o v
  <2>1. RegroupedAgain(h, n, s2, fm, s3, w)
    BY RegroupAgain
  <2> QED BY <1>5, <1>6, <1>7, <2>1, Zenon DEF RegroupedAgain
<1>9. IsMiddle(p, h \o s1, n, u)
  <2>1. Regrouped(h, s1, n, g, w)
    BY Regroup
  <2>2. p = h \o (s \o w)
    BY DEF IsMiddle
  <2> QED BY <1>4, <1>5, <1>7, <2>1, <2>2, Zenon DEF IsMiddle, Regrouped
<1>10. u # <<>> /\ u[1] = op /\ Len(u) = 1 + Len(v)
  BY <1>2, <1>8, Behind
<1>11. EndsName(u)
  <2>1. op \notin Letters /\ op # "}"
    BY <1>1, PatternAssumption, Zenon
  <2> QED BY <1>10, <2>1, Zenon DEF EndsName
<1>12. Place(C, p, h, n, u, sg)
  <2>1. IsMiddle(p, h \o <<sg>>, n, u)
    BY <1>2, <1>9, Zenon
  <2> QED BY <1>11, <2>1, ItemPlace
<1>13. PICK a \in Seq(C) : a = h \o s1
  BY ConcatProperties
<1>14. PICK b \in Seq(C) : b = (a \o n) \o s2
  <2>1. PICK e \in Seq(C) : e = a \o n
    BY ConcatProperties
  <2>2. PICK b \in Seq(C) : b = e \o s2
    BY ConcatProperties
  <2> QED BY <2>1, <2>2
<1>15. Len(b) = Len(h) + 1 + Len(n) + 1
  <2>1. Len(s1) = 1 /\ Len(s2) = 1
    BY <1>2
  <2>2. Len(a) = Len(h) + 1
    <3>1. Len(h \o s1) = Len(h) + Len(s1)
      BY ConcatProperties
    <3> QED BY <1>13, <2>1, <3>1, Zenon
  <2>3. PICK e \in Seq(C) : e = a \o n
    BY ConcatProperties
  <2>4. Len(e) = Len(a) + Len(n)
    <3>1. Len(a \o n) = Len(a) + Len(n)
      BY ConcatProperties
    <3> QED BY <2>3, <3>1, Zenon
  <2>5. Len(b) = Len(e) + Len(s2)
    <3>1. Len(e \o s2) = Len(e) + Len(s2)
      BY ConcatProperties
    <3> QED BY <1>14, <2>3, <3>1, Zenon
  <2> QED BY <2>1, <2>2, <2>4, <2>5, Zenon
<1>16. IsMiddle(p, b, fm, s3 \o w)
  <2>1. RegroupedAgain(a, n, s2, fm, s3, w)
    BY RegroupAgain
  <2> QED BY <1>6, <1>8, <1>9, <1>13, <1>14, <2>1, Zenon DEF IsMiddle, RegroupedAgain
<1>17. /\ Len(p) = Len(b) + Len(fm) + 1 + Len(w)
       /\ SubSeq(p, Len(b) + 1, Len(b) + Len(fm)) = fm
       /\ FirstIn(p, {"}"}, Len(b) + 1) = Len(b) + Len(fm) + 1
  <2>1. Within(p, b, fm, w, cl)
    BY <1>2, <1>16, FormatStops
  <2> QED BY <1>1, <2>1, Zenon DEF Within
<1>18. PICK i : i = Len(h) + 1
  OBVIOUS
<1>19. PICK stop : stop = Len(b)
  OBVIOUS
<1>20. PICK close : close = Len(b) + Len(fm) + 1
  OBVIOUS
<1>21. /\ stop = i + Len(n) + 1 /\ stop - 1 = i + Len(n) /\ close - 1 = stop + Len(fm)
       /\ ~(stop > Len(p)) /\ ~(close > Len(p)) /\ ~(i > Len(p))
  <2>1. Len(p) = Len(b) + Len(fm) + 1 + Len(w)
    BY <1>17, Zenon
  <2>2. stop = Len(h) + 1 + Len(n) + 1 /\ close = stop + Len(fm) + 1
    BY <1>15, <1>19, <1>20, Zenon
  <2>3. Len(p) = stop + Len(fm) + 1 + Len(w)
    BY <1>19, <2>1, Zenon
  <2>4. PICK before \in Nat : before = Len(h)
    BY <1>3, Zenon
  <2>5. PICK name \in Nat : name = Len(n)
    BY <1>3, Zenon
  <2>6. PICK fmt \in Nat : fmt = Len(fm)
    BY <1>3, Zenon
  <2>7. PICK behind \in Nat : behind = Len(w)
    BY <1>3, Zenon
  <2>8. PICK end : end = Len(p)
    OBVIOUS
  <2>9. /\ i = before + 1 /\ stop = before + 1 + name + 1 /\ close = stop + fmt + 1
        /\ end = stop + fmt + 1 + behind
    BY <1>18, <2>2, <2>3, <2>4, <2>5, <2>6, <2>7, <2>8, Zenon
  <2>10. /\ stop = i + name + 1 /\ stop - 1 = i + name /\ close - 1 = stop + fmt
         /\ ~(stop > end) /\ ~(close > end) /\ ~(i > end)
    BY <2>9
  <2> QED BY <2>5, <2>6, <2>8, <2>10, Zenon
<1>22. NameAt(p, i, stop, n)
  <2>1. stop = FirstIn(p, {p[j] : j \in DOMAIN p} \ (Letters \cup {"}"}), i + 1)
    BY <1>12, <1>15, <1>18, <1>19, Zenon DEF Place
  <2>2. n = SubSeq(p, i + 1, stop - 1)
    BY <1>12, <1>18, <1>21, Zenon DEF Place
  <2> QED BY <2>1, <2>2, Zenon DEF NameAt
<1>23. p[stop] = "{"
  BY <1>1, <1>10, <1>12, <1>15, <1>19, Zenon DEF Place
<1>24. FormatAt(p, i, stop, close, n, fm)
  <2>1. close = FirstIn(p, {"}"}, stop + 1)
    BY <1>17, <1>19, <1>20, Zenon
  <2>2. fm = SubSeq(p, stop + 1, close - 1)
    BY <1>17, <1>19, <1>21, Zenon
  <2> QED BY <1>21, <1>22, <1>23, <2>1, <2>2, Zenon DEF FormatAt
<1>25. ItemAt(p, i) = [token |-> Item(n, fm), next |-> close + 1]
  BY <1>24, TakesFormat
<1>26. ItemAt(p, i).token = Item(n, fm) /\ ItemAt(p, i).next = close + 1
  BY <1>25
<1>27. close + 1 = Len(h) + 1 + Len(s)
  <2>1. PICK l : l = Len(s)
    OBVIOUS
  <2>2. l = 1 + Len(n) + (2 + Len(fm))
    BY <1>4, <2>1, Zenon
  <2>3. close + 1 = Len(h) + 1 + l
    BY <1>3, <1>15, <1>20, <2>2
  <2> QED BY <2>1, <2>3, Zenon
<1>28. ~(p[i] # "%" \/ (i < Len(p) /\ p[i + 1] = "%"))
  BY <1>1, <1>12, <1>18, Zenon DEF Place
<1>29. TokenBody(p, f, i) = <<ItemAt(p, i).token>> \o f[ItemAt(p, i).next]
  BY <1>21, <1>28, Zenon DEF TokenBody
<1> QED BY <1>18, <1>26, <1>27, <1>29, Zenon DEF Takes

-----------------------------------------------------------------------------
(* Patterns put together from pieces *)

\* The pattern from piece i on.
SourceBody(v, f, i) == IF i > Len(v) THEN <<>> ELSE Source(v[i]) \o f[i + 1]

\* The recursive function is defined.
LEMMA WrittenDef ==
    ASSUME NEW v, Len(v) \in Nat
    PROVE  \E f : /\ Written(v) = f[1]
                  /\ \A i \in 1..(Len(v) + 1) : f[i] = SourceBody(v, f, i)
<1> DEFINE Good(m, g) == g = [i \in (Len(v) + 1 - m)..(Len(v) + 1) |-> SourceBody(v, g, i)]
           M == {m \in Nat : m < Len(v) + 1 => \E g : Good(m, g)}
<1>1. PICK N \in Nat \ {0} : N = Len(v) + 1
  OBVIOUS
<1>2. 0 \in M
  <2> DEFINE g == [i \in (Len(v) + 1 - 0)..(Len(v) + 1) |-> <<>>]
  <2>1. \A i \in (Len(v) + 1 - 0)..(Len(v) + 1) : SourceBody(v, g, i) = <<>>
    BY DEF SourceBody
  <2>2. Good(0, g)
    BY <2>1
  <2> QED BY <2>2
<1>3. ASSUME NEW m \in M PROVE m + 1 \in M
  <2> SUFFICES ASSUME m + 1 < Len(v) + 1 PROVE \E h : Good(m + 1, h)
    <3> HIDE DEF Good
    <3> QED OBVIOUS
  <2>1. m \in Nat /\ m < Len(v) + 1
    OBVIOUS
  <2>2. PICK g : Good(m, g)
    <3> HIDE DEF Good
    <3> QED BY <2>1
  <2>3. PICK k \in 1..Len(v) : k = Len(v) + 1 - (m + 1) /\ Len(v) + 1 - m = k + 1
    BY <2>1
  <2> DEFINE h == [i \in k..N |-> IF i = k THEN SourceBody(v, g, k) ELSE g[i]]
  <2>4. \A i \in (k + 1)..N : g[i] = SourceBody(v, g, i) /\ h[i] = g[i]
    <3> SUFFICES ASSUME NEW i \in (k + 1)..N
                 PROVE  g[i] = SourceBody(v, g, i) /\ h[i] = g[i]
      OBVIOUS
    <3>1. g = [j \in (k + 1)..N |-> SourceBody(v, g, j)]
      BY <1>1, <2>2, <2>3
    <3>2. i \in k..N /\ i # k
      BY <1>1, <2>3
    <3>3. g[i] = SourceBody(v, g, i)
      BY <3>1
    <3> QED BY <3>2, <3>3
  <2>5. ASSUME NEW i \in k..N PROVE SourceBody(v, h, i) = SourceBody(v, g, i)
    <3>1. CASE i > Len(v)
      BY <3>1 DEF SourceBody
    <3>2. CASE i <= Len(v)
      <4>1. i + 1 \in (k + 1)..N
        BY <1>1, <2>3, <3>2
      <4>2. h[i + 1] = g[i + 1]
        BY <2>4, <4>1
      <4> HIDE DEF h
      <4> QED BY <4>2 DEF SourceBody
    <3> QED BY <1>1, <2>3, <3>1, <3>2
  <2>6. ASSUME NEW i \in k..N PROVE h[i] = SourceBody(v, g, i)
    <3>1. CASE i = k
      BY <3>1
    <3>2. CASE i # k
      <4>1. i \in (k + 1)..N
        BY <1>1, <2>3, <3>2
      <4> HIDE DEF h
      <4> QED BY <2>4, <4>1
    <3> QED BY <3>1, <3>2
  <2>7. h = [i \in k..N |-> SourceBody(v, h, i)]
    BY <2>5, <2>6
  <2>8. Good(m + 1, h)
    BY <1>1, <2>3, <2>7
  <2> HIDE DEF Good, h
  <2> QED BY <2>8
<1>4. M = Nat
  <2>1. M \in SUBSET Nat
    OBVIOUS
  <2> HIDE DEF M
  <2> QED BY <1>2, <1>3, <2>1, InductionOnSet
<1>5. PICK g : Good(Len(v), g)
  <2>1. Len(v) \in Nat /\ Len(v) < Len(v) + 1
    OBVIOUS
  <2> HIDE DEF Good
  <2> QED BY <1>4, <2>1
<1> DEFINE IsFrom(f) == f = [i \in 1..(Len(v) + 1) |->
                IF i > Len(v) THEN <<>> ELSE Source(v[i]) \o f[i + 1]]
<1>6. IsFrom(g)
  <2>1. Len(v) + 1 - Len(v) = 1
    OBVIOUS
  <2>2. g = [i \in 1..(Len(v) + 1) |-> SourceBody(v, g, i)]
    BY <1>5, <2>1
  <2> QED BY <2>2 DEF SourceBody
<1>7. IsFrom(CHOOSE f : IsFrom(f))
  <2> HIDE DEF IsFrom
  <2> QED BY <1>6
<1>8. PICK f : f = CHOOSE x : IsFrom(x)
  OBVIOUS
<1>9. Written(v) = f[1]
  BY <1>8 DEF Written
<1>10. IsFrom(f)
  <2> HIDE DEF IsFrom
  <2> QED BY <1>7, <1>8
<1>11. \A i \in 1..(Len(v) + 1) : f[i] = SourceBody(v, f, i)
  BY <1>10 DEF SourceBody
<1> QED BY <1>9, <1>11

\* One step of the loop that gathers text.
VecBody(v, f, i) == IF i = 0 THEN <<>> ELSE Gather(f[i - 1], v[i])

LEMMA GatheredDef ==
    ASSUME NEW v, Len(v) \in Nat
    PROVE  \E f : /\ Gathered(v) = f[Len(v)]
                  /\ \A i \in 0..Len(v) : f[i] = VecBody(v, f, i)
<1> DEFINE Good(m, g) == g = [i \in 0..m |-> VecBody(v, g, i)]
           M == {m \in Nat : \E g : Good(m, g)}
<1>1. 0 \in M
  <2> DEFINE g == [i \in 0..0 |-> <<>>]
  <2>1. Good(0, g)
    BY DEF VecBody
  <2> QED BY <2>1
<1>2. ASSUME NEW m \in M PROVE m + 1 \in M
  <2>1. PICK g : Good(m, g)
    OBVIOUS
  <2>2. m \in Nat
    OBVIOUS
  <2> DEFINE h == [i \in 0..(m + 1) |-> IF i = m + 1 THEN Gather(g[m], v[m + 1]) ELSE g[i]]
  <2>3. \A i \in 0..m : g[i] = VecBody(v, g, i) /\ h[i] = g[i]
    <3> SUFFICES ASSUME NEW i \in 0..m PROVE g[i] = VecBody(v, g, i) /\ h[i] = g[i]
      OBVIOUS
    <3>1. g[i] = VecBody(v, g, i)
      BY <2>1
    <3>2. i \in 0..(m + 1) /\ i # m + 1
      BY <2>2
    <3> QED BY <3>1, <3>2
  <2>4. ASSUME NEW i \in 0..(m + 1) PROVE h[i] = VecBody(v, h, i)
    <3>1. CASE i = m + 1
      <4>1. h[i] = Gather(g[m], v[m + 1])
        BY <2>2, <3>1
      <4>2. m \in 0..m /\ i - 1 = m /\ i # 0
        BY <2>2, <3>1
      <4>3. h[i - 1] = g[m]
        BY <2>3, <4>2
      <4> HIDE DEF h
      <4> QED BY <3>1, <4>1, <4>2, <4>3 DEF VecBody
    <3>2. CASE i # m + 1
      <4>1. i \in 0..m
        BY <2>2, <3>2
      <4>2. h[i] = VecBody(v, g, i)
        BY <2>3, <4>1
      <4>3. i # 0 => h[i - 1] = g[i - 1]
        <5> SUFFICES ASSUME i # 0 PROVE h[i - 1] = g[i - 1]
          OBVIOUS
        <5>1. i - 1 \in 0..m
          BY <4>1
        <5> QED BY <2>3, <5>1
      <4> HIDE DEF h
      <4> QED BY <4>2, <4>3 DEF VecBody
    <3> QED BY <3>1, <3>2
  <2>5. h = [i \in 0..(m + 1) |-> VecBody(v, h, i)]
    BY <2>4
  <2>6. Good(m + 1, h)
    BY <2>5
  <2> HIDE DEF Good, h
  <2> QED BY <2>2, <2>6
<1>3. M = Nat
  <2>1. M \in SUBSET Nat
    OBVIOUS
  <2> HIDE DEF M
  <2> QED BY <1>1, <1>2, <2>1, InductionOnSet
<1>4. PICK g : Good(Len(v), g)
  BY <1>3
<1> DEFINE IsVec(f) == f = [i \in 0..Len(v) |->
                              IF i = 0 THEN <<>> ELSE Gather(f[i - 1], v[i])]
<1>5. IsVec(g)
  BY <1>4 DEF VecBody
<1>6. IsVec(CHOOSE f : IsVec(f))
  <2> HIDE DEF IsVec
  <2> QED BY <1>5
<1>7. PICK f : f = CHOOSE x : IsVec(x)
  OBVIOUS
<1>8. Gathered(v) = f[Len(v)]
  BY <1>7 DEF Gathered
<1>9. IsVec(f)
  <2> HIDE DEF IsVec
  <2> QED BY <1>6, <1>7
<1>10. \A i \in 0..Len(v) : f[i] = VecBody(v, f, i)
  BY <1>9 DEF VecBody
<1> QED BY <1>8, <1>10

\* The pieces a pattern over the characters C may be put together from: characters
\* of text, and items whose format does not close itself.
Pieces(C) ==
    {Text(<<c>>) : c \in C \ {"%"}}
    \cup {Item(n, fm) : n \in {nn \in Seq(Letters) : nn # <<>>},
                        fm \in {ff \in Seq(C) : IsFormat(ff)}}

PieceOf(C, x) ==
    \/ \E c \in C : c # "%" /\ x = Text(<<c>>)
    \/ \E n \in Seq(Letters), fm \in Seq(C) : n # <<>> /\ IsFormat(fm) /\ x = Item(n, fm)

LEMMA PieceKinds ==
    ASSUME NEW C, NEW x \in Pieces(C)
    PROVE  PieceOf(C, x)
BY DEF Pieces, PieceOf

Fits(x, w) == x.kind = "item" /\ x.fmt = <<>> => EndsPlain(w)

LEMMA NameIsText ==
    ASSUME NEW C, Letters \subseteq C, NEW n \in Seq(Letters), n # <<>>
    PROVE  n \in Seq(C) /\ IsName(n)
<1>1. n \in Seq(C)
  <2>1. Len(n) \in Nat /\ n \in [1..Len(n) -> Letters]
    OBVIOUS
  <2>2. n \in [1..Len(n) -> C]
    BY <2>1
  <2> QED BY <2>1, <2>2
<1>2. \A k \in 1..Len(n) : n[k] \in Letters
  OBVIOUS
<1> QED BY <1>1, <1>2 DEF IsName

\* How a piece begins.
Begins(C, x, s) ==
    /\ s \in Seq(C) /\ s # <<>>
    /\ x.kind \in {"item", "text"}
    /\ x.kind = "item" => s[1] = "%"
    /\ x.kind = "text" => s[1] = x.text[1]

LEMMA PieceBegins ==
    ASSUME NEW C, Signs \subseteq C, Letters \subseteq C, NEW x \in Pieces(C)
    PROVE  Begins(C, x, Source(x))
<1>1. ASSUME NEW c \in C, x = Text(<<c>>) PROVE Begins(C, x, Source(x))
  <2>1. x.kind = "text" /\ x.text = <<c>>
    BY <1>1 DEF Text
  <2>2. Source(x) = <<c>>
    BY <2>1 DEF Source
  <2>3. <<c>> \in Seq(C) /\ <<c>> # <<>>
    OBVIOUS
  <2>4. x.kind # "item"
    BY <2>1
  <2> QED BY <2>1, <2>2, <2>3, <2>4, Zenon DEF Begins
<1>2. ASSUME NEW n \in Seq(Letters), NEW fm \in Seq(C), n # <<>>, x = Item(n, fm)
      PROVE  Begins(C, x, Source(x))
  <2>1. n \in Seq(C)
    BY <1>2, NameIsText
  <2>2. AsItem(C, n, fm)
    BY <2>1, ItemParts
  <2>3. PICK sg \in C : sg = "%"
    BY Zenon DEF Signs
  <2>4. PICK q \in Seq(C) : q = <<sg>>
    <3>1. <<sg>> \in Seq(C)
      OBVIOUS
    <3> QED BY <3>1, Zenon
  <2>5. PICK g \in Seq(C) : g = Braces(fm)
    BY <2>2 DEF AsItem
  <2>6. PICK u \in Seq(C) : u = n \o g
    BY <2>1, ConcatProperties
  <2>7. Associates(q, n, g)
    BY <2>1, AllAssociate
  <2>8. Source(x) = q \o u
    BY <1>2, <2>2, <2>3, <2>4, <2>5, <2>6, <2>7, Zenon DEF AsItem, Associates
  <2>9. q \o u \in Seq(C) /\ q \o u # <<>> /\ (q \o u)[1] = sg
    BY <2>4, Behind
  <2>10. x.kind = "item" /\ x.kind # "text"
    BY <1>2 DEF Item
  <2> QED BY <2>3, <2>8, <2>9, <2>10, Zenon DEF Begins
<1>3. PieceOf(C, x)
  BY PieceKinds
<1> QED BY <1>1, <1>2, <1>3, Zenon DEF PieceOf

\* One turn of the loop takes one piece.
LEMMA TakesPiece ==
    ASSUME NEW C, Signs \subseteq C, Letters \subseteq C, NEW x \in Pieces(C),
           NEW h \in Seq(C), NEW w \in Seq(C), Fits(x, w), NEW s, s = Source(x),
           NEW p, IsMiddle(p, h, s, w), NEW f
    PROVE  Takes(p, f, h, x, s)
<1>1. CASE \E c \in C : c # "%" /\ x = Text(<<c>>)
  <2>1. PICK c \in C : c # "%" /\ x = Text(<<c>>)
    BY <1>1, Zenon
  <2>2. x.kind = "text" /\ x.text = <<c>>
    BY <2>1 DEF Text
  <2>3. s = <<c>>
    BY <2>2 DEF Source
  <2>4. TokenBody(p, f, Len(h) + 1) = <<Text(<<c>>)>> \o f[Len(h) + 1 + 1]
    <3>1. IsMiddle(p, h, <<c>>, w)
      BY <2>3, Zenon
    <3> QED BY <2>1, <3>1, TakesText
  <2>5. Len(s) = 1
    BY <2>3
  <2> QED BY <2>1, <2>4, <2>5, Zenon DEF Takes
<1>2. CASE \E n \in Seq(Letters), fm \in Seq(C) :
              n # <<>> /\ IsFormat(fm) /\ x = Item(n, fm)
  <2>1. PICK n \in Seq(Letters), fm \in Seq(C) :
            n # <<>> /\ IsFormat(fm) /\ x = Item(n, fm)
    BY <1>2, Zenon
  <2>2. n \in Seq(C) /\ IsName(n)
    BY <2>1, NameIsText
  <2>3. CASE fm # <<>>
    <3>1. s = Source(Item(n, fm))
      BY <2>1, Zenon
    <3>2. Takes(p, f, h, Item(n, fm), s)
      BY <2>1, <2>2, <2>3, <3>1, TakesBoth
    <3> QED BY <2>1, <3>2, Zenon
  <2>4. CASE fm = <<>>
    <3>1. s = Source(Item(n, <<>>)) /\ x = Item(n, <<>>)
      BY <2>1, <2>4, Zenon
    <3>2. x.kind = "item" /\ x.fmt = <<>>
      BY <3>1 DEF Item
    <3>3. EndsPlain(w)
      BY <3>2, Zenon DEF Fits
    <3>4. Takes(p, f, h, Item(n, <<>>), s)
      BY <2>2, <3>1, <3>3, TakesName
    <3> QED BY <3>1, <3>4, Zenon
  <2> QED BY <2>3, <2>4
<1>3. PieceOf(C, x)
  BY PieceKinds
<1> QED BY <1>1, <1>2, <1>3, Zenon DEF PieceOf

\* The pieces from k on.
RestOf(v, k) == [j \in 1..(Len(v) - k + 1) |-> v[k + j - 1]]

\* The characters of the pattern from piece k on, for every way they come about.
IsPattern(v, g) == \A k \in 1..(Len(v) + 1) : g[k] = SourceBody(v, g, k)

\* From piece k on, the pattern is text over C, and begins as the piece does.
TailText(C, v, g, k) ==
    /\ g[k] \in Seq(C)
    /\ k > Len(v) => g[k] = <<>>
    /\ k <= Len(v) => /\ g[k] = Source(v[k]) \o g[k + 1] /\ g[k] # <<>>
                      /\ g[k][1] = Source(v[k])[1]

LEMMA Tails ==
    ASSUME NEW C, Signs \subseteq C, Letters \subseteq C, NEW v \in Seq(Pieces(C)),
           NEW g, IsPattern(v, g)
    PROVE  \A k \in 1..(Len(v) + 1) : TailText(C, v, g, k)
<1>1. PICK N \in Nat : N = Len(v)
  OBVIOUS
<1> DEFINE M == {m \in Nat : m <= N => TailText(C, v, g, N + 1 - m)}
<1>2. 0 \in M
  <2>1. N + 1 - 0 = N + 1 /\ N + 1 \in 1..(Len(v) + 1) /\ N + 1 > Len(v)
    BY <1>1
  <2>2. g[N + 1] = <<>>
    BY <2>1 DEF IsPattern, SourceBody
  <2>3. <<>> \in Seq(C) /\ ~(N + 1 <= Len(v))
    BY <2>1, EmptySeq
  <2>4. TailText(C, v, g, N + 1)
    BY <2>2, <2>3, Zenon DEF TailText
  <2>5. TailText(C, v, g, N + 1 - 0)
    BY <2>1, <2>4, Zenon
  <2> QED BY <2>5
<1>3. ASSUME NEW m \in M PROVE m + 1 \in M
  <2> SUFFICES ASSUME m + 1 <= N PROVE TailText(C, v, g, N + 1 - (m + 1))
    OBVIOUS
  <2>1. m \in Nat /\ m <= N /\ TailText(C, v, g, N + 1 - m)
    OBVIOUS
  <2>2. PICK k \in 1..N : k = N + 1 - (m + 1) /\ k + 1 = N + 1 - m
    BY <2>1
  <2>3. g[k + 1] \in Seq(C)
    <3>1. TailText(C, v, g, k + 1)
      BY <2>1, <2>2, Zenon
    <3> QED BY <3>1 DEF TailText
  <2>4. k \in 1..(Len(v) + 1) /\ ~(k > Len(v)) /\ k \in 1..Len(v)
    BY <1>1
  <2>5. g[k] = Source(v[k]) \o g[k + 1]
    <3>1. g[k] = SourceBody(v, g, k)
      BY <2>4, Zenon DEF IsPattern
    <3> QED BY <2>4, <3>1, Zenon DEF SourceBody
  <2>6. v[k] \in Pieces(C)
    BY <2>4
  <2>7. Begins(C, v[k], Source(v[k]))
    BY <2>6, PieceBegins
  <2>8. PICK s \in Seq(C) : s = Source(v[k]) /\ s # <<>>
    BY <2>7, Zenon DEF Begins
  <2>9. PICK w \in Seq(C) : w = g[k + 1]
    BY <2>3
  <2>10. Len(s) \in Nat \ {0} /\ Len(w) \in Nat
    BY <2>8, EmptySeq
  <2>11. PICK z \in Seq(C) : z = s \o w
    BY ConcatProperties
  <2>12. z[1] = s[1] /\ z # <<>>
    <3>1. 1 \in 1..(Len(s) + Len(w)) /\ 1 <= Len(s)
      BY <2>10
    <3>2. z[1] = s[1]
      BY <2>11, <3>1, ConcatProperties
    <3>3. Len(z) = Len(s) + Len(w)
      BY <2>11, ConcatProperties
    <3>4. Len(z) # 0
      BY <2>10, <3>3
    <3>5. z # <<>>
      BY <3>4, EmptySeq
    <3> QED BY <3>2, <3>5
  <2>13. g[k] = z
    BY <2>5, <2>8, <2>9, <2>11, Zenon
  <2>14. TailText(C, v, g, k)
    BY <2>4, <2>5, <2>8, <2>12, <2>13, Zenon DEF TailText
  <2> QED BY <2>2, <2>14, Zenon
<1>4. M = Nat
  <2>1. M \in SUBSET Nat
    OBVIOUS
  <2> HIDE DEF M
  <2> QED BY <1>2, <1>3, <2>1, InductionOnSet
<1> SUFFICES ASSUME NEW k \in 1..(Len(v) + 1) PROVE TailText(C, v, g, k)
  OBVIOUS
<1>5. PICK m \in Nat : m = N + 1 - k /\ m <= N
  BY <1>1
<1>6. m \in M
  <2> HIDE DEF M
  <2> QED BY <1>4
<1>7. TailText(C, v, g, N + 1 - m)
  BY <1>5, <1>6
<1>8. N + 1 - m = k
  BY <1>1, <1>5
<1> QED BY <1>7, <1>8, Zenon

\* What comes after a piece lets it end.
LEMMA TailFits ==
    ASSUME NEW C, Signs \subseteq C, Letters \subseteq C, NEW v \in Seq(Pieces(C)),
           NEW g, IsPattern(v, g), Separate(v), NEW k \in 1..Len(v)
    PROVE  Fits(v[k], g[k + 1])
<1> SUFFICES ASSUME v[k].kind = "item" /\ v[k].fmt = <<>>, g[k + 1] # <<>>
             PROVE  g[k + 1][1] \notin Letters \cup {"{", "}"}
  BY Zenon DEF Fits, EndsPlain
<1>1. Len(v) \in Nat /\ k + 1 \in 1..(Len(v) + 1) /\ k \in Nat
  OBVIOUS
<1>2. TailText(C, v, g, k + 1)
  BY <1>1, Tails
<1>3. k + 1 <= Len(v)
  <2>1. ~(k + 1 > Len(v))
    BY <1>2, Zenon DEF TailText
  <2> QED BY <1>1, <2>1
<1>4. k + 1 \in 1..Len(v) /\ k \in 1..(Len(v) - 1)
  BY <1>1, <1>3
<1>5. Begins(C, v[k + 1], Source(v[k + 1]))
  <2>1. v[k + 1] \in Pieces(C)
    BY <1>4
  <2> QED BY <2>1, PieceBegins
<1>6. g[k + 1][1] = Source(v[k + 1])[1]
  BY <1>2, <1>3, Zenon DEF TailText
<1>7. CASE v[k + 1].kind = "item"
  <2>1. g[k + 1][1] = "%"
    BY <1>5, <1>6, <1>7, Zenon DEF Begins
  <2>2. "%" \notin Letters /\ "%" # "{" /\ "%" # "}"
    BY PatternAssumption, Zenon
  <2> QED BY <2>1, <2>2, Zenon
<1>8. CASE v[k + 1].kind = "text"
  <2>1. g[k + 1][1] = v[k + 1].text[1]
    BY <1>5, <1>6, <1>8, Zenon DEF Begins
  <2>2. v[k + 1].text[1] \notin Letters \cup {"{", "}"}
    BY <1>4, <1>8, Zenon DEF Separate
  <2> QED BY <2>1, <2>2, Zenon
<1> QED BY <1>5, <1>7, <1>8, Zenon DEF Begins

LEMMA RestIs ==
    ASSUME NEW S, NEW v \in Seq(S), NEW k \in 1..(Len(v) + 1)
    PROVE  /\ RestOf(v, k) \in Seq(S) /\ Len(RestOf(v, k)) = Len(v) - k + 1
           /\ \A j \in 1..(Len(v) - k + 1) : RestOf(v, k)[j] = v[k + j - 1]
<1>1. PICK n \in Nat : n = Len(v) - k + 1
  OBVIOUS
<1>2. RestOf(v, k) = [j \in 1..n |-> v[k + j - 1]]
  BY <1>1 DEF RestOf
<1>3. RestOf(v, k) \in [1..n -> S]
  <2>1. \A j \in 1..n : k + j - 1 \in 1..Len(v)
    BY <1>1
  <2>2. \A j \in 1..n : v[k + j - 1] \in S
    BY <2>1
  <2> QED BY <1>2, <2>2
<1>4. RestOf(v, k) \in Seq(S)
  BY <1>1, <1>3
<1>5. Len(RestOf(v, k)) = n
  BY <1>3
<1> QED BY <1>1, <1>2, <1>4, <1>5

LEMMA RestStep ==
    ASSUME NEW S, NEW v \in Seq(S), NEW k \in 1..Len(v)
    PROVE  <<v[k]>> \o RestOf(v, k + 1) = RestOf(v, k)
<1>1. Len(v) \in Nat /\ k + 1 \in 1..(Len(v) + 1) /\ k \in 1..(Len(v) + 1)
  OBVIOUS
<1>2. PICK n \in Nat : n = Len(v) - k /\ Len(v) - k + 1 = n + 1 /\ Len(v) - (k + 1) + 1 = n
  BY <1>1
<1>3. PICK r \in Seq(S) : /\ r = RestOf(v, k + 1) /\ Len(r) = n
                          /\ \A j \in 1..n : r[j] = v[k + 1 + j - 1]
  <2>1. PICK q \in 1..(Len(v) + 1) : q = k + 1
    BY <1>1
  <2>2. /\ RestOf(v, q) \in Seq(S) /\ Len(RestOf(v, q)) = Len(v) - q + 1
        /\ \A j \in 1..(Len(v) - q + 1) : RestOf(v, q)[j] = v[q + j - 1]
    BY RestIs
  <2>3. Len(v) - q + 1 = n
    BY <1>2, <2>1, Zenon
  <2> QED BY <2>1, <2>2, <2>3, Zenon
<1>4. PICK t \in Seq(S) : /\ t = RestOf(v, k) /\ Len(t) = n + 1
                          /\ \A j \in 1..(n + 1) : t[j] = v[k + j - 1]
  BY <1>1, <1>2, RestIs
<1>5. PICK a \in Seq(S) : a = <<v[k]>> /\ Len(a) = 1 /\ a[1] = v[k]
  <2>1. PICK c \in S : c = v[k]
    OBVIOUS
  <2>2. <<c>> \in Seq(S) /\ Len(<<c>>) = 1 /\ <<c>>[1] = c
    OBVIOUS
  <2> QED BY <2>1, <2>2, Zenon
<1>6. PICK z \in Seq(S) : z = a \o r
  BY ConcatProperties
<1>7. Len(z) = n + 1
  <2>1. Len(z) = Len(a) + Len(r)
    BY <1>6, ConcatProperties
  <2>2. Len(z) = 1 + n
    BY <1>3, <1>5, <2>1, Zenon
  <2> QED BY <1>2, <2>2
<1>8. ASSUME NEW j \in 1..(n + 1) PROVE z[j] = t[j]
  <2>1. z[j] = IF j <= Len(a) THEN a[j] ELSE r[j - Len(a)]
    <3>1. j \in 1..(Len(a) + Len(r))
      BY <1>3, <1>5
    <3> QED BY <1>6, <3>1, ConcatProperties
  <2>2. CASE j = 1
    <3>1. z[j] = v[k]
      BY <1>5, <2>1, <2>2
    <3>2. t[j] = v[k + j - 1] /\ k + j - 1 = k
      BY <1>4, <2>2
    <3> QED BY <3>1, <3>2, Zenon
  <2>3. CASE j # 1
    <3>1. ~(j <= 1) /\ j - 1 \in 1..n /\ k + 1 + (j - 1) - 1 = k + j - 1
      BY <2>3
    <3>2. z[j] = r[j - 1]
      BY <1>5, <2>1, <3>1
    <3>3. r[j - 1] = v[k + 1 + (j - 1) - 1]
      BY <1>3, <3>1
    <3>4. t[j] = v[k + j - 1]
      BY <1>4
    <3> QED BY <3>1, <3>2, <3>3, <3>4, Zenon
  <2> QED BY <2>2, <2>3
<1>9. z = t
  <2>1. z = [j \in 1..(n + 1) |-> z[j]] /\ t = [j \in 1..(n + 1) |-> t[j]]
    BY <1>4, <1>7
  <2> QED BY <1>8, <2>1
<1> QED BY <1>3, <1>4, <1>5, <1>6, <1>9, Zenon

\* The loop over p, and what it makes of the part from piece k on.
IsLoop(p, f) == \A i \in 1..(Len(p) + 1) : f[i] = TokenBody(p, f, i)
CutAt(C, v, g, p, f, k) ==
    \A h \in Seq(C) : p = h \o g[k] => f[Len(h) + 1] = RestOf(v, k)

LEMMA CutFrom ==
    ASSUME NEW C, Signs \subseteq C, Letters \subseteq C, NEW v \in Seq(Pieces(C)),
           NEW g, IsPattern(v, g), Separate(v), NEW p, NEW f, IsLoop(p, f)
    PROVE  CutAt(C, v, g, p, f, 1)
<1>1. PICK N \in Nat : N = Len(v)
  OBVIOUS
<1> DEFINE M == {m \in Nat : m <= N => CutAt(C, v, g, p, f, N + 1 - m)}
<1>2. 0 \in M
  <2>1. N + 1 - 0 = N + 1 /\ N + 1 \in 1..(Len(v) + 1) /\ N + 1 > Len(v)
    BY <1>1
  <2>2. g[N + 1] = <<>>
    <3>1. TailText(C, v, g, N + 1)
      BY <2>1, Tails
    <3> QED BY <2>1, <3>1, Zenon DEF TailText
  <2>3. ASSUME NEW h \in Seq(C), p = h \o g[N + 1] PROVE f[Len(h) + 1] = RestOf(v, N + 1)
    <3>1. h \o <<>> = h
      BY ConcatEmptySeq
    <3>2. p = h
      BY <2>2, <2>3, <3>1, Zenon
    <3>3. Len(h) + 1 \in 1..(Len(h) + 1) /\ Len(h) + 1 > Len(h)
      OBVIOUS
    <3>4. f[Len(h) + 1] = TokenBody(p, f, Len(h) + 1)
      BY <3>2, <3>3, Zenon DEF IsLoop
    <3>5. TokenBody(p, f, Len(h) + 1) = <<>>
      BY <3>2, <3>3, Zenon DEF TokenBody
    <3>6. RestOf(v, N + 1) = <<>>
      <4>1. RestOf(v, N + 1) \in Seq(Pieces(C)) /\ Len(RestOf(v, N + 1)) = Len(v) - (N + 1) + 1
        BY <2>1, RestIs
      <4>2. Len(v) - (N + 1) + 1 = 0
        BY <1>1
      <4> QED BY <4>1, <4>2, EmptySeq
    <3> QED BY <3>4, <3>5, <3>6, Zenon
  <2>4. CutAt(C, v, g, p, f, N + 1)
    BY <2>3, Zenon DEF CutAt
  <2> QED BY <2>1, <2>4, Zenon
<1>3. ASSUME NEW m \in M PROVE m + 1 \in M
  <2> SUFFICES ASSUME m + 1 <= N PROVE CutAt(C, v, g, p, f, N + 1 - (m + 1))
    OBVIOUS
  <2>1. m \in Nat /\ m <= N /\ CutAt(C, v, g, p, f, N + 1 - m)
    OBVIOUS
  <2>2. PICK k \in 1..N : k = N + 1 - (m + 1) /\ k + 1 = N + 1 - m
    BY <2>1
  <2>3. k \in 1..Len(v) /\ k \in 1..(Len(v) + 1) /\ k + 1 \in 1..(Len(v) + 1) /\ k <= Len(v)
    BY <1>1
  <2>4. CutAt(C, v, g, p, f, k + 1)
    BY <2>1, <2>2, Zenon
  <2>5. PICK w \in Seq(C) : w = g[k + 1]
    <3>1. TailText(C, v, g, k + 1)
      BY <2>3, Tails
    <3> QED BY <3>1 DEF TailText
  <2>6. PICK x \in Pieces(C) : x = v[k]
    BY <2>3
  <2>7. PICK s \in Seq(C) : s = Source(x)
    <3>1. Begins(C, x, Source(x))
      BY PieceBegins
    <3> QED BY <3>1, Zenon DEF Begins
  <2>8. g[k] = s \o w
    <3>1. TailText(C, v, g, k)
      BY <2>3, Tails
    <3> QED BY <2>3, <2>5, <2>6, <2>7, <3>1, Zenon DEF TailText
  <2>9. Fits(x, w)
    <3>1. Fits(v[k], g[k + 1])
      BY <2>3, TailFits
    <3> QED BY <2>5, <2>6, <3>1, Zenon
  <2>10. ASSUME NEW h \in Seq(C), p = h \o g[k] PROVE f[Len(h) + 1] = RestOf(v, k)
    <3>1. IsMiddle(p, h, s, w)
      BY <2>8, <2>10, Zenon DEF IsMiddle
    <3>2. Takes(p, f, h, x, s)
      BY <2>7, <2>9, <3>1, TakesPiece
    <3>3. PICK hs \in Seq(C) : hs = h \o s
      BY ConcatProperties
    <3>4. p = hs \o w
      <4>1. Associates(h, s, w)
        BY AllAssociate
      <4> QED BY <3>1, <3>3, <4>1, Zenon DEF Associates, IsMiddle
    <3>5. f[Len(hs) + 1] = RestOf(v, k + 1)
      BY <2>4, <2>5, <3>4, Zenon DEF CutAt
    <3>6. Len(hs) = Len(h) + Len(s)
      BY <3>3, ConcatProperties
    <3>7. Len(hs) + 1 = Len(h) + 1 + Len(s)
      <4>1. Len(h) \in Nat /\ Len(s) \in Nat
        OBVIOUS
      <4> QED BY <3>6, <4>1
    <3>8. Len(h) + 1 \in 1..(Len(p) + 1)
      <4>1. Len(p) = Len(h) + Len(s) + Len(w) /\ Len(h) \in Nat /\ Len(s) \in Nat
            /\ Len(w) \in Nat
        BY <3>1, InTheMiddle
      <4> QED BY <4>1
    <3>9. f[Len(h) + 1] = TokenBody(p, f, Len(h) + 1)
      BY <3>8, Zenon DEF IsLoop
    <3>10. f[Len(h) + 1] = <<x>> \o RestOf(v, k + 1)
      BY <3>2, <3>5, <3>7, <3>9, Zenon DEF Takes
    <3>11. <<v[k]>> \o RestOf(v, k + 1) = RestOf(v, k)
      BY <2>3, RestStep
    <3> QED BY <2>6, <3>10, <3>11, Zenon
  <2>11. CutAt(C, v, g, p, f, k)
    BY <2>10, Zenon DEF CutAt
  <2> QED BY <2>2, <2>11, Zenon
<1>4. M = Nat
  <2>1. M \in SUBSET Nat
    OBVIOUS
  <2> HIDE DEF M
  <2> QED BY <1>2, <1>3, <2>1, InductionOnSet
<1>5. N \in M
  <2> HIDE DEF M
  <2> QED BY <1>4
<1>6. CutAt(C, v, g, p, f, N + 1 - N)
  BY <1>5
<1>7. N + 1 - N = 1
  OBVIOUS
<1> QED BY <1>6, <1>7, Zenon

\* A pattern is cut into the pieces it was put together from, items and characters
\* other than "%", of any number and size, over every set of characters, if no
\* piece reads as more of the item before it (the loop of LogFormatter::Init,
\* Log.cc:232-287).
THEOREM PatternCut ==
    ASSUME NEW C, Signs \subseteq C, Letters \subseteq C,
           NEW pieces \in Seq(Pieces(C)), Separate(pieces)
    PROVE  Tokens(Written(pieces)) = pieces
<1>1. Len(pieces) \in Nat
  OBVIOUS
<1>2. PICK g : /\ Written(pieces) = g[1]
               /\ \A i \in 1..(Len(pieces) + 1) : g[i] = SourceBody(pieces, g, i)
  BY <1>1, WrittenDef
<1>3. IsPattern(pieces, g)
  BY <1>2 DEF IsPattern
<1>4. 1 \in 1..(Len(pieces) + 1)
  BY <1>1
<1>5. PICK p \in Seq(C) : p = Written(pieces) /\ p = g[1]
  <2>1. TailText(C, pieces, g, 1)
    BY <1>3, <1>4, Tails
  <2> QED BY <1>2, <2>1 DEF TailText
<1>6. Len(p) \in Nat
  OBVIOUS
<1>7. PICK f : /\ Tokens(p) = f[1]
               /\ \A i \in 1..(Len(p) + 1) : f[i] = TokenBody(p, f, i)
  BY <1>6, TokensDef
<1>8. CutAt(C, pieces, g, p, f, 1)
  <2>1. IsLoop(p, f)
    BY <1>7 DEF IsLoop
  <2> QED BY <1>3, <2>1, CutFrom
<1>9. PICK h \in Seq(C) : h = <<>>
  BY EmptySeq
<1>10. p = h \o g[1] /\ Len(h) + 1 = 1
  <2>1. <<>> \o p = p
    BY ConcatEmptySeq
  <2>2. Len(h) = 0
    BY <1>9
  <2> QED BY <1>5, <1>9, <2>1, <2>2
<1>11. f[1] = RestOf(pieces, 1)
  BY <1>8, <1>10, Zenon DEF CutAt
<1>12. RestOf(pieces, 1) = pieces
  <2>1. Len(pieces) - 1 + 1 = Len(pieces) /\ \A j \in 1..Len(pieces) : 1 + j - 1 = j
    BY <1>1
  <2>2. RestOf(pieces, 1) = [j \in 1..Len(pieces) |-> pieces[j]]
    BY <2>1 DEF RestOf
  <2>3. pieces = [j \in 1..Len(pieces) |-> pieces[j]]
    OBVIOUS
  <2> QED BY <2>2, <2>3, Zenon
<1> QED BY <1>5, <1>7, <1>11, <1>12, Zenon

-----------------------------------------------------------------------------
(* No error *)

\* What the formatter can print.
Printable(C) ==
    {Text(s) : s \in Seq(C)} \cup {Item(n, fm) : n \in Items, fm \in Seq(C)}

LEMMA PrintableKinds ==
    ASSUME NEW C, NEW t \in Printable(C)
    PROVE  /\ t.kind \in {"text", "item"}
           /\ t.kind = "text" => t.text \in Seq(C)
           /\ t.kind = "item" => t.name \in Items
<1>1. \/ \E s \in Seq(C) : t = Text(s)
      \/ \E n \in Items, fm \in Seq(C) : t = Item(n, fm)
  BY DEF Printable
<1>2. ASSUME NEW s \in Seq(C), t = Text(s)
      PROVE  t.kind = "text" /\ t.text \in Seq(C)
  BY <1>2 DEF Text
<1>3. ASSUME NEW n \in Items, NEW fm \in Seq(C), t = Item(n, fm)
      PROVE  t.kind = "item" /\ t.name \in Items
  BY <1>3 DEF Item
<1>4. "text" # "item"
  OBVIOUS
<1> QED BY <1>1, <1>2, <1>3, <1>4, Zenon

LEMMA TextPrintable ==
    ASSUME NEW C, NEW s \in Seq(C)
    PROVE  Text(s) \in Printable(C)
BY DEF Printable

LEMMA GatherPrintable ==
    ASSUME NEW C, NEW vec \in Seq(Printable(C)), NEW t \in Printable(C)
    PROVE  Gather(vec, t) \in Seq(Printable(C))
<1>1. PICK P : P = Printable(C)
  OBVIOUS
<1>2. CASE t.kind = "text" /\ vec # <<>> /\ vec[Len(vec)].kind = "text"
  <2>1. Len(vec) \in Nat /\ Len(vec) \in 1..Len(vec)
    BY <1>2, EmptySeq
  <2>2. PICK last \in Printable(C) : last = vec[Len(vec)]
    BY <2>1
  <2>3. t.text \in Seq(C) /\ last.text \in Seq(C)
    BY <1>2, <2>2, PrintableKinds
  <2>4. last.text \o t.text \in Seq(C)
    BY <2>3, ConcatProperties
  <2>5. PICK x \in Printable(C) : x = Text(last.text \o t.text)
    BY <2>4, TextPrintable
  <2>6. Gather(vec, t) = [vec EXCEPT ![Len(vec)] = x]
    BY <1>2, <2>2, <2>5, Zenon DEF Gather
  <2>7. [vec EXCEPT ![Len(vec)] = x] \in Seq(Printable(C))
    <3>1. vec \in [1..Len(vec) -> Printable(C)]
      OBVIOUS
    <3>2. [vec EXCEPT ![Len(vec)] = x] \in [1..Len(vec) -> Printable(C)]
      BY <2>1, <3>1
    <3> QED BY <2>1, <3>2
  <2> QED BY <2>6, <2>7, Zenon
<1>3. CASE ~(t.kind = "text" /\ vec # <<>> /\ vec[Len(vec)].kind = "text")
  <2>1. Gather(vec, t) = Append(vec, t)
    BY <1>3, Zenon DEF Gather
  <2>2. Append(vec, t) \in Seq(Printable(C))
    OBVIOUS
  <2> QED BY <2>1, <2>2, Zenon
<1> QED BY <1>2, <1>3

LEMMA GatheredPrintable ==
    ASSUME NEW C, NEW v \in Seq(Printable(C))
    PROVE  Gathered(v) \in Seq(Printable(C))
<1>1. Len(v) \in Nat
  OBVIOUS
<1>2. PICK f : /\ Gathered(v) = f[Len(v)]
               /\ \A i \in 0..Len(v) : f[i] = VecBody(v, f, i)
  BY <1>1, GatheredDef
<1> DEFINE M == {m \in Nat : m <= Len(v) => f[m] \in Seq(Printable(C))}
<1>3. 0 \in M
  <2>1. 0 \in 0..Len(v)
    BY <1>1
  <2>2. f[0] = VecBody(v, f, 0)
    BY <1>2, <2>1
  <2>3. f[0] = <<>>
    BY <2>2 DEF VecBody
  <2>4. <<>> \in Seq(Printable(C))
    BY EmptySeq
  <2> QED BY <2>3, <2>4
<1>4. ASSUME NEW m \in M PROVE m + 1 \in M
  <2> SUFFICES ASSUME m + 1 <= Len(v) PROVE f[m + 1] \in Seq(Printable(C))
    OBVIOUS
  <2>1. m \in Nat /\ m <= Len(v) /\ f[m] \in Seq(Printable(C))
    BY <1>1
  <2>2. m + 1 \in 0..Len(v) /\ m + 1 \in 1..Len(v) /\ m + 1 # 0 /\ m + 1 - 1 = m
    BY <1>1, <2>1
  <2>3. f[m + 1] = VecBody(v, f, m + 1)
    BY <1>2, <2>2
  <2>4. f[m + 1] = Gather(f[m], v[m + 1])
    <3>1. PICK i : i = m + 1
      OBVIOUS
    <3>2. i # 0 /\ i - 1 = m
      BY <2>1, <3>1
    <3>3. f[i] = IF i = 0 THEN <<>> ELSE Gather(f[i - 1], v[i])
      BY <2>3, <3>1, Zenon DEF VecBody
    <3>4. f[i] = Gather(f[i - 1], v[i])
      BY <3>2, <3>3, Zenon
    <3> QED BY <3>1, <3>2, <3>4, Zenon
  <2>5. v[m + 1] \in Printable(C)
    BY <2>2
  <2>6. Gather(f[m], v[m + 1]) \in Seq(Printable(C))
    BY <2>1, <2>5, GatherPrintable
  <2> QED BY <2>4, <2>6, Zenon
<1>5. M = Nat
  <2>1. M \in SUBSET Nat
    OBVIOUS
  <2> HIDE DEF M
  <2> QED BY <1>3, <1>4, <2>1, InductionOnSet
<1>6. Len(v) \in M
  <2> HIDE DEF M
  <2> QED BY <1>1, <1>5
<1>7. f[Len(v)] \in Seq(Printable(C))
  BY <1>1, <1>6
<1> QED BY <1>2, <1>7, Zenon

\* And a formatter takes it, if the items have the names it knows: the pieces come
\* out with the text between two items gathered, and m_has_error stays false
\* (Log.cc:287-330).
THEOREM PatternTaken ==
    ASSUME NEW C, Signs \subseteq C, Letters \subseteq C,
           NEW pieces \in Seq(Pieces(C)), Separate(pieces),
           \A i \in 1..Len(pieces) : pieces[i].kind = "item" => pieces[i].name \in Items
    PROVE  Format(Written(pieces)) = Gathered(pieces) /\ ~HasError(Written(pieces))
<1>1. PICK p : p = Written(pieces)
  OBVIOUS
<1>2. Format(p) = Gathered(pieces)
  <2>1. Tokens(p) = pieces
    BY <1>1, PatternCut
  <2> QED BY <2>1, Zenon DEF Format
<1>3. pieces \in Seq(Printable(C))
  <2>1. Len(pieces) \in Nat /\ pieces \in [1..Len(pieces) -> Pieces(C)]
    OBVIOUS
  <2>2. ASSUME NEW i \in 1..Len(pieces) PROVE pieces[i] \in Printable(C)
    <3>1. PICK x \in Pieces(C) : x = pieces[i]
      OBVIOUS
    <3>2. PieceOf(C, x)
      BY PieceKinds
    <3>3. ASSUME NEW c \in C, x = Text(<<c>>) PROVE x \in Printable(C)
      <4>1. <<c>> \in Seq(C)
        OBVIOUS
      <4> QED BY <3>3, <4>1, TextPrintable
    <3>4. ASSUME NEW n \in Seq(Letters), NEW fm \in Seq(C), x = Item(n, fm)
          PROVE  x \in Printable(C)
      <4>1. x.kind = "item" /\ x.name = n
        BY <3>4 DEF Item
      <4>2. n \in Items
        BY <3>1, <4>1, Zenon
      <4> QED BY <3>4, <4>2 DEF Printable
    <3>5. x \in Printable(C)
      BY <3>2, <3>3, <3>4, Zenon DEF PieceOf
    <3> QED BY <3>1, <3>5
  <2>3. pieces \in [1..Len(pieces) -> Printable(C)]
    BY <2>1, <2>2
  <2> QED BY <2>1, <2>3
<1>4. ~HasError(p)
  <2>1. PICK q \in Seq(Printable(C)) : q = Format(p)
    BY <1>2, <1>3, GatheredPrintable
  <2>2. ASSUME NEW i \in DOMAIN q
        PROVE  ~(q[i].kind = "broken" \/ (q[i].kind = "item" /\ q[i].name \notin Items))
    <3>1. PICK t \in Printable(C) : t = q[i]
      BY <2>2
    <3>2. t.kind \in {"text", "item"} /\ (t.kind = "item" => t.name \in Items)
      BY PrintableKinds
    <3>3. "broken" # "text" /\ "broken" # "item"
      OBVIOUS
    <3> QED BY <3>1, <3>2, <3>3, Zenon
  <2> QED BY <2>1, <2>2, Zenon DEF HasError
<1> QED BY <1>1, <1>2, <1>4, Zenon

-----------------------------------------------------------------------------
(* The invariant of the run *)

\* The characters of the pieces that TLC puts together.
SomeText == {"x", ":", " ", "d", "%", "{", "}"} \cup Letters

LEMMA TextPiece ==
    ASSUME NEW C, NEW c \in C, c # "%"
    PROVE  Text(<<c>>) \in Pieces(C) /\ Text(<<c>>).kind # "item"
BY DEF Pieces, Text

LEMMA ItemPiece ==
    ASSUME NEW C, NEW n \in Seq(Letters), n # <<>>, NEW fm \in Seq(C), IsFormat(fm)
    PROVE  Item(n, fm) \in Pieces(C)
BY DEF Pieces

ShortOf(C, c, d, b) ==
    /\ <<>> \in Seq(C) /\ <<c>> \in Seq(C) /\ <<c, d>> \in Seq(C)
    /\ \A k \in 1..Len(<<>>) : <<>>[k] # b
    /\ \A k \in 1..Len(<<c>>) : <<c>>[k] # b
    /\ \A k \in 1..Len(<<c, d>>) : <<c, d>>[k] # b

LEMMA ShortOnes ==
    ASSUME NEW C, NEW c \in C, NEW d \in C, NEW b, c # b, d # b
    PROVE  ShortOf(C, c, d, b)
BY DEF ShortOf

LEMMA ShortFormats ==
    ASSUME NEW C, NEW c \in C, NEW d \in C, c # "}", d # "}"
    PROVE  /\ <<>> \in Seq(C) /\ IsFormat(<<>>)
           /\ <<c>> \in Seq(C) /\ IsFormat(<<c>>)
           /\ <<c, d>> \in Seq(C) /\ IsFormat(<<c, d>>)
<1>1. ShortOf(C, c, d, "}")
  BY ShortOnes
<1> QED BY <1>1, Zenon DEF ShortOf, IsFormat

LEMMA SomeFormatsAre ==
    ASSUME NEW fm \in SomeFormats
    PROVE  fm \in Seq(SomeText) /\ IsFormat(fm)
<1>1. /\ "d" \in SomeText /\ "%" \in SomeText /\ "x" \in SomeText /\ "{" \in SomeText
      /\ "d" # "}" /\ "%" # "}" /\ "x" # "}" /\ "{" # "}"
  BY DEF SomeText
<1>2. /\ <<>> \in Seq(SomeText) /\ IsFormat(<<>>)
      /\ <<"%", "x">> \in Seq(SomeText) /\ IsFormat(<<"%", "x">>)
  BY <1>1, ShortFormats, Zenon
<1>3. <<"d">> \in Seq(SomeText) /\ IsFormat(<<"d">>)
  BY <1>1, ShortFormats, Zenon
<1>4. <<"{">> \in Seq(SomeText) /\ IsFormat(<<"{">>)
  BY <1>1, ShortFormats, Zenon
<1>5. fm = <<>> \/ fm = <<"d">> \/ fm = <<"%", "x">> \/ fm = <<"{">>
  BY Zenon DEF SomeFormats
<1> QED BY <1>2, <1>3, <1>4, <1>5, Zenon

LEMMA SomePiecesAre ==
    ASSUME NEW x \in SomePieces
    PROVE  x \in Pieces(SomeText) /\ (x.kind = "item" => x.name \in Items)
<1>1. \A c \in SomeChars : c \in SomeText /\ c # "%"
  BY DEF SomeText, SomeChars
<1>2. ASSUME NEW c \in SomeChars, x = Text(<<c>>)
      PROVE  x \in Pieces(SomeText) /\ x.kind # "item"
  BY <1>1, <1>2, TextPiece
<1>3. ASSUME NEW name \in Items, NEW fm \in SomeFormats, x = Item(name, fm)
      PROVE  x \in Pieces(SomeText) /\ x.name \in Items
  <2>1. name \in Seq(Letters) /\ name # <<>>
    BY PatternAssumption, Zenon
  <2>2. fm \in Seq(SomeText) /\ IsFormat(fm)
    BY SomeFormatsAre
  <2>3. x \in Pieces(SomeText)
    BY <1>3, <2>1, <2>2, ItemPiece
  <2>4. x.name = name
    BY <1>3 DEF Item
  <2> QED BY <2>3, <2>4
<1>4. \/ \E c \in SomeChars : x = Text(<<c>>)
      \/ \E name \in Items, fm \in SomeFormats : x = Item(name, fm)
  BY DEF SomePieces
<1> QED BY <1>2, <1>3, <1>4, Zenon

LEMMA PatternAlways == PatternExact
<1> SUFFICES ASSUME NEW pieces \in BoundedSeq(SomePieces, 3), Separate(pieces)
             PROVE  Format(Written(pieces)) = Gathered(pieces) /\ ~HasError(Written(pieces))
  BY DEF PatternExact
<1>1. PICK m \in 0..3 : pieces \in [1..m -> SomePieces]
  BY DEF BoundedSeq, SeqOf
<1>2. \A i \in 1..m : /\ pieces[i] \in Pieces(SomeText)
                      /\ pieces[i].kind = "item" => pieces[i].name \in Items
  BY <1>1, SomePiecesAre
<1>3. pieces \in [1..m -> Pieces(SomeText)]
  BY <1>1, <1>2
<1>4. pieces \in Seq(Pieces(SomeText)) /\ Len(pieces) = m
  BY <1>3
<1>5. Signs \subseteq SomeText /\ Letters \subseteq SomeText
  BY DEF Signs, SomeText
<1>6. \A i \in 1..Len(pieces) : pieces[i].kind = "item" => pieces[i].name \in Items
  BY <1>2, <1>4
<1> QED BY <1>4, <1>5, <1>6, PatternTaken

\* Pattern and pieces agree, for all letters and all names of items (Log.cc:232-301).
THEOREM PatternIsExact == Spec => []PatternExact
<1>1. PatternExact
  BY PatternAlways
<1> QED BY <1>1, PTL
==============================================================================
