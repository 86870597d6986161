------------------------------- MODULE Config -------------------------------
(***************************************************************************)
(* ConfigVar and ConfigManager (Config.h, Config.cc): variables with an     *)
(* RWMutex and listeners that are called, under the write lock, before a    *)
(* new value is assigned.  A loader applies a YAML file entry by entry; a   *)
(* direct setValue is a loader with one entry.                              *)
(*                                                                          *)
(* A listener may set a variable itself, which calls the listeners of that  *)
(* one, and so on: a loader is a call, a thread and its depth.  One         *)
(* listener, Slow, is not done in one step: module Logs says what it does.  *)
(* No listener throws.                                                      *)
(***************************************************************************)
EXTENDS Integers, Sequences, FiniteSets

CONSTANTS
    Vars,      \* names of variables
    Values,    \* values of each variable: a function on Vars
    Default,   \* the value Lookup registers each with
    Threads,   \* threads that load files or set values
    Depth,     \* bound: calls of setValue in each other; as many as there are
               \* variables suffice, for one more would set one that is being set
    Listeners, \* callbacks
    Slow,      \* the listener with steps of its own ...
    SlowVar,   \* ... and the variable it listens to
    MaySet,    \* entries that the listeners of each variable may set
    Files,     \* sequences of entries: [var, val], val = Bad if it does not parse
    MaxLoads,  \* bound: files of a loader
    MaxHooks,  \* bound: listeners added and deleted
    Bad, None

\* Calls: a file is loaded by the first of a thread, the listeners of what a call
\* sets call the next.
Loaders  == Threads \X (1..Depth)
Inner(t) == <<t[1], t[2] + 1>>

ASSUME ConfigAssumption ==
    /\ \A v \in Vars : Default[v] \in Values[v] /\ {Bad, None} \cap Values[v] = {}
    /\ Bad # None /\ None \notin Loaders /\ Depth \in Nat \ {0}
    /\ \A v \in Vars : \A e \in MaySet[v] : e.var \in Vars /\ e.val \in Values[e.var]
    /\ Slow \in Listeners /\ SlowVar \in Vars
    /\ \A f \in Files :
           /\ Len(f) \in Nat /\ f = [i \in 1..Len(f) |-> f[i]]
           /\ \A i \in 1..Len(f) : /\ f[i].var \in Vars
                                   /\ f[i].val \in Values[f[i].var] \cup {Bad}
    /\ MaxLoads \in Nat /\ MaxHooks \in Nat

VARIABLES
    value,   \* _value; None before Lookup has made the variable
    hooks,   \* _change_callbacks of each variable
    readers, \* calls that hold the read lock of each variable
    writer,  \* the call that holds the write lock
    pc,      \* where a loader is
    job,     \* the entries it still has to apply, the current one first
    todo,    \* listeners it still has to call
    loads,   \* files so far, per loader (of the first calls)
    hookings, \* calls of addChangeCallback and delChangeCallback so far
    seen     \* per variable and listener: the value it knows (history)

config == <<value, hooks, readers, writer, pc, job, todo, loads, hookings, seen>>

ConfigInit ==
    /\ value = [v \in Vars |-> None]
    /\ hooks = [v \in Vars |-> {}]
    /\ readers = [v \in Vars |-> {}] /\ writer = [v \in Vars |-> None]
    /\ pc = [t \in Loaders |-> "idle"] /\ job = [t \in Loaders |-> <<>>]
    /\ todo = [t \in Loaders |-> {}] /\ loads = [t \in Loaders |-> 0]
    /\ hookings = 0 /\ seen = [v \in Vars |-> [l \in Listeners |-> None]]

Goto(t, label) == pc' = [pc EXCEPT ![t] = label]
Entry(t) == job[t][1]

\* Lookup with a default, under the manager's lock: it makes the variable unless
\* it is there.  The one Slow listens to is made with it, before main.
Lookup(v) ==
    /\ value[v] = None
    /\ value' = [value EXCEPT ![v] = Default[v]]
    /\ hooks' = [hooks EXCEPT ![v] = IF v = SlowVar THEN {Slow} ELSE {}]
    /\ seen' = [seen EXCEPT ![v][Slow] = IF v = SlowVar THEN Default[v] ELSE None]
    /\ UNCHANGED <<readers, writer, pc, job, todo, loads, hookings>>

\* addChangeCallback and delChangeCallback, under the write lock.
AddHook(v, l) ==
    /\ value[v] # None /\ writer[v] = None /\ readers[v] = {}
    /\ l \notin hooks[v] \cup {Slow} /\ hookings < MaxHooks /\ hookings' = hookings + 1
    /\ hooks' = [hooks EXCEPT ![v] = @ \cup {l}]
    /\ seen' = [seen EXCEPT ![v][l] = value[v]]
    /\ UNCHANGED <<value, readers, writer, pc, job, todo, loads>>

DelHook(v, l) ==
    /\ value[v] # None /\ writer[v] = None /\ readers[v] = {}
    /\ l \in hooks[v] \ {Slow} /\ hookings < MaxHooks /\ hookings' = hookings + 1
    /\ hooks' = [hooks EXCEPT ![v] = @ \ {l}]
    /\ seen' = [seen EXCEPT ![v][l] = None]
    /\ UNCHANGED <<value, readers, writer, pc, job, todo, loads>>

-----------------------------------------------------------------------------
Load(t, file) ==
    /\ t[2] = 1 /\ pc[t] = "idle" /\ loads[t] < MaxLoads
    /\ loads' = [loads EXCEPT ![t] = @ + 1]
    /\ job' = [job EXCEPT ![t] = file]
    /\ Goto(t, "entry")
    /\ UNCHANGED <<value, hooks, readers, writer, todo, hookings, seen>>

\* LoadFromYaml: the end of the file, an entry without a variable is passed over,
\* one that does not parse ends the load; or setValue takes the read lock.
NextEntry(t) ==
    /\ pc[t] = "entry"
    /\ \/ /\ IF job[t] = <<>> THEN TRUE
             ELSE value[Entry(t).var] # None /\ Entry(t).val = Bad
          /\ job' = [job EXCEPT ![t] = <<>>]
          /\ Goto(t, "idle") /\ UNCHANGED readers
       \/ /\ job[t] # <<>> /\ value[Entry(t).var] = None
          /\ job' = [job EXCEPT ![t] = Tail(@)]
          /\ UNCHANGED <<pc, readers>>
       \/ /\ job[t] # <<>> /\ value[Entry(t).var] # None /\ Entry(t).val # Bad
          /\ writer[Entry(t).var] = None
          /\ readers' = [readers EXCEPT ![Entry(t).var] = @ \cup {t}]
          /\ Goto(t, "compare") /\ UNCHANGED job
    /\ UNCHANGED <<value, hooks, writer, todo, loads, hookings, seen>>

\* Mutant of Compare: the early return does not release the lock.
CompareKeepsLock(t) ==
    /\ pc[t] = "compare"
    /\ IF value[Entry(t).var] = Entry(t).val
       THEN job' = [job EXCEPT ![t] = Tail(@)] /\ Goto(t, "entry") /\ UNCHANGED readers
       ELSE /\ readers' = [readers EXCEPT ![Entry(t).var] = @ \ {t}]
            /\ UNCHANGED job /\ Goto(t, "lock")
    /\ UNCHANGED <<value, hooks, writer, todo, loads, hookings, seen>>

\* Equal values: nothing to do.
Compare(t) ==
    /\ pc[t] = "compare"
    /\ readers' = [readers EXCEPT ![Entry(t).var] = @ \ {t}]
    /\ IF value[Entry(t).var] = Entry(t).val
       THEN job' = [job EXCEPT ![t] = Tail(@)] /\ Goto(t, "entry")
       ELSE UNCHANGED job /\ Goto(t, "lock")
    /\ UNCHANGED <<value, hooks, writer, todo, loads, hookings, seen>>

\* Mutant of WriteLock: it is shared, as the read lock is.
WriteLockShared(t) ==
    LET v == Entry(t).var IN
    /\ pc[t] = "lock"
    /\ writer' = [writer EXCEPT ![v] = t]
    /\ todo' = [todo EXCEPT ![t] = hooks[v]]
    /\ Goto(t, "notify")
    /\ UNCHANGED <<value, hooks, readers, job, loads, hookings, seen>>

\* The write lock; the comparison is not repeated under it.
WriteLock(t) ==
    LET v == Entry(t).var IN
    /\ pc[t] = "lock" /\ writer[v] = None /\ readers[v] = {}
    /\ writer' = [writer EXCEPT ![v] = t]
    /\ todo' = [todo EXCEPT ![t] = hooks[v]]
    /\ Goto(t, "notify")
    /\ UNCHANGED <<value, hooks, readers, job, loads, hookings, seen>>

\* A callback is called with the old and the new value, in any order, ...
Notify(t, l) ==
    /\ pc[t] = "notify" /\ l \in todo[t]
    /\ todo' = [todo EXCEPT ![t] = @ \ {l}]
    /\ seen' = [seen EXCEPT ![Entry(t).var][l] = Entry(t).val]
    /\ Goto(t, IF l = Slow THEN "slow" ELSE "notify")
    /\ UNCHANGED <<value, hooks, readers, writer, job, loads, hookings>>

\* ... and may set a variable before it returns.  If that is one that a call of the
\* same thread is setting, the read lock is refused (EDEADLK), which RWMutex does not
\* see, and its unlock gives the write lock away: what follows is undefined.
ListenerSets(t, l) ==
    /\ pc[t] = "notify" /\ l \in todo[t]
    /\ todo' = [todo EXCEPT ![t] = @ \ {l}]
    /\ seen' = [seen EXCEPT ![Entry(t).var][l] = Entry(t).val]
    /\ \E e \in MaySet[Entry(t).var] :
           /\ value[e.var] # None
           /\ \/ /\ \E u \in Loaders : writer[e.var] = u /\ u[1] = t[1]
                 /\ Goto(t, "again") /\ UNCHANGED job
              \/ /\ \A u \in Loaders : writer[e.var] = u => u[1] # t[1]
                 /\ Inner(t) \in Loaders
                 /\ pc' = [pc EXCEPT ![t] = "waits", ![Inner(t)] = "entry"]
                 /\ job' = [job EXCEPT ![Inner(t)] = <<e>>]
    /\ UNCHANGED <<value, hooks, readers, writer, loads, hookings>>

ListenerReturns(t) ==
    /\ pc[t] = "waits" /\ pc[Inner(t)] = "idle"
    /\ Goto(t, "notify")
    /\ UNCHANGED <<value, hooks, readers, writer, job, todo, loads, hookings, seen>>

\* The assignment, when all have returned, and the end of setValue.
Assign(t) ==
    LET v == Entry(t).var IN
    /\ pc[t] = "notify" /\ todo[t] = {}
    /\ value' = [value EXCEPT ![v] = Entry(t).val]
    /\ writer' = [writer EXCEPT ![v] = None]
    /\ job' = [job EXCEPT ![t] = Tail(@)]
    /\ Goto(t, "entry")
    /\ UNCHANGED <<hooks, readers, todo, loads, hookings, seen>>

LoaderStep(t) ==
    NextEntry(t) \/ Compare(t) \/ WriteLock(t) \/ ListenerReturns(t) \/ Assign(t)

\* A listener has set a variable that its thread is setting.
Reentered == \E t \in Loaders : pc[t] = "again"

Hooking == \E v \in Vars, l \in Listeners : AddHook(v, l) \/ DelHook(v, l)
==============================================================================
