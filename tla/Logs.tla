-------------------------------- MODULE Logs --------------------------------
(***************************************************************************)
(* The loggers (Log.cc) and the listener that changes them when the         *)
(* variable "logs" is set (LogIniter), on top of Config.  A value of "logs" *)
(* defines some loggers; the listener compares the old and the new value    *)
(* and calls the loggers' setters one by one, each under that logger's      *)
(* lock, while other threads log.                                           *)
(***************************************************************************)
EXTENDS Config

CONSTANTS
    Names,    \* names of loggers,
    Root,     \* that of the root logger among them
    Writers,  \* threads that log
    MaxEvents, \* bound: events of a writer
    Formatters, \* patterns, "" for none and "default" among them,
    Faulty,   \* those of them that have an error
    Debug, Fatal, Unknown, \* the levels, in their order
    EventLevels \* bound: those that are logged at

\* A definition, of which a value of SlowVar has one for some names, and a logger.
\* An appender that is defined without a level gets its logger's (it is given one
\* in the definitions of an instance).
Appender   == [kind : {"console", "file"}, level : Debug..Unknown]
Definition == [level : Debug..Unknown, formatter : Formatters, appenders : SUBSET Appender]
Logger     == [level : Debug..Unknown, formatter : Formatters, appenders : SUBSET Appender,
               root : BOOLEAN]

ASSUME LogsAssumption ==
    /\ Root \in Names
    /\ {"", "default"} \subseteq Formatters /\ Faulty \subseteq Formatters \ {"", "default"}
    /\ {Debug, Fatal, Unknown} \subseteq Int /\ Debug <= Fatal /\ Fatal < Unknown
    /\ EventLevels \subseteq Debug..Fatal
    /\ None \notin Names \cup Definition \cup Logger
    /\ \A val \in Values[SlowVar] : val \in [Names -> Definition \cup {None}]
    /\ Default[SlowVar] = [n \in Names |-> None]

Console == [kind |-> "console", level |-> Debug]

VARIABLES
    loggers,  \* LogManager::_loggers
    task,     \* where the listener is: the names it has yet to define or to silence,
              \* the logger it is at, the setter that is next, appenders to add
    at,       \* where a writer is: [step, name, level]
    heard,    \* per writer: who got its event
    events    \* events so far

logs == <<loggers, task, at, heard, events>>
vars == <<config, logs>>

NoTask  == [change |-> {}, gone |-> {}, name |-> None, op |-> "add", adds |-> {}]
NoEvent == [step |-> "idle", name |-> None, level |-> Debug]

\* LogManager makes the root logger, which has none behind it.
NewRoot ==
    [level |-> Debug, formatter |-> "default", appenders |-> {Console}, root |-> FALSE]

Init ==
    /\ ConfigInit
    /\ loggers = [n \in Names |-> IF n = Root THEN NewRoot ELSE None] /\ task = NoTask
    /\ at = [w \in Writers |-> NoEvent]
    /\ heard = [w \in Writers |-> {}] /\ events = [w \in Writers |-> 0]

\* Mutant of NewLogger: it does not know the root logger.
NewLoggerAlone ==
    [level |-> Debug, formatter |-> "default", appenders |-> {Console}, root |-> FALSE]

\* GetLogger makes a logger that writes to the console, with root behind it.
NewLogger ==
    [level |-> Debug, formatter |-> "default", appenders |-> {Console}, root |-> TRUE]
GetLogger(n) ==
    loggers' = [loggers EXCEPT ![n] = IF @ = None THEN NewLogger ELSE @]

-----------------------------------------------------------------------------
\* The listener is called.  It looks at each new definition and passes those over
\* that are as before; then it looks for names that are not defined any more.
SlowBegins(t) ==
    LET old == value[SlowVar]
        new == Entry(t).val
    IN  /\ Notify(t, Slow)
        /\ task' = [task EXCEPT
               !.change = {n \in Names : new[n] # None /\ old[n] # new[n]},
               !.gone   = {n \in Names : old[n] # None /\ new[n] = None}]
        /\ UNCHANGED <<loggers, at, heard, events>>

\* The definition it follows for the logger it is at, and its next setter.
NewDefinition(t) == Entry(t).val[task.name]
Setting(t, op) == pc[t] = "slow" /\ task.op = op
BetweenLoggers(t) == Setting(t, "add") /\ task.adds = {}

\* A writer keeps a logger's lock while it hands an event on to root.
Held(n) == \E w \in Writers : at[w].step \in {"root", "toRoot"} /\ at[w].name = n

\* It gets the logger of the next name, those to define first, ...
Obtain(t) ==
    /\ BetweenLoggers(t)
    /\ \E n \in IF task.change # {} THEN task.change ELSE task.gone :
           /\ GetLogger(n)
           /\ task' = [task EXCEPT !.change = @ \ {n}, !.gone = @ \ {n},
                                   !.name = n, !.op = "level"]
    /\ UNCHANGED <<config, at, heard, events>>

\* ... sets its level, UNKNOWN if it is gone, ...
SetLevel(t) ==
    LET def == NewDefinition(t) IN
    /\ Setting(t, "level")
    /\ loggers' = [loggers EXCEPT ![task.name].level =
                       IF def = None THEN Unknown ELSE def.level]
    /\ task' = [task EXCEPT !.op = IF def = None THEN "clear"
                                   ELSE IF def.formatter = "" THEN "clear" ELSE "format"]
    /\ UNCHANGED <<config, at, heard, events>>

\* ... its formatter, if the definition names one, and keeps the old one if that
\* has an error, ...
SetFormatter(t) ==
    LET formatter == NewDefinition(t).formatter IN
    /\ Setting(t, "format")
    /\ \/ formatter \in Faulty /\ UNCHANGED loggers
       \/ /\ formatter \notin Faulty /\ ~Held(task.name)
          /\ loggers' = [loggers EXCEPT ![task.name].formatter = formatter]
    /\ task' = [task EXCEPT !.op = "clear"]
    /\ UNCHANGED <<config, at, heard, events>>

\* Mutant of ClearAppenders: the appenders a logger has stay.
ClearNothing(t) ==
    LET def == NewDefinition(t) IN
    /\ Setting(t, "clear")
    /\ task' = [task EXCEPT !.op = "add",
                            !.adds = IF def = None THEN {} ELSE def.appenders]
    /\ UNCHANGED <<config, loggers, at, heard, events>>

\* ... takes all its appenders away ...
ClearAppenders(t) ==
    LET def == NewDefinition(t) IN
    /\ Setting(t, "clear") /\ ~Held(task.name)
    /\ loggers' = [loggers EXCEPT ![task.name].appenders = {}]
    /\ task' = [task EXCEPT !.op = "add",
                            !.adds = IF def = None THEN {} ELSE def.appenders]
    /\ UNCHANGED <<config, at, heard, events>>

\* ... and adds those that are defined, one by one.
AddAppender(t) ==
    /\ Setting(t, "add") /\ ~Held(task.name)
    /\ \E a \in task.adds :
           /\ loggers' = [loggers EXCEPT ![task.name].appenders = @ \cup {a}]
           /\ task' = [task EXCEPT !.adds = @ \ {a}]
    /\ UNCHANGED <<config, at, heard, events>>

\* It returns when all names are done.
SlowReturns(t) ==
    /\ BetweenLoggers(t) /\ task.change \cup task.gone = {}
    /\ Goto(t, "notify") /\ task' = NoTask
    /\ UNCHANGED <<value, hooks, readers, writer, job, todo, loads, hookings, seen,
                   loggers, at, heard, events>>

SlowStep(t) ==
    Obtain(t) \/ SetLevel(t) \/ SetFormatter(t) \/ ClearAppenders(t) \/ AddAppender(t)

-----------------------------------------------------------------------------
\* A writer asks for its logger ...
BeginLog(w, n, level) ==
    /\ at[w].step = "idle" /\ events[w] < MaxEvents
    /\ events' = [events EXCEPT ![w] = @ + 1]
    /\ GetLogger(n)
    /\ at' = [at EXCEPT ![w] = [step |-> "check", name |-> n, level |-> level]]
    /\ UNCHANGED <<config, task, heard>>

\* ... Log looks at the level without the lock, ...
CheckLevel(w) ==
    /\ at[w].step = "check"
    /\ at' = [at EXCEPT ![w] = IF at[w].level >= loggers[at[w].name].level
                               THEN [@ EXCEPT !.step = "deliver"] ELSE NoEvent]
    /\ UNCHANGED <<config, loggers, task, heard, events>>

\* ... hands the event to the appenders under it, or, if there are none, to root,
\* under it as well ...
Takers(logger, level) == {a \in logger.appenders : level >= a.level}

Deliver(w) ==
    LET logger == loggers[at[w].name] IN
    /\ at[w].step = "deliver" /\ ~Held(at[w].name)
    /\ heard' = [heard EXCEPT ![w] = Takers(logger, at[w].level)]
    /\ at' = [at EXCEPT ![w].step =
                  IF logger.appenders = {} /\ logger.root THEN "root" ELSE "done"]
    /\ UNCHANGED <<config, loggers, task, events>>

\* ... which does the same: it looks at its own level and hands the event to its
\* own appenders.
CheckRoot(w) ==
    /\ at[w].step = "root"
    /\ at' = [at EXCEPT ![w].step = IF at[w].level >= loggers[Root].level
                                    THEN "toRoot" ELSE "done"]
    /\ UNCHANGED <<config, loggers, task, heard, events>>

RootDelivers(w) ==
    /\ at[w].step = "toRoot" /\ ~Held(Root)
    /\ heard' = [heard EXCEPT ![w] = Takers(loggers[Root], at[w].level)]
    /\ at' = [at EXCEPT ![w].step = "done"]
    /\ UNCHANGED <<config, loggers, task, events>>

EndLog(w) ==
    /\ at[w].step = "done"
    /\ at' = [at EXCEPT ![w] = NoEvent] /\ heard' = [heard EXCEPT ![w] = {}]
    /\ UNCHANGED <<config, loggers, task, events>>

-----------------------------------------------------------------------------
Loading(t) ==
    \/ LoaderStep(t) /\ UNCHANGED logs
    \/ \E l \in Listeners \ {Slow} :
           (Notify(t, l) \/ ListenerSets(t, l)) /\ UNCHANGED logs
    \/ SlowBegins(t) \/ SlowStep(t) \/ SlowReturns(t)

\* A thread in Log.
Logging(w) == CheckLevel(w) \/ Deliver(w) \/ CheckRoot(w) \/ RootDelivers(w) \/ EndLog(w)

Next ==
    /\ ~Reentered
    /\ \/ \E v \in Vars : Lookup(v) /\ UNCHANGED logs
       \/ Hooking /\ UNCHANGED logs
       \/ \E t \in Loaders : Loading(t) \/ \E f \in Files : Load(t, f) /\ UNCHANGED logs
       \/ \E w \in Writers :
              \/ \E n \in Names, level \in EventLevels : BeginLog(w, n, level)
              \/ Logging(w)

Spec == Init /\ [][Next]_vars

\* The threads run.
FairSpec ==
    /\ Spec
    /\ \A a \in Threads : WF_vars(~Reentered /\ \E t \in {a} \X (1..Depth) : Loading(t))
    /\ \A w \in Writers : WF_vars(~Reentered /\ Logging(w))
==============================================================================
