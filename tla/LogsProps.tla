----------------------------- MODULE LogsProps -----------------------------
(* What Config and the loggers promise, in module Logs. *)
EXTENDS Logs, LogPattern, SequencesExt

\* The instance TLC checks: three values of "logs", and a variable "x".  A listener
\* of each may set the other.
File(level) == [kind |-> "file", level |-> level]
Def(level, formatter, appenders) ==
    [level |-> level, formatter |-> formatter, appenders |-> appenders]
Nothing == [n \in Names |-> None]
One == [n \in Names |-> IF n = "a" THEN Def(Debug, "f", {File(Debug), Console}) ELSE None]
Two == [n \in Names |-> IF n = "a" THEN Def(Fatal, "faulty", {File(Fatal)})
                        ELSE Def(Debug, "", {})]
SomeValues == [v \in {"logs", "x"} |-> IF v = "logs" THEN {Nothing, One, Two} ELSE {0, 1}]
SomeDefaults == [v \in {"logs", "x"} |-> IF v = "logs" THEN Nothing ELSE 0]
SomeSettings ==
    [v \in {"logs", "x"} |-> IF v = "logs" THEN {[var |-> "x", val |-> 1]}
                             ELSE {[var |-> "logs", val |-> Nothing]}]
SomeFiles ==
    {<<[var |-> "logs", val |-> One], [var |-> "x", val |-> Bad]>>,
     <<[var |-> "x", val |-> 1], [var |-> "logs", val |-> Two]>>}

\* Every variable has its type: the one type invariant of the module.
TypeOK ==
    /\ \A v \in Vars : /\ value[v] \in Values[v] \cup {None}
                       /\ writer[v] \in Loaders \cup {None}
                       /\ readers[v] \subseteq Loaders
                       /\ writer[v] # None => readers[v] = {}
    /\ hooks \in [Vars -> SUBSET Listeners]
    /\ pc \in [Loaders -> {"idle", "entry", "compare", "lock", "notify", "slow", "waits",
                            "again"}]
    /\ \A t \in Loaders : Inner(t) \in Loaders /\ pc[t] # "waits" => pc[Inner(t)] = "idle"
    /\ \A n \in Names : loggers[n] = None \/ loggers[n].level \in Debug..Unknown

\* No change passes a listener by, and the changes it is told of follow each other:
\* the old value it is given is the last new one it was given, whatever other
\* threads set at the same time (Config.h:273-293).
ListenersUpToDate ==
    \A v \in Vars : \A l \in hooks[v] :
        seen[v][l] = IF \E t \in Loaders : writer[v] = t /\ l \notin todo[t]
                     THEN Entry(writer[v]).val ELSE value[v]

\* The loggers are what the value of "logs" says, root among them, whenever it is
\* not being changed, although the listener only applies the difference of two values
\* and threads may have made the logger before: it has the level and the appenders
\* of its definition, and its formatter, if it names one that has no error, and none
\* ever has one that has (Log.cc:516-523, 721-787).
LoggersMatch ==
    /\ \A n \in Names : loggers[n] # None => loggers[n].formatter \notin Faulty
    /\ value[SlowVar] # None /\ writer[SlowVar] = None =>
        \A n \in Names :
            LET def == value[SlowVar][n] IN
            def # None =>
                /\ loggers[n] # None
                /\ loggers[n].level = def.level /\ loggers[n].appenders = def.appenders
                /\ def.formatter \notin {""} \cup Faulty => loggers[n].formatter = def.formatter

\* A logger that is not defined is as it was made, or, if it was defined before,
\* silent: it writes to nobody, not even to root (Log.cc:664-687, 789-796).
Fresh(n) == IF n = Root THEN NewRoot ELSE NewLogger
UndefinedSilent ==
    value[SlowVar] # None /\ writer[SlowVar] = None =>
        \A n \in Names :
            value[SlowVar][n] = None /\ loggers[n] # None =>
                loggers[n] = Fresh(n) \/ (loggers[n].level = Unknown /\ loggers[n].appenders = {})

\* The loggers follow the configuration (Log.cc:721-800).
LoggersExact == TypeOK /\ LoggersMatch /\ UndefinedSilent

\* What the listener was told that the definition of a logger is, and whether it is
\* between two setters of one.
Told(n) == IF value[SlowVar] = None THEN None ELSE seen[SlowVar][Slow][n]
Busy == task.op # "add" \/ task.adds # {}

\* Root takes no event of the highest level: the listener has still to redefine it
\* or does it now, its definition has no appenders or a higher level, or it had one
\* that is gone.
RootSilenced ==
    \/ Root \in task.change \cup task.gone \/ (Busy /\ task.name = Root)
    \/ IF Told(Root) = None THEN loggers[Root] # NewRoot
       ELSE Told(Root).appenders = {} \/ Told(Root).level > Fatal

\* An event of the highest level that its logger lets through reaches somebody,
\* also while the logger has lost its old appenders and not got its new ones: root
\* takes it then, unless root itself is redefined or silenced by "logs"
\* (Log.cc:498-515, 758-796).
Heard ==
    [][\A w \in Writers :
           at[w].level = Fatal /\ at[w].step # "done" /\ at'[w].step = "done"
               /\ heard'[w] = {} => RootSilenced]_vars

\* Threads wait for each other in a ring: a listener of each sets what a call of the
\* next has write-locked.
Awaits(a, b) ==
    \E t, u \in Loaders :
        /\ t[1] = a /\ u[1] = b /\ pc[t] \in {"entry", "lock"} /\ job[t] # <<>>
        /\ writer[Entry(t).var] = u
Crossed ==
    \E ring \in SUBSET Threads \ {{}} : \A a \in ring : \E b \in ring : Awaits(a, b)

\* Every load ends: the lock of a variable is released on every way out of
\* setValue, and nobody waits for ever for it, also with loads of the same
\* variables in opposite orders and listeners that set others, unless such a
\* listener sets what its own thread is setting, or the listeners of two threads
\* wait for each other, which is what "callbacks may change values" comes to
\* (Config.h:273-293, Config.cc:39-77).
LoadEnds ==
    \A a \in Threads :
        pc[<<a, 1>>] # "idle" ~> pc[<<a, 1>>] = "idle" \/ Reentered \/ Crossed

-----------------------------------------------------------------------------
\* What module LogPattern makes of a pattern.  Init only says where TLC evaluates
\* it: it does not depend on the state.

SomeLetters == {"d", "m", "x"}
SomeItems   == {<<"d">>, <<"m">>, <<"d", "m">>}
SomeChars   == {"x", "}", "{", " ", ":"}
SomeFormats == {<<>>, <<"d">>, <<"%", "x">>, <<"{">>}
SomePieces  ==
    {Text(<<c>>) : c \in SomeChars} \cup {Item(name, fmt) : name \in Items, fmt \in SomeFormats}

Source(piece) ==
    IF piece.kind = "text" THEN piece.text
    ELSE <<"%">> \o piece.name
             \o (IF piece.fmt = <<>> THEN <<>> ELSE <<"{">> \o piece.fmt \o <<"}">>)

\* The pattern that is put together from pieces.
Written(pieces) ==
    LET From[k \in 1..(Len(pieces) + 1)] ==
            IF k > Len(pieces) THEN <<>> ELSE Source(pieces[k]) \o From[k + 1]
    IN  From[1]

\* Text after an item without a format must not go on like its name.
Separate(pieces) ==
    \A i \in 1..(Len(pieces) - 1) :
        pieces[i].kind = "item" /\ pieces[i].fmt = <<>> /\ pieces[i + 1].kind = "text" =>
            pieces[i + 1].text[1] \notin Letters \cup {"{", "}"}

\* A pattern is cut into the pieces it was put together from, none lost, doubled
\* or merged, whatever stands next to what and also in a format (Log.cc:232-301).
PatternExact ==
    Init =>
        \A pieces \in BoundedSeq(SomePieces, 3) :
            LET p == Written(pieces)
            IN  Separate(pieces) => Format(p) = Gathered(pieces) /\ ~HasError(p)
==============================================================================
