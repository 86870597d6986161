------------------------------ MODULE Servlets ------------------------------
(***************************************************************************)
(* ServletDispatcher (HttpServlet.cc): the servlets a request is handed to. *)
(* Each operation holds the RWMutex; getServlet is two of them, one after   *)
(* the other, and the tables may change in between.                         *)
(***************************************************************************)
EXTENDS Integers, Sequences, SequencesExt

CONSTANTS
    Uris,      \* paths of requests
    Patterns,  \* glob patterns
    Matches,   \* fnmatch: pairs of a pattern and a path
    MaxEdits   \* bound: changes of the tables

ASSUME ServletAssumption == Matches \subseteq Patterns \X Uris /\ MaxEdits \in Nat

\* A servlet is named for its registration; setDefault is not called while the
\* server runs.
Exact(u) == <<"exact", u>>
Glob(p)  == <<"glob", p>>
Default  == <<"default", "">>

VARIABLES
    datas,  \* m_datas: paths that have a servlet
    globs,  \* m_globs: patterns in their order
    edits

tables == <<datas, globs, edits>>

TablesInit == datas = {} /\ globs = <<>> /\ edits = 0

Edit == edits < MaxEdits /\ edits' = edits + 1

\* addServlet, delMatchedServlet
AddServlet(u) == Edit /\ datas' = datas \cup {u} /\ UNCHANGED globs
DelMatchedServlet(u) == Edit /\ u \in datas /\ datas' = datas \ {u} /\ UNCHANGED globs

\* The first entry of a pattern is erased.
Without(p) ==
    IF p \in ToSet(globs)
    THEN RemoveAt(globs, CHOOSE i \in DOMAIN globs :
                             globs[i] = p /\ \A j \in 1..(i - 1) : globs[j] # p)
    ELSE globs

\* addGlobServlet: a pattern that is there already goes to the end.
AddGlobServlet(p) == Edit /\ globs' = Append(Without(p), p) /\ UNCHANGED datas
DelGlobServlet(p) == Edit /\ p \in ToSet(globs) /\ globs' = Without(p) /\ UNCHANGED datas

\* What getMatchedServlet and getGlobServlet return; None is no servlet.
Matched(u) == IF u \in datas THEN Exact(u) ELSE Default

\* Mutant of Globbed: the search ends at the first pattern, matching or not.
GlobbedFirst(u) ==
    IF globs # <<>> /\ <<globs[1], u>> \in Matches THEN Glob(globs[1]) ELSE Default

Globbed(u) ==
    LET hit == {i \in DOMAIN globs : <<globs[i], u>> \in Matches}
    IN  IF hit = {} THEN Default
        ELSE Glob(globs[CHOOSE i \in hit : \A j \in hit : i <= j])

Registered == {Exact(u) : u \in datas} \cup {Glob(p) : p \in ToSet(globs)}

EditTables ==
    \/ \E u \in Uris : AddServlet(u) \/ DelMatchedServlet(u)
    \/ \E p \in Patterns : AddGlobServlet(p) \/ DelGlobServlet(p)
==============================================================================
