-------------------------- MODULE HttpServerProps --------------------------
(* What the HTTP server promises, in module HttpServer. *)
EXTENDS HttpServer, HttpMessage

\* The instance TLC checks: a short header, one with a body, one that does not
\* fit the buffer, one that asks for a close.
SomeRequests ==
    {[head |-> 2, len |-> 2, close |-> FALSE, uri |-> "a"],
     [head |-> 1, len |-> 0, close |-> FALSE, uri |-> "b"],
     [head |-> 4, len |-> 0, close |-> TRUE, uri |-> "a"]}
SomeMatches == {<<"*", "a">>, <<"*", "b">>, <<"a*", "a">>}

\* Every variable has its type: the one type invariant of the module.
TypeOK ==
    /\ datas \subseteq Uris /\ globs \in Seq(Patterns)
    /\ session \in [Clients -> {"none", "recv", "body", "match", "glob", "closed"}]
    /\ \A c \in Clients :
        Len(buffer[c]) <= IF req[c] = None THEN BufLen - 1 ELSE req[c].kind.len

\* A servlet sees the whole body of its request and nothing else, wherever the
\* stream was cut and whatever followed the request (HttpSession.cc:75-99).
BodyExact ==
    \A c \in Clients :
        session[c] \in {"match", "glob"} =>
            LET r == req[c].kind
            IN  buffer[c] = SubSeq(Pieces(req[c].k, r), r.head + 1, r.head + r.len)

\* What a session has read is exactly its request, and fits (HttpSession.cc:44-99).
SessionsExact == TypeOK /\ BodyExact

\* Requests are answered in their order and at most once; a client that waits
\* for each response gets one for each request it sent (HttpServer.cc:25-39).
\* One that does not may lose those that were read together with another.
AnsweredInOrder ==
    \A c \in Clients :
        /\ \A i, j \in DOMAIN answers[c] : i < j => answers[c][i].k < answers[c][j].k
        /\ c \notin piped => \A i \in DOMAIN answers[c] : answers[c][i].k = i

FoundIn(c) ==
    LET uri == req[c].kind.uri
        fit == {s \in stable[c] : s[1] = "glob" /\ <<s[2], uri>> \in Matches}
    IN  /\ Exact(uri) \notin stable[c]
        /\ fit # {} => Last(answers'[c]).by # Default

\* A request whose servlet is registered all the time while getServlet looks for
\* it is not answered by the default one, and one with a servlet of its own not
\* by a pattern's, although the two tables are searched one after the other and
\* edited in between (HttpServlet.cc:40-60).
Found ==
    [][\A c \in Clients :
           session[c] = "glob" /\ answers'[c] # answers[c] => FoundIn(c)]_vars

\* A session that its client has left is closed in the end, wherever the client
\* stopped; and so is one whose client says nothing any more, if receive timeouts
\* are honoured (HttpServer.cc:25-40).  That they are is not promised: the timer
\* fires in the company of a later one (LaterTimerHelps of TimerProps), and a
\* retry may lose it (TimeoutHonoured of HookProps).
LeftSessionEnds ==
    \A c \in Clients : session[c] = "recv" /\ c \in gone ~> session[c] = "closed"
SilentSessionEnds ==
    (\A c \in Clients : WF_vars(RecvTimesOut(c)))
        => \A c \in Clients : session[c] = "recv" ~> session[c] = "closed"
SessionEnds == LeftSessionEnds /\ SilentSessionEnds

-----------------------------------------------------------------------------
\* What module HttpMessage lets a servlet read.  Init only says where TLC
\* evaluates it: nothing here depends on the state.

\* The pieces of s between flags that are not empty, as <<first, last>>.
Parts(s, flag) ==
    {p \in (DOMAIN s) \X (DOMAIN s) :
        /\ p[1] <= p[2] /\ \A x \in p[1]..p[2] : s[x] # flag
        /\ p[1] = 1 \/ s[p[1] - 1] = flag
        /\ p[2] = Len(s) \/ s[p[2] + 1] = flag}
Signs(s, p) == {i \in p[1]..p[2] : s[i] = "="}

\* The name is what is in front of the sign, in small letters and without the tabs
\* and ends of lines around it.
NameOf(s, p) ==
    LET end == IF Signs(s, p) = {} THEN p[2] ELSE Min(Signs(s, p)) - 1
        ink == {i \in p[1]..end : s[i] \notin {"\t", "\r", "\n"}}
    IN  IF ink = {} THEN <<>>
        ELSE [i \in 1..(Max(ink) - Min(ink) + 1) |-> Fold(s[Min(ink) + i - 1])]

\* The value is what is behind it, with spaces for the signs that stand for them.
\* "%41" stays "%41": the comments at Util.cc:217 and 221 say that it is decoded,
\* but the condition before them is never true (Util.cc:215).
ValueOf(s, p) ==
    IF Signs(s, p) = {} THEN <<>>
    ELSE LET sign == Min(Signs(s, p))
         IN  [i \in 1..(p[2] - sign) |->
                 IF s[sign + i] = "+" THEN " " ELSE s[sign + i]]

Texts == BoundedSeq({"k", "K", "=", "&", ";", "+", "\t", " "}, 4)
         \cup {<<"k", "=">> \o t : t \in BoundedSeq({"%", "4", "A", "+"}, 4)}

ReadsAs(map, s, flag) ==
    LET all == Parts(s, flag)
    IN  /\ DOMAIN map = {NameOf(s, p) : p \in all}
        /\ \A p \in all :
               (\A q \in all : NameOf(s, q) = NameOf(s, p) => p[1] <= q[1])
                   => map[NameOf(s, p)] = ValueOf(s, p)

\* Every query and every cookie header is cut into its parameters, whatever flags
\* and equal signs it has and wherever they are; of two with the same name, in
\* capital letters or not, the first counts (Http.cc:73-110, 114-138).  Escapes
\* arrive as they were sent.
ParamsRead ==
    Init =>
        \A s \in Texts :
            /\ ReadsAs(InitQueryParam([NewRequest EXCEPT !.query = s]).params, s, "&")
            /\ ReadsAs(InitCookies([NewRequest EXCEPT !.cookie = s]).cookies, s, ";")

K == <<"k">>
Calls ==
    {[op |-> "getParam"], [op |-> "setParam", k |-> K, v |-> <<"s">>],
     [op |-> "setParam", k |-> <<"K">>, v |-> <<"t">>], [op |-> "delParam", k |-> K],
     [op |-> "setQuery", v |-> <<"k", "=", "q">>], [op |-> "setForm", v |-> <<"k", "=", "f">>]}

\* The request after the first i calls.
Called(calls) ==
    LET f[i \in 0..Len(calls)] ==
            IF i = 0 THEN NewRequest ELSE Call(f[i - 1], calls[i])
    IN  f

\* A parameter a servlet has set is the one it gets, however often the query and
\* the form it was sent with are parsed before or after, and one it has read and
\* deleted does not come back (Http.cc:114-158, 174-180).
ParamsStay ==
    Init =>
        \A calls \in BoundedSeq(Calls, 5) :
            LET writes == {i \in DOMAIN calls : calls[i].op \in {"setParam", "delParam"}}
                last   == calls[Max(writes)]
                asked  == \E i \in 1..(Max(writes) - 1) : calls[i].op = "getParam"
                got    == GetParam(Called(calls)[Len(calls)], K, "default")
            IN  writes # {} =>
                    /\ last.op = "setParam" => got = last.v
                    /\ last.op = "delParam" /\ asked => got = "default"

\* A servlet reads the parameters that were sent or set (Http.cc:73-180).
ParamsExact == ParamsRead /\ ParamsStay
==============================================================================
