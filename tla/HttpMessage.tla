---------------------------- MODULE HttpMessage ----------------------------
(***************************************************************************)
(* What a servlet reads out of an HttpRequest (Http.cc): the parameters of  *)
(* the query and of a form, and the cookies, which are parsed when they are *)
(* first asked for, and the decoding they go through (Util.cc).  Text is a  *)
(* sequence of characters; Fold(c) is the small letter of c, by which the   *)
(* maps compare their keys.                                                 *)
(***************************************************************************)
EXTENDS Naturals, Sequences

Fold(c) == CASE c = "K" -> "k" [] c = "L" -> "l" [] OTHER -> c
Key(s)  == [i \in DOMAIN s |-> Fold(s[i])]

\* std::string::find from position `from` on: the first c, or one past the end.
FirstOf(s, c, from) ==
    LET at == {i \in from..Len(s) : s[i] = c}
    IN  IF at = {} THEN Len(s) + 1 ELSE CHOOSE i \in at : \A j \in at : i <= j

\* Trim(key, "\t\r\n"): spaces stay.
Trim(s) ==
    LET kept == {i \in DOMAIN s : s[i] \notin {"\t", "\r", "\n"}}
    IN  IF kept = {} THEN <<>>
        ELSE SubSeq(s, CHOOSE i \in kept : \A j \in kept : i <= j,
                       CHOOSE i \in kept : \A j \in kept : j <= i)

\* UrlDecode(s, true).  The digits of "%41" are never decoded: isxdigit is asked
\* about the truth value of "both are digits", and 0 and 1 are no digits.
UrlDecode(s) == [i \in DOMAIN s |-> IF s[i] = "+" THEN " " ELSE s[i]]

\* A map with one key, and std::map::insert of all that n has: m keeps what it
\* has.
Single(k, v) == [x \in {k} |-> v]
Insert(m, n) ==
    [k \in (DOMAIN m) \cup (DOMAIN n) |-> IF k \in DOMAIN m THEN m[k] ELSE n[k]]

\* One key with its value; a key without '=' has an empty one.
Pair(s, start, end) ==
    LET eq == FirstOf(s, "=", start)
    IN  IF eq < end
        THEN Single(Key(Trim(SubSeq(s, start, eq - 1))),
                    UrlDecode(SubSeq(s, eq + 1, end - 1)))
        ELSE Single(Key(Trim(SubSeq(s, start, end - 1))), <<>>)

\* Mutant of ParseParam: what is parsed replaces what is there.
ParseParamReplaces(s, m, flag) ==
    LET From[start \in 1..(Len(s) + 2)] ==
            IF start > Len(s) THEN <<>>
            ELSE LET end == FirstOf(s, flag, start)
                 IN  IF end = start THEN From[end + 1]
                     ELSE Insert(Pair(s, start, end), From[end + 1])
    IN  Insert(From[1], m)

\* ParseParam: the pairs between the flags go into the map, which keeps what it
\* has.
ParseParam(s, m, flag) ==
    LET From[start \in 1..(Len(s) + 2)] ==
            IF start > Len(s) THEN <<>>
            ELSE LET end == FirstOf(s, flag, start)
                 IN  IF end = start THEN From[end + 1]
                     ELSE Insert(Pair(s, start, end), From[end + 1])
    IN  Insert(m, From[1])

-----------------------------------------------------------------------------
\* An HttpRequest: its texts, what has been parsed of them (m_parserParamFlag),
\* and the maps.  form says that content-type is that of a form.
NewRequest ==
    [query |-> <<>>, body |-> <<>>, form |-> FALSE, cookie |-> <<>>,
     parsed |-> {}, params |-> <<>>, cookies |-> <<>>]

InitQueryParam(r) ==
    IF "query" \in r.parsed THEN r
    ELSE [r EXCEPT !.params = ParseParam(r.query, r.params, "&"),
                   !.parsed = @ \cup {"query"}]

InitBodyParam(r) ==
    IF "body" \in r.parsed THEN r
    ELSE [r EXCEPT !.params = IF r.form THEN ParseParam(r.body, r.params, "&") ELSE @,
                   !.parsed = @ \cup {"body"}]

InitCookies(r) ==
    IF "cookie" \in r.parsed THEN r
    ELSE [r EXCEPT !.cookies = ParseParam(r.cookie, r.cookies, ";"),
                   !.parsed = @ \cup {"cookie"}]

\* getParam gives a default for a parameter that is not there.
GetParam(r, k, def) ==
    LET params == InitBodyParam(InitQueryParam(r)).params
    IN  IF Key(k) \in DOMAIN params THEN params[Key(k)] ELSE def

Drop(map, k) == [x \in DOMAIN map \ {Key(k)} |-> map[x]]

\* The calls that change a request, getParam among them: it parses.
Call(r, c) ==
    CASE c.op = "getParam" -> InitBodyParam(InitQueryParam(r))
      [] c.op = "setParam" -> [r EXCEPT !.params = Insert(Single(Key(c.k), c.v), r.params)]
      [] c.op = "delParam" -> [r EXCEPT !.params = Drop(r.params, c.k)]
      [] c.op = "setQuery" -> [r EXCEPT !.query = c.v]
      [] c.op = "setForm"  -> [r EXCEPT !.body = c.v, !.form = TRUE]
==============================================================================
