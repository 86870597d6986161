----------------------------- MODULE HttpServer -----------------------------
(***************************************************************************)
(* HttpServer::handleClient (HttpServer.cc) over HttpSession                *)
(* (HttpSession.cc), with the servlets of Servlets.  The clients are those  *)
(* TcpServer has accepted.                                                  *)
(* A request is head pieces of header and len pieces of body on a stream    *)
(* that recvRequest cuts where it likes; a client may send its next request *)
(* before it has the response.                                              *)
(***************************************************************************)
EXTENDS Servlets, FiniteSetsExt

CONSTANTS
    Clients,   \* connections clients make
    Requests,  \* kinds of requests: [head, len, close, uri]
    MaxSent,   \* bound: requests of a client
    BufLen,    \* pieces recvRequest's buffer holds
    KeepAlive, \* m_keep_alive
    None       \* no request

ASSUME SessionAssumption ==
    /\ \A r \in Requests : r.head \in Nat \ {0} /\ r.len \in Nat
                           /\ r.close \in BOOLEAN /\ r.uri \in Uris
    /\ BufLen \in Nat \ {0} /\ MaxSent \in Nat /\ KeepAlive \in BOOLEAN
    /\ None \notin [k : Nat, kind : Requests, part : Nat]

VARIABLES
    sent,     \* per client: requests it has sent
    stream,   \* per client: pieces on their way to the server
    gone,     \* clients that have closed their end
    session,  \* where handleClient is
    buffer,   \* the pieces recvRequest has read
    req,      \* the request it has parsed
    stable,   \* registered all the time since getServlet began (history)
    answers,  \* per client: requests answered, and by which servlet
    piped     \* clients that did not wait for a response (history)

httpVars == <<sent, stream, gone, session, buffer, req, stable, answers, piped>>
vars == <<tables, httpVars>>

Init ==
    /\ TablesInit
    /\ sent = [c \in Clients |-> 0] /\ stream = [c \in Clients |-> <<>>]
    /\ gone = {} /\ session = [c \in Clients |-> "none"]
    /\ buffer = [c \in Clients |-> <<>>] /\ req = [c \in Clients |-> None]
    /\ stable = [c \in Clients |-> {}] /\ answers = [c \in Clients |-> <<>>]
    /\ piped = {}

GotoS(c, label) == session' = [session EXCEPT ![c] = label]

\* A piece: which request of the client, its kind, and its place.
Pieces(k, r) == [i \in 1..(r.head + r.len) |-> [k |-> k, kind |-> r, part |-> i]]

-----------------------------------------------------------------------------
\* handleClient begins, on the I/O worker.
HandleClient(c) ==
    /\ session[c] = "none"
    /\ GotoS(c, "recv")
    /\ UNCHANGED <<tables, sent, stream, gone, buffer, req, stable, answers, piped>>

\* session->close(), on every way out of handleClient.
CloseSession(c) == GotoS(c, "closed") /\ UNCHANGED req

\* Mutant of RecvFails: handleClient tries again.
RecvFailsGoesOn(c) ==
    /\ c \in gone /\ session[c] \in {"recv", "body"}
    /\ GotoS(c, "recv") /\ UNCHANGED req
    /\ UNCHANGED <<tables, sent, stream, gone, buffer, stable, answers, piped>>

\* read fails, and recvRequest returns nothing.
RecvEnds(c) ==
    /\ session[c] \in {"recv", "body"}
    /\ CloseSession(c)
    /\ UNCHANGED <<tables, sent, stream, gone, buffer, stable, answers, piped>>

\* The client is gone; what it sent before may be lost with it.
RecvFails(c) == c \in gone /\ RecvEnds(c)

\* The receive timeout has expired.  It is a timer of the hooked recv, and that it
\* does expire when the client says nothing is not certain (see SessionEnds).
RecvTimesOut(c) == RecvEnds(c)

\* The parser's verdict on the buffer: pieces of a header in their order.
WellFormed(in) ==
    \A i \in 1..Min({Len(in), in[1].kind.head}) : in[i].k = in[1].k /\ in[i].part = i
HeaderIn(in) == Len(in) >= in[1].kind.head

\* Mutant of BodyIn: what was read with the header is not looked at.
BodyInNone(in) == <<>>

\* Of what was read with the header the body takes what it needs.
BodyIn(in) ==
    SubSeq(in, in[1].kind.head + 1, Min({Len(in), in[1].kind.head + in[1].kind.len}))

\* What was read is gone from the stream.
Consume(c, n) == stream' = [stream EXCEPT ![c] = SubSeq(@, n + 1, Len(@))]

\* A read of n pieces behind what the buffer holds, and a parse.  A header that
\* fills the buffer without an end is refused.  What follows the body in the buffer
\* is dropped.
Recv(c, n) ==
    LET in == buffer[c] \o SubSeq(stream[c], 1, n)
    IN  /\ session[c] = "recv" /\ n \in 1..Min({BufLen - Len(buffer[c]), Len(stream[c])})
        /\ Consume(c, n)
        /\ \/ /\ ~WellFormed(in) \/ (~HeaderIn(in) /\ Len(in) = BufLen)
              /\ CloseSession(c) /\ UNCHANGED buffer
           \/ /\ WellFormed(in) /\ ~HeaderIn(in) /\ Len(in) < BufLen
              /\ buffer' = [buffer EXCEPT ![c] = in]
              /\ UNCHANGED <<session, req>>
           \/ /\ WellFormed(in) /\ HeaderIn(in)
              /\ req' = [req EXCEPT ![c] = in[1]]
              /\ buffer' = [buffer EXCEPT ![c] = BodyIn(in)]
              /\ GotoS(c, IF Len(BodyIn(in)) < in[1].kind.len THEN "body" ELSE "match")
        /\ UNCHANGED <<tables, sent, gone, stable, answers, piped>>

\* readfixsize for the rest of the body.
RecvBody(c, n) ==
    LET left == req[c].kind.len - Len(buffer[c]) IN
    /\ session[c] = "body" /\ n \in 1..Min({left, Len(stream[c])})
    /\ buffer' = [buffer EXCEPT ![c] = @ \o SubSeq(stream[c], 1, n)]
    /\ Consume(c, n)
    /\ GotoS(c, IF n = left THEN "match" ELSE "body")
    /\ UNCHANGED <<tables, sent, gone, req, stable, answers, piped>>

\* Mutant of Answer: the loop goes on with the request it has.
AnswerAgain(c, servlet) ==
    /\ answers' = [answers EXCEPT ![c] = Append(@, [k |-> req[c].k, by |-> servlet])]
    /\ stable' = [stable EXCEPT ![c] = {}]
    /\ GotoS(c, IF req[c].kind.close \/ ~KeepAlive THEN "closed" ELSE "match")
    /\ UNCHANGED <<buffer, req>>

\* The response: the loop goes on unless the request or the server says close.
\* What sendResponse returns is not looked at.
Answer(c, servlet) ==
    /\ answers' = [answers EXCEPT ![c] = Append(@, [k |-> req[c].k, by |-> servlet])]
    /\ buffer' = [buffer EXCEPT ![c] = <<>>] /\ req' = [req EXCEPT ![c] = None]
    /\ stable' = [stable EXCEPT ![c] = {}]
    /\ GotoS(c, IF req[c].kind.close \/ ~KeepAlive THEN "closed" ELSE "recv")

\* getServlet: a servlet for exactly this path ...
Match(c) ==
    LET servlet == Matched(req[c].kind.uri) IN
    /\ session[c] = "match"
    /\ IF servlet # Default
       THEN Answer(c, servlet)
       ELSE /\ stable' = [stable EXCEPT ![c] = Registered]
            /\ GotoS(c, "glob") /\ UNCHANGED <<buffer, req, answers>>
    /\ UNCHANGED <<tables, sent, stream, gone, piped>>

\* ... or for a pattern it matches, or the default one.
MatchGlob(c) ==
    /\ session[c] = "glob"
    /\ Answer(c, Globbed(req[c].kind.uri))
    /\ UNCHANGED <<tables, sent, stream, gone, piped>>

-----------------------------------------------------------------------------
\* The owner of the server edits the tables at any time.
Reconfigure ==
    /\ EditTables
    /\ stable' = [c \in Clients |-> stable[c] \cap Registered']
    /\ UNCHANGED <<sent, stream, gone, session, buffer, req, answers, piped>>

\* Clients: they connect, send requests, and leave.
Send(c, r) ==
    /\ c \notin gone /\ sent[c] < MaxSent
    /\ sent' = [sent EXCEPT ![c] = @ + 1]
    /\ stream' = [stream EXCEPT ![c] = @ \o Pieces(sent'[c], r)]
    /\ piped' = IF Len(answers[c]) < sent[c] THEN piped \cup {c} ELSE piped
    /\ UNCHANGED <<tables, gone, session, buffer, req, stable, answers>>

Leave(c) ==
    /\ c \notin gone
    /\ gone' = gone \cup {c}
    /\ UNCHANGED <<tables, sent, stream, session, buffer, req, stable, answers, piped>>

SessionStep(c) ==
    \/ HandleClient(c) \/ RecvFails(c) \/ Match(c) \/ MatchGlob(c)
    \/ \E n \in 1..BufLen : Recv(c, n)
    \/ \E n \in 1..Max({r.len : r \in Requests} \cup {1}) : RecvBody(c, n)

Next ==
    \/ \E c \in Clients : \/ SessionStep(c) \/ RecvTimesOut(c) \/ Leave(c)
                          \/ \E r \in Requests : Send(c, r)
    \/ Reconfigure

Spec == Init /\ [][Next]_vars

\* The I/O worker runs its tasks.
FairSpec == Spec /\ \A c \in Clients : WF_vars(SessionStep(c))
==============================================================================
