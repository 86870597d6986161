----------------------------- MODULE HttpClient -----------------------------
(***************************************************************************)
(* HttpConnectionPool and HttpConnection (HttpConnection.cc): users take a *)
(* connection from the pool (or make one of their own), send a request,    *)
(* receive a response from a stream that may be cut anywhere, and give the *)
(* connection back; a timer cleans the pool.                               *)
(*                                                                         *)
(* A response is the pieces of its header followed by those of its body; a *)
(* piece says which request it answers.  The server answers in order and   *)
(* frames a body by Content-Length, by chunks or not at all.               *)
(***************************************************************************)
EXTENDS Integers, Sequences, SequencesExt, FiniteSetsExt, Lists

CONSTANTS
    Users,       \* fibers that make requests
    Cleaner,     \* the timer of the pool
    Conns,       \* connections that can be made (bounds their number)
    MaxRequest,  \* m_maxRequest
    MaxCalls,    \* bound: requests of a user
    HeadLens,    \* lengths of headers
    BufLen,      \* pieces the buffer of recvResponse holds
    BodyLens,    \* lengths of bodies
    None         \* no connection, no response

ASSUME ClientAssumption ==
    /\ Cleaner \notin Users /\ None \notin Conns
    /\ MaxRequest \in Nat \ {0} /\ MaxCalls \in Nat
    /\ BufLen \in Nat /\ HeadLens \subseteq Nat \ {0} /\ BodyLens \subseteq Nat

Actors == Users \cup {Cleaner}

VARIABLES
    conns,     \* m_conns: the idle connections
    total,     \* m_total
    exists,    \* connections that have been made and not deleted
    connected, \* those whose Socket is m_isConnected
    hungUp,    \* those whose peer has closed (the Socket does not know)
    expired,   \* those older than m_maxAliveTime
    served,    \* m_request of each
    owed,      \* per connection: requests the server has to answer
    stream,    \* per connection: pieces on their way to the client
    spoiled,   \* connections that carried a body without a length (history)
    pc, conn,  \* where a user is, the connection it holds
    doomed,    \* invalid_conns of getConnection and of the cleaner
    calls,     \* per user: requests made (names the current one)
    torn,      \* per user: pieces of an incomplete header in its buffer
    need,      \* per user: pieces of the body still to be read
    got,       \* per user: the first piece of the response's header
    body,      \* per user: the body it has so far
    early,     \* per user: pieces that came together with the header (history)
    owner,     \* somebody holds the pool itself
    wild       \* a read has written past the buffer: all is undefined

poolVars == <<conns, total, exists, doomed, owner>>
connVars == <<connected, hungUp, expired, served>>
netVars  == <<owed, stream, spoiled>>
bufVars  == <<torn, need, got, body, early>>
userVars == <<pc, conn, calls, bufVars, wild>>
vars == <<poolVars, connVars, netVars, userVars>>

Init ==
    /\ conns = <<>> /\ total = 0 /\ exists = {} /\ owner = TRUE
    /\ doomed = [a \in Actors |-> {}]
    /\ connected = {} /\ hungUp = {} /\ expired = {}
    /\ served = [c \in Conns |-> 0]
    /\ owed = [c \in Conns |-> <<>>] /\ stream = [c \in Conns |-> <<>>]
    /\ spoiled = {}
    /\ pc = [a \in Actors |-> "idle"] /\ conn = [u \in Users |-> None]
    /\ calls = [u \in Users |-> 0] /\ torn = [u \in Users |-> 0]
    /\ need = [u \in Users |-> 0] /\ got = [u \in Users |-> None]
    /\ body = [u \in Users |-> <<>>] /\ early = [u \in Users |-> 0]
    /\ wild = FALSE

Goto(a, label) == pc' = [pc EXCEPT ![a] = label]
Holders(c) == {u \in Users : conn[u] = c}

\* The pool lives while its owner, a lent connection (its deleter) or the
\* callback of the timer has a reference.
Alive == owner \/ (\E u \in Users : conn[u] # None) \/ pc[Cleaner] # "idle"

\* Connections are deleted: the sockets are closed, and what was on its way to
\* them is lost.  (A new connection may reuse the name.)
Delete(cs) ==
    /\ exists' = exists \ cs /\ connected' = connected \ cs
    /\ hungUp' = hungUp \ cs /\ expired' = expired \ cs
    /\ spoiled' = spoiled \ cs
    /\ served' = [c \in Conns |-> IF c \in cs THEN 0 ELSE served[c]]
    /\ owed' = [c \in Conns |-> IF c \in cs THEN <<>> ELSE owed[c]]
    /\ stream' = [c \in Conns |-> IF c \in cs THEN <<>> ELSE stream[c]]

-----------------------------------------------------------------------------
Usable(c) == c \in connected /\ c \notin expired

\* getConnection: under the lock connections are taken from the front until one
\* is usable; the others are kept aside.
GetConnection(u) ==
    LET good == {i \in DOMAIN conns : Usable(conns[i])}
        n == IF good = {} THEN Len(conns) + 1 ELSE Min(good)
    IN  /\ pc[u] = "idle" /\ owner /\ calls[u] < MaxCalls
        /\ calls' = [calls EXCEPT ![u] = @ + 1]
        /\ conns' = SubSeq(conns, n + 1, Len(conns))
        /\ doomed' = [doomed EXCEPT ![u] = {conns[i] : i \in 1..(n - 1)}]
        /\ conn' = [conn EXCEPT ![u] = IF good = {} THEN None ELSE conns[n]]
        /\ Goto(u, "purge")
        /\ UNCHANGED <<total, exists, owner, connVars, netVars, bufVars, wild>>

\* cleanExpiredConnections, every 30 s as long as the pool is there.
CleanExpired ==
    LET bad == {c \in ToSet(conns) : ~Usable(c)} IN
    /\ pc[Cleaner] = "idle" /\ Alive /\ bad # {}
    /\ conns' = Keep(conns, {c \in Conns : Usable(c)})
    /\ doomed' = [doomed EXCEPT ![Cleaner] = bad]
    /\ Goto(Cleaner, "purge")
    /\ UNCHANGED <<total, exists, owner, connVars, netVars, conn, calls, bufVars,
                   wild>>

\* Mutant of Purge: one connection is counted, however many are deleted.
PurgeCountsOne(a) ==
    /\ pc[a] = "purge"
    /\ Delete(doomed[a])
    /\ total' = IF doomed[a] = {} THEN total ELSE total - 1
    /\ doomed' = [doomed EXCEPT ![a] = {}]
    /\ Goto(a, IF a = Cleaner THEN "idle"
               ELSE IF conn[a] = None THEN "connect" ELSE "send")
    /\ UNCHANGED <<conns, owner, conn, calls, bufVars, wild>>

\* What was set aside is deleted, after the lock has been released.
Purge(a) ==
    /\ pc[a] = "purge"
    /\ Delete(doomed[a])
    /\ total' = total - Cardinality(doomed[a])
    /\ doomed' = [doomed EXCEPT ![a] = {}]
    /\ Goto(a, IF a = Cleaner THEN "idle"
               ELSE IF conn[a] = None THEN "connect" ELSE "send")
    /\ UNCHANGED <<conns, owner, conn, calls, bufVars, wild>>

\* No idle connection is usable: a new one is made, in the pool's name ...
Connect(u, c) ==
    /\ pc[u] = "connect" /\ c \notin exists
    /\ exists' = exists \cup {c} /\ connected' = connected \cup {c}
    /\ total' = total + 1
    /\ conn' = [conn EXCEPT ![u] = c]
    /\ Goto(u, "send")
    /\ UNCHANGED <<conns, doomed, owner, hungUp, expired, served, netVars, calls,
                   bufVars, wild>>

\* ... or the address is not found, or connect fails.
ConnectFails(u) ==
    /\ pc[u] = "connect"
    /\ Goto(u, "idle")
    /\ UNCHANGED <<poolVars, connVars, netVars, conn, calls, bufVars, wild>>

-----------------------------------------------------------------------------
Request(u) == <<u, calls[u]>>

\* sendRequest: writefixsize has sent all of it.
SendRequest(u) ==
    LET c == conn[u] IN
    /\ pc[u] = "send"
    /\ owed' = [owed EXCEPT ![c] = IF c \in hungUp THEN @ ELSE Append(@, Request(u))]
    /\ Goto(u, "head")
    /\ UNCHANGED <<poolVars, connVars, stream, spoiled, conn, calls, bufVars, wild>>

\* The peer is gone: doRequest returns, and the connection is still open as far
\* as the pool can see.
SendFails(u) ==
    /\ pc[u] = "send" /\ conn[u] \in hungUp
    /\ Goto(u, "release")
    /\ UNCHANGED <<poolVars, connVars, netVars, conn, calls, bufVars, wild>>

\* Mutant of Fail: the connection stays open.
FailKeepsOpen(u) == UNCHANGED connected /\ Goto(u, "release")

\* recvResponse gives up: it closes the connection.
Fail(u) == connected' = connected \ {conn[u]} /\ Goto(u, "release")

\* read() returns 0 or -1: the peer has closed, or the receive timeout expired,
\* whatever is on its way.  No response is returned.
ReadFails(u) ==
    /\ pc[u] \in {"head", "body"}
    /\ Fail(u)
    /\ got' = [got EXCEPT ![u] = None]
    /\ UNCHANGED <<poolVars, hungUp, expired, served, netVars, conn, calls, torn,
                   need, body, early, wild>>

\* The first read, of n pieces into the buffer, and the parser's verdict.  Pieces
\* that are no header close the connection.  A header that is not complete gives
\* -2, and the unsigned difference puts the offset two places past the data; if
\* that is exactly the end of the buffer the connection is closed.  When the header
\* is complete, a chunked response closes the connection; of a body with a length,
\* as many pieces as came behind the header are copied, from the front of the
\* buffer, where the header is, and the rest is read.
ReadHead(u, n) ==
    LET c == conn[u]
        in == SubSeq(stream[c], 1, n)
        wrong == \E i \in 1..Min({n, in[1].head}) : in[i].part # i
        beyond == n - in[1].head
    IN  /\ pc[u] = "head" /\ torn[u] = 0
        /\ n \in 1..Min({BufLen, Len(stream[c])})
        /\ stream' = [stream EXCEPT ![c] = SubSeq(@, n + 1, Len(@))]
        /\ \/ /\ wrong \/ (beyond < 0 /\ n + 2 = BufLen)
              /\ Fail(u)
              /\ UNCHANGED bufVars
           \/ /\ ~wrong /\ beyond < 0 /\ n + 2 # BufLen
              /\ torn' = [torn EXCEPT ![u] = n]
              /\ UNCHANGED <<connected, need, got, body, early, pc>>
           \/ /\ ~wrong /\ beyond >= 0
              /\ got' = [got EXCEPT ![u] = in[1]]
              /\ early' = [early EXCEPT ![u] = beyond]
              /\ UNCHANGED torn
              /\ connected' = IF in[1].framing = "chunked"
                              THEN connected \ {c} ELSE connected
              /\ body' = IF in[1].framing = "length"
                         THEN [body EXCEPT ![u] = SubSeq(in, 1, Min({in[1].len, beyond}))]
                         ELSE body
              /\ IF in[1].framing = "length" /\ in[1].len > beyond
                 THEN need' = [need EXCEPT ![u] = in[1].len - beyond] /\ Goto(u, "body")
                 ELSE need' = [need EXCEPT ![u] = 0] /\ Goto(u, "release")
        /\ UNCHANGED <<poolVars, hungUp, expired, served, owed, spoiled, conn, calls,
                       wild>>

\* The read after an incomplete header.  The gap of two makes the parse fail ...
ReadTorn(u, n) ==
    LET c == conn[u] IN
    /\ pc[u] = "head" /\ torn[u] # 0
    /\ n \in 1..Min({BufLen - torn[u] - 2, Len(stream[c])})
    /\ stream' = [stream EXCEPT ![c] = SubSeq(@, n + 1, Len(@))]
    /\ Fail(u)
    /\ UNCHANGED <<poolVars, hungUp, expired, served, owed, spoiled, conn, calls,
                   bufVars, wild>>

\* ... and when it begins past the end of the buffer, the size of the read wraps
\* around, and what comes is written behind the buffer.
Overrun(u) ==
    /\ pc[u] = "head" /\ torn[u] # 0 /\ torn[u] + 2 > BufLen
    /\ stream[conn[u]] # <<>>
    /\ wild' = TRUE
    /\ UNCHANGED <<poolVars, connVars, netVars, pc, conn, calls, bufVars>>

\* readfixsize for the rest of the body.
ReadBody(u, n) ==
    LET c == conn[u] IN
    /\ pc[u] = "body" /\ n \in 1..Min({need[u], Len(stream[c])})
    /\ stream' = [stream EXCEPT ![c] = SubSeq(@, n + 1, Len(@))]
    /\ need' = [need EXCEPT ![u] = @ - n]
    /\ body' = [body EXCEPT ![u] = @ \o SubSeq(stream[c], 1, n)]
    /\ Goto(u, IF n = need[u] THEN "release" ELSE "body")
    /\ UNCHANGED <<poolVars, connVars, owed, spoiled, conn, calls, torn, got, early,
                   wild>>

-----------------------------------------------------------------------------
Over(c) == c \notin connected \/ c \in expired \/ served[c] + 1 >= MaxRequest

\* The connection is put back.
PutBack(c) ==
    /\ conns' = Append(conns, c)
    /\ served' = [served EXCEPT ![c] = @ + 1]
    /\ UNCHANGED <<total, exists, connected, hungUp, expired, netVars>>

\* The buffer was recvResponse's own, and the response is the caller's.
Released(u) ==
    /\ pc[u] = "release"
    /\ conn' = [conn EXCEPT ![u] = None]
    /\ torn' = [torn EXCEPT ![u] = 0] /\ need' = [need EXCEPT ![u] = 0]
    /\ got' = [got EXCEPT ![u] = None] /\ body' = [body EXCEPT ![u] = <<>>]
    /\ early' = [early EXCEPT ![u] = 0]
    /\ Goto(u, "idle")
    /\ UNCHANGED <<doomed, owner, calls, wild>>

\* Mutant of ReleasePtr: a connection that is used up is deleted and put back.
ReleaseFallsThrough(u) ==
    /\ Released(u)
    /\ IF Over(conn[u])
       THEN Delete({conn[u]}) /\ total' = total - 1 /\ conns' = Append(conns, conn[u])
       ELSE PutBack(conn[u])

\* ReleasePtr: the deleter of the pointer the user had.
ReleasePtr(u) ==
    /\ Released(u)
    /\ IF Over(conn[u])
       THEN Delete({conn[u]}) /\ total' = total - 1 /\ UNCHANGED conns
       ELSE PutBack(conn[u])

\* The owner lets go of the pool, outside of its calls.
DropPool ==
    /\ owner /\ \A u \in Users : pc[u] \notin {"purge", "connect"}
    /\ owner' = FALSE
    /\ UNCHANGED <<conns, total, exists, doomed, connVars, netVars, userVars>>

\* Mutant of DestroyPool: the connections are forgotten, not deleted.
DestroyPoolLeaks ==
    /\ ~Alive /\ conns # <<>>
    /\ conns' = <<>>
    /\ UNCHANGED <<total, exists, doomed, owner, connVars, netVars, userVars>>

\* ~HttpConnectionPool: idle connections are deleted (m_total is not changed).
DestroyPool ==
    /\ ~Alive /\ conns # <<>>
    /\ Delete(ToSet(conns)) /\ conns' = <<>>
    /\ UNCHANGED <<total, doomed, owner, userVars>>

-----------------------------------------------------------------------------
Piece(req, part, framing, head, len) ==
    [req |-> req, part |-> part, framing |-> framing, head |-> head, len |-> len]
Response(req, framing, head, len) ==
    [i \in 1..head |-> Piece(req, i, framing, head, len)]
        \o [i \in 1..len |-> Piece(req, head + i, framing, head, len)]

\* The server answers the oldest request.  After a body without a length the
\* client cannot tell where the next response begins.
Answer(c, framing, head, len) ==
    /\ c \in exists /\ owed[c] # <<>> /\ c \notin hungUp
    /\ stream' = [stream EXCEPT ![c] = @ \o Response(Head(owed[c]), framing, head, len)]
    /\ owed' = [owed EXCEPT ![c] = Tail(@)]
    /\ spoiled' = IF framing = "none" /\ len > 0 THEN spoiled \cup {c} ELSE spoiled
    /\ UNCHANGED <<poolVars, connVars, userVars>>

PeerCloses(c) ==
    /\ c \in exists /\ c \notin hungUp
    /\ hungUp' = hungUp \cup {c}
    /\ owed' = [owed EXCEPT ![c] = <<>>]
    /\ UNCHANGED <<poolVars, connected, expired, served, stream, spoiled, userVars>>

Expires(c) ==
    /\ c \in exists /\ c \notin expired
    /\ expired' = expired \cup {c}
    /\ UNCHANGED <<poolVars, connected, hungUp, served, netVars, userVars>>

Step(u) ==
    \/ GetConnection(u) \/ Purge(u) \/ ConnectFails(u)
    \/ \E c \in Conns : Connect(u, c)
    \/ SendRequest(u) \/ SendFails(u) \/ ReadFails(u)
    \/ \E n \in 1..BufLen : ReadHead(u, n) \/ ReadTorn(u, n) \/ ReadBody(u, n)
    \/ Overrun(u) \/ ReleasePtr(u)

Network(c) ==
    \/ \E framing \in {"length", "chunked", "none"}, head \in HeadLens, len \in BodyLens :
           Answer(c, framing, head, len)
    \/ PeerCloses(c) \/ Expires(c)

Next ==
    /\ ~wild
    /\ \/ \E u \in Users : Step(u)
       \/ CleanExpired \/ Purge(Cleaner) \/ DropPool \/ DestroyPool
       \/ \E c \in Conns : Network(c)

Spec == Init /\ [][Next]_vars
==============================================================================
