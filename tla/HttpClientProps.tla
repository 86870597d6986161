-------------------------- MODULE HttpClientProps --------------------------
(* What the HTTP client promises, in module HttpClient. *)
EXTENDS HttpClient

\* Users are alike, and so are connections (safety only).
Symmetry == Permutations(Users) \cup Permutations(Conns)

Framings == {"length", "chunked", "none"}
Requests == Users \X (0..MaxCalls)
Pieces == [req : Requests, part : Nat, framing : Framings, head : HeadLens, len : BodyLens]

\* Every variable has its type: the one type invariant of the module.
TypeOK ==
    /\ conns \in Seq(Conns) /\ total \in Nat
    /\ exists \subseteq Conns /\ connected \subseteq Conns
    /\ hungUp \subseteq Conns /\ expired \subseteq Conns /\ spoiled \subseteq Conns
    /\ served \in [Conns -> 0..MaxRequest]
    /\ pc \in [Actors -> {"idle", "purge", "connect", "send", "head", "body", "release"}]
    /\ conn \in [Users -> Conns \cup {None}]
    /\ doomed \in [Actors -> SUBSET Conns]
    /\ calls \in [Users -> 0..MaxCalls]
    /\ owed \in [Conns -> Seq(Requests)] /\ stream \in [Conns -> Seq(Pieces)]
    /\ torn \in [Users -> Nat] /\ got \in [Users -> Pieces \cup {None}]
    /\ body \in [Users -> Seq(Pieces)] /\ early \in [Users -> Nat]
    /\ need \in [Users -> Nat] /\ owner \in BOOLEAN /\ wild \in BOOLEAN

Places(c) ==
    Cardinality({i \in DOMAIN conns : conns[i] = c}) + Cardinality(Holders(c))
        + Cardinality({a \in Actors : c \in doomed[a]})

\* A connection that exists is in exactly one place, and a deleted one in none:
\* in the list, with one user, or among those somebody is about to delete.  So
\* two users never share one, none is deleted twice or under its user, and none
\* leaks, although getConnection, ReleasePtr and the timer delete outside of the
\* lock (HttpConnection.cc:271-345).
OneOwner == \A c \in Conns : Places(c) = IF c \in exists THEN 1 ELSE 0

\* m_total counts the connections that exist, as long as the pool does.
TotalExact == Alive \/ conns # <<>> => total = Cardinality(exists)

\* An idle connection is open and has requests left (HttpConnection.cc:317).
IdleUsable == \A c \in ToSet(conns) : c \in connected /\ served[c] < MaxRequest

\* The pool's accounts are right whoever takes, deletes and gives back connections
\* at the same time (HttpConnection.cc:230-350).
PoolExact == TypeOK /\ OneOwner /\ TotalExact /\ IdleUsable

\* When the last reference to the pool is gone all connections are, also those
\* that users gave back after the owner had dropped it (HttpConnection.cc:235-244,
\* 309-312).
NothingOutlivesPool == ~Alive /\ conns = <<>> => exists = {} /\ connected = {}

\* A user who gets a response gets the one to its own request, although others
\* have used the connection before and given up on it at any point; unless the
\* server sent a body without a length (spoiled).
ResponseIsMine ==
    \A u \in Users :
        pc[u] = "release" /\ got[u] # None =>
            got[u].req = Request(u) \/ conn[u] \in spoiled

\* A response with a Content-Length that has been received is consumed to its
\* last byte, wherever the stream was cut: the next response starts the stream
\* (HttpConnection.cc:92, 127-144).
ConsumedExactly ==
    \A u \in Users :
        pc[u] = "release" /\ got[u] # None /\ conn[u] \in connected \ spoiled
            => stream[conn[u]] = <<>>

\* What recvResponse makes of the response whose header begins with h: a body with
\* a length, of which the k pieces that came with the header are replaced by the
\* first k pieces of the header.
BodyMade(h, k) ==
    LET r == Response(h.req, h.framing, h.head, h.len) IN
    IF h.framing = "length"
    THEN SubSeq(r, 1, k) \o SubSeq(r, h.head + k + 1, Len(r))
    ELSE <<>>

\* The body has the pieces of the response, in order and to the last, however the
\* stream was cut, but for those that came in the same read as the end of the
\* header: their places hold the beginning of the header (HttpConnection.cc:
\* 126-144).  It is the server's body when the header came alone.
BodyAsMade ==
    \A u \in Users :
        pc[u] = "release" /\ got[u] # None /\ conn[u] \notin spoiled
            => body[u] = BodyMade(got[u], early[u])

\* A response is its user's, consumed to its end, and its body is what recvResponse
\* makes of it (HttpConnection.cc:70-148, 309-345).
ResponsesExact == ResponseIsMine /\ ConsumedExactly /\ BodyAsMade

-----------------------------------------------------------------------------
(* The inductive invariant of HttpClientProof. *)

Listed == {conns[i] : i \in 1..Len(conns)}

\* The list, the users and those about to delete share no connection.
Apart ==
    /\ \A i, j \in 1..Len(conns) : conns[i] = conns[j] => i = j
    /\ \A u, v \in Users : conn[u] = conn[v] /\ conn[u] # None => u = v
    /\ \A a, b \in Actors : \A c \in doomed[a] \cap doomed[b] : a = b
    /\ \A u \in Users : conn[u] \notin Listed
    /\ \A a \in Actors : doomed[a] \cap Listed = {}
    /\ \A u \in Users, a \in Actors : conn[u] \notin doomed[a]

\* What exists is somewhere, what is somewhere exists.
Kept ==
    \A c \in Conns :
        c \in exists <=> \/ c \in Listed \/ \E u \in Users : conn[u] = c
                        \/ \E a \in Actors : c \in doomed[a]

\* What holds of an actor at each place of its code.
Stages ==
    /\ pc[Cleaner] \in {"idle", "purge"}
    /\ \A a \in Actors : doomed[a] # {} => pc[a] = "purge"
    /\ \A u \in Users :
        /\ pc[u] \in {"purge", "connect"} => owner
        /\ pc[u] \in {"idle", "connect"} => conn[u] = None
        /\ pc[u] \in {"send", "head", "body", "release"} => conn[u] # None
        /\ pc[u] \in {"purge", "send", "head", "body"} /\ conn[u] # None
               => conn[u] \in connected

Counted == IsFiniteSet(exists) /\ TotalExact

\* A connection that was deleted leaves nothing behind.
Quiet(c) == owed[c] = <<>> /\ stream[c] = <<>>
Fresh == \A c \in Conns \ exists :
             c \notin connected \cup hungUp \cup expired \cup spoiled /\ Quiet(c)

PoolInv == TypeOK /\ Apart /\ Kept /\ Stages /\ Counted /\ Fresh /\ IdleUsable

\* What a connection that is open and not spoiled may carry, as far as its user
\* has got: nothing, the request, or the response to that.
Answered(u, c) ==
    \E framing \in Framings, head \in HeadLens, len \in BodyLens :
        /\ stream[c] = Response(Request(u), framing, head, len)
        /\ framing = "none" => len = 0

InStep(u, c) ==
    /\ pc[u] \in {"purge", "send", "release"} => Quiet(c)
    /\ pc[u] = "head" /\ torn[u] = 0 =>
           \/ Quiet(c)
           \/ owed[c] = <<Request(u)>> /\ stream[c] = <<>>
           \/ owed[c] = <<>> /\ Answered(u, c)
    /\ pc[u] = "body" => /\ owed[c] = <<>> /\ Len(stream[c]) = need[u]
                         /\ body[u] \o stream[c] = BodyMade(got[u], early[u])

\* ... and the response it has got is that to its own request.
UserInStep(u) ==
    /\ \A c \in connected \ spoiled : conn[u] = c => InStep(u, c)
    /\ pc[u] \in {"idle", "purge", "connect", "send", "head"} =>
           got[u] = None /\ body[u] = <<>>
    /\ pc[u] \in {"body", "release"} /\ got[u] # None =>
           got[u].req = Request(u) \/ conn[u] \in spoiled
    /\ pc[u] = "release" /\ got[u] # None /\ conn[u] \notin spoiled =>
           body[u] = BodyMade(got[u], early[u])

StreamsInStep ==
    /\ \A c \in Listed : c \notin spoiled => Quiet(c)
    /\ \A u \in Users : UserInStep(u)

ClientInv == PoolInv /\ StreamsInStep
==============================================================================
