---------------------------- MODULE ServersProof ----------------------------
(***************************************************************************)
(* Proofs about the two servers: HttpServer, whose clients TcpServer has   *)
(* accepted, and TcpServer.                                                *)
(*                                                                         *)
(* HttpServer: HttpInv says what the stream, the buffer and the answers of *)
(* one client have to do with each other.  A piece in the stream has the   *)
(* rest of its request behind it, and later requests behind that; what is  *)
(* in the buffer and what is left of the stream fit together; everything   *)
(* that was answered comes before everything that is left.                 *)
(*                                                                         *)
(* TcpServer: ServerInv follows each lambda of stop through m_socks: the   *)
(* sockets before its index are closed, by whomever.  With one thread in   *)
(* the accept worker it also says that the loops and lambdas that are in   *)
(* the middle of something are one at most.                                *)
(*                                                                         *)
(* HttpMessage and Addresses have no state: what their recursive functions *)
(* compute is proved by induction over a set of numbers (InductionOnSet),  *)
(* for texts, calls and addresses of any length.                           *)
(***************************************************************************)
EXTENDS HttpServerProps, TcpServerProps, SequenceTheorems,
        FiniteSetTheorems, WellFoundedInduction, TLAPS

-----------------------------------------------------------------------------
(* HttpServer *)

Labels  == {"none", "recv", "body", "match", "glob", "closed"}
Piece   == [k : Nat, kind : Requests, part : Nat]
Servlet == {Exact(u) : u \in Uris} \cup {Glob(p) : p \in Patterns} \cup {Default}
Size(r) == r.head + r.len
PieceOf(k, r, i) == [k |-> k, kind |-> r, part |-> i]

HttpType ==
    /\ datas \subseteq Uris /\ globs \in Seq(Patterns)
    /\ sent \in [Clients -> Nat] /\ stream \in [Clients -> Seq(Piece)]
    /\ session \in [Clients -> Labels] /\ buffer \in [Clients -> Seq(Piece)]
    /\ req \in [Clients -> Piece \cup {None}]
    /\ stable \in [Clients -> SUBSET Servlet]
    /\ answers \in [Clients -> Seq([k : Nat, by : Servlet])]

\* Every piece of s is one of the requests 1 to m and has the rest of its
\* request behind it, and then come later requests.
StreamOf(s, m) ==
    \A i \in 1..Len(s) :
        /\ s[i].k \in 1..m /\ s[i].part \in 1..Size(s[i].kind)
        /\ \A q \in s[i].part..Size(s[i].kind) :
               /\ i + q - s[i].part <= Len(s)
               /\ s[i + q - s[i].part] = PieceOf(s[i].k, s[i].kind, q)
        /\ \A j \in 1..Len(s) : i < j =>
               \/ s[i].k < s[j].k
               \/ /\ s[i].k = s[j].k /\ s[i].kind = s[j].kind
                  /\ s[j].part = s[i].part + (j - i)

\* s begins with what follows the first n pieces of request k.
RestOf(s, k, r, n) ==
    /\ n + Len(s) >= Size(r)
    /\ \A j \in 1..Len(s) : n + j <= Size(r) => s[j] = PieceOf(k, r, n + j)

\* s consists of pieces of request k, from the one after the n-th.
PartOf(s, k, r, n) == \A j \in 1..Len(s) : s[j] = PieceOf(k, r, n + j)

\* What recvRequest has read and what it will find agree.
RecvInv(c) ==
    session[c] = "recv" =>
        LET first == buffer[c][1] IN
        /\ req[c] = None /\ Len(buffer[c]) < BufLen
        /\ buffer[c] # <<>> =>
            /\ first.k \in 1..sent[c]
            /\ Len(buffer[c]) < first.kind.head
            /\ PartOf(buffer[c], first.k, first.kind, 0)
            /\ RestOf(stream[c], first.k, first.kind, Len(buffer[c]))
ReadInv(c) ==
    session[c] \in {"body", "match", "glob"} =>
        /\ req[c] \in Piece /\ req[c].k \in 1..sent[c]
        /\ PartOf(buffer[c], req[c].k, req[c].kind, req[c].kind.head)
BodyInv(c) ==
    session[c] = "body" =>
        /\ Len(buffer[c]) < req[c].kind.len
        /\ RestOf(stream[c], req[c].k, req[c].kind,
                  req[c].kind.head + Len(buffer[c]))
MatchInv(c) ==
    session[c] \in {"match", "glob"} =>
        /\ Len(buffer[c]) = req[c].kind.len
        /\ \A j \in 1..Len(stream[c]) : req[c].k < stream[c][j].k
QuietInv(c) ==
    /\ session[c] = "none" => req[c] = None /\ buffer[c] = <<>>
    /\ session[c] = "closed" =>
           Len(buffer[c]) <= IF req[c] = None THEN BufLen - 1
                             ELSE req[c].kind.len

\* The requests that were answered come before all that is left.
Answered(c) == {answers[c][i].k : i \in 1..Len(answers[c])}
OrderInv(c) ==
    /\ \A k \in Answered(c) :
        /\ k \in 1..sent[c]
        /\ \A j \in 1..Len(stream[c]) : k < stream[c][j].k
        /\ session[c] = "recv" /\ buffer[c] # <<>> => k < buffer[c][1].k
        /\ session[c] \in {"body", "match", "glob"} => k < req[c].k
    /\ \A i, j \in 1..Len(answers[c]) : i < j => answers[c][i].k < answers[c][j].k

\* A client that waits has one request under way at most.
PatientInv(c) ==
    c \notin piped =>
        /\ Len(answers[c]) <= sent[c] /\ sent[c] <= Len(answers[c]) + 1
        /\ \A i \in 1..Len(answers[c]) : answers[c][i].k = i

\* getServlet has not found a servlet for exactly the path.
GlobInv(c) ==
    session[c] = "glob" =>
        stable[c] \subseteq Registered /\ Exact(req[c].kind.uri) \notin stable[c]

SessionInv(c) ==
    /\ StreamOf(stream[c], sent[c])
    /\ RecvInv(c) /\ ReadInv(c) /\ BodyInv(c) /\ MatchInv(c) /\ QuietInv(c)
    /\ OrderInv(c) /\ PatientInv(c) /\ GlobInv(c)

HttpInv == HttpType /\ \A c \in Clients : SessionInv(c)

-----------------------------------------------------------------------------
\* Pieces, streams and what is left of them.
LEMMA RequestTypes ==
    ASSUME NEW r \in Requests
    PROVE  /\ r.head \in Nat \ {0} /\ r.len \in Nat /\ Size(r) \in Nat \ {0}
           /\ r.head <= Size(r) /\ r.uri \in Uris
BY SessionAssumption DEF Size

LEMMA PieceTypes ==
    ASSUME NEW p \in Piece
    PROVE  /\ p.k \in Nat /\ p.kind \in Requests /\ p.part \in Nat /\ p # None
           /\ PieceOf(p.k, p.kind, p.part) = p
BY SessionAssumption DEF Piece, PieceOf

LEMMA PieceOfFields ==
    \A k, r, i : PieceOf(k, r, i).k = k /\ PieceOf(k, r, i).kind = r
                 /\ PieceOf(k, r, i).part = i
BY DEF PieceOf

LEMMA LeastOfTwo ==
    ASSUME NEW a \in Int, NEW b \in Int
    PROVE  /\ Min({a, b}) = IF a <= b THEN a ELSE b
<1> DEFINE m == IF a <= b THEN a ELSE b
<1>1. m \in {a, b} /\ \A y \in {a, b} : m <= y
  OBVIOUS
<1>2. ASSUME NEW x \in {a, b}, \A y \in {a, b} : x <= y
      PROVE  x = m
  BY <1>2
<1> HIDE DEF m
<1> QED BY <1>1, <1>2 DEF Min

\* A step that answers nothing keeps the order if what is left, what is in the
\* buffer and the request under way come after all that is answered.
LEMMA OrderKept ==
    ASSUME NEW c, OrderInv(c), answers'[c] = answers[c], sent'[c] = sent[c],
           \A k \in Answered(c) :
               /\ \A j \in 1..Len(stream'[c]) : k < stream'[c][j].k
               /\ session'[c] = "recv" /\ buffer'[c] # <<>> =>
                      k < buffer'[c][1].k
               /\ session'[c] \in {"body", "match", "glob"} => k < req'[c].k
    PROVE  OrderInv(c)'
<1>1. Answered(c)' = Answered(c)
  BY DEF Answered
<1>2. \A k \in Answered(c) : k \in 1..sent'[c]
  BY DEF OrderInv
<1>3. \A i, j \in 1..Len(answers'[c]) :
          i < j => answers'[c][i].k < answers'[c][j].k
  BY DEF OrderInv
<1> QED BY <1>1, <1>2, <1>3 DEF OrderInv

LEMMA Consumed ==
    ASSUME NEW T, NEW s \in Seq(T), NEW n \in 0..Len(s)
    PROVE  LET t == SubSeq(s, n + 1, Len(s))
           IN  /\ t \in Seq(T) /\ Len(t) = Len(s) - n
               /\ \A j \in 1..Len(t) : t[j] = s[n + j]
OBVIOUS

LEMMA Cut ==
    ASSUME NEW T, NEW s \in Seq(T), NEW a \in Nat, NEW n \in Nat, a + n <= Len(s)
    PROVE  LET t == SubSeq(s, a + 1, a + n)
           IN  /\ t \in Seq(T) /\ Len(t) = n
               /\ \A j \in 1..n : t[j] = s[a + j]
OBVIOUS

LEMMA StreamConsumed ==
    ASSUME NEW s \in Seq(Piece), NEW m \in Nat, StreamOf(s, m),
           NEW n \in 0..Len(s)
    PROVE  StreamOf(SubSeq(s, n + 1, Len(s)), m)
<1> DEFINE t == SubSeq(s, n + 1, Len(s))
<1>1. /\ t \in Seq(Piece) /\ Len(t) = Len(s) - n
      /\ \A j \in 1..Len(t) : t[j] = s[n + j]
  BY Consumed
<1> HIDE DEF t
<1> SUFFICES ASSUME NEW i \in 1..Len(t)
             PROVE  /\ t[i].k \in 1..m /\ t[i].part \in 1..Size(t[i].kind)
                    /\ \A q \in t[i].part..Size(t[i].kind) :
                        /\ i + q - t[i].part <= Len(t)
                        /\ t[i + q - t[i].part] = PieceOf(t[i].k, t[i].kind, q)
                    /\ \A j \in 1..Len(t) : i < j =>
                        \/ t[i].k < t[j].k
                        \/ /\ t[i].k = t[j].k /\ t[i].kind = t[j].kind
                           /\ t[j].part = t[i].part + (j - i)
  BY DEF StreamOf, t
<1>2. n + i \in 1..Len(s) /\ t[i] = s[n + i] /\ s[n + i] \in Piece
  BY <1>1
<1>3. /\ s[n + i].kind \in Requests /\ s[n + i].part \in Nat
      /\ Size(s[n + i].kind) \in Nat
  BY <1>2, PieceTypes, RequestTypes
<1>4. /\ t[i].k \in 1..m /\ t[i].part \in 1..Size(t[i].kind)
  BY <1>2 DEF StreamOf
<1>5. ASSUME NEW q \in t[i].part..Size(t[i].kind)
      PROVE  /\ i + q - t[i].part <= Len(t)
             /\ t[i + q - t[i].part] = PieceOf(t[i].k, t[i].kind, q)
  <2>1. /\ n + i + q - t[i].part <= Len(s)
        /\ s[n + i + q - t[i].part] = PieceOf(t[i].k, t[i].kind, q)
    BY <1>2 DEF StreamOf
  <2>ints. q \in Int /\ t[i].part \in Int /\ q >= t[i].part
    BY <1>2, <1>3
  <2>2. i + q - t[i].part \in 1..Len(t)
    <3>1. /\ n \in Int /\ i \in Int /\ i >= 1 /\ Len(s) \in Int
          /\ Len(t) = Len(s) - n /\ n + i + q - t[i].part <= Len(s)
      BY <1>1, <2>1
    <3>2. PICK p \in Int : p = t[i].part
      BY <2>ints
    <3>3. PICK m1 \in Int : m1 = Len(s)
      BY <3>1
    <3>4. /\ n \in Int /\ i \in Int /\ i >= 1 /\ q \in Int /\ q >= p
          /\ n + i + q - p <= m1 /\ Len(t) = m1 - n
      BY <2>ints, <3>1, <3>2, <3>3
    <3>5. i + q - p \in 1..(m1 - n)
      BY <3>4
    <3> QED BY <3>2, <3>4, <3>5
  <2>3. n + (i + q - t[i].part) = n + i + q - t[i].part
    BY <2>ints
  <2>4. t[i + q - t[i].part] = s[n + (i + q - t[i].part)]
    BY <1>1, <2>2
  <2> QED BY <2>1, <2>2, <2>3, <2>4
<1>6. ASSUME NEW j \in 1..Len(t), i < j
      PROVE  \/ t[i].k < t[j].k
             \/ /\ t[i].k = t[j].k /\ t[i].kind = t[j].kind
                /\ t[j].part = t[i].part + (j - i)
  <2>1. n + j \in 1..Len(s) /\ t[j] = s[n + j] /\ n + i < n + j
    BY <1>1, <1>6
  <2>2. (n + j) - (n + i) = j - i
    OBVIOUS
  <2> QED BY <1>2, <2>1, <2>2 DEF StreamOf
<1> QED BY <1>4, <1>5, <1>6

LEMMA StreamSent ==
    ASSUME NEW s \in Seq(Piece), NEW m \in Nat, StreamOf(s, m),
           NEW r \in Requests
    PROVE  /\ Pieces(m + 1, r) \in Seq(Piece)
           /\ s \o Pieces(m + 1, r) \in Seq(Piece)
           /\ StreamOf(s \o Pieces(m + 1, r), m + 1)
           /\ \A j \in 1..Len(s \o Pieces(m + 1, r)) :
                  \/ j <= Len(s) /\ (s \o Pieces(m + 1, r))[j] = s[j]
                  \/ j > Len(s) /\ (s \o Pieces(m + 1, r))[j].k = m + 1
<1> DEFINE new == Pieces(m + 1, r)
           t == s \o new
<1>1. Size(r) \in Nat \ {0}
  BY RequestTypes
<1>2. /\ new \in Seq(Piece) /\ Len(new) = Size(r)
      /\ \A i \in 1..Size(r) : new[i] = PieceOf(m + 1, r, i)
  <2>1. new = [i \in 1..Size(r) |-> PieceOf(m + 1, r, i)]
    BY DEF Pieces, Size, PieceOf
  <2>2. \A i \in 1..Size(r) : PieceOf(m + 1, r, i) \in Piece
    BY DEF PieceOf, Piece
  <2> QED BY <1>1, <2>1, <2>2
<1> HIDE DEF new
<1>3. /\ t \in Seq(Piece) /\ Len(t) = Len(s) + Size(r)
      /\ \A j \in 1..Len(s) : t[j] = s[j]
      /\ \A j \in 1..Size(r) : t[Len(s) + j] = PieceOf(m + 1, r, j)
  BY <1>1, <1>2
<1> HIDE DEF t
<1>4. \A j \in 1..Len(t) : j > Len(s) =>
          /\ j - Len(s) \in 1..Size(r)
          /\ t[j] = PieceOf(m + 1, r, j - Len(s))
  BY <1>1, <1>3
<1>5. ASSUME NEW i \in 1..Len(s)
      PROVE  /\ t[i].k \in 1..(m + 1) /\ t[i].part \in 1..Size(t[i].kind)
             /\ \A q \in t[i].part..Size(t[i].kind) :
                    /\ i + q - t[i].part <= Len(t)
                    /\ t[i + q - t[i].part] = PieceOf(t[i].k, t[i].kind, q)
             /\ \A j \in 1..Len(t) : i < j =>
                    \/ t[i].k < t[j].k
                    \/ /\ t[i].k = t[j].k /\ t[i].kind = t[j].kind
                       /\ t[j].part = t[i].part + (j - i)
  <2>1. t[i] = s[i] /\ s[i] \in Piece /\ s[i].k \in 1..m
        /\ s[i].part \in 1..Size(s[i].kind) /\ Size(s[i].kind) \in Nat
    BY <1>3, <1>5, PieceTypes, RequestTypes DEF StreamOf
  <2>2. ASSUME NEW q \in t[i].part..Size(t[i].kind)
        PROVE  /\ i + q - t[i].part <= Len(t)
               /\ t[i + q - t[i].part] = PieceOf(t[i].k, t[i].kind, q)
    <3>1. /\ i + q - s[i].part <= Len(s)
          /\ s[i + q - s[i].part] = PieceOf(s[i].k, s[i].kind, q)
      BY <1>5, <2>1, <2>2 DEF StreamOf
    <3>2. i + q - s[i].part \in 1..Len(s)
      BY <2>1, <2>2, <3>1
    <3> QED BY <1>1, <1>3, <2>1, <3>1, <3>2
  <2>3. ASSUME NEW j \in 1..Len(t), i < j
        PROVE  \/ t[i].k < t[j].k
               \/ /\ t[i].k = t[j].k /\ t[i].kind = t[j].kind
                  /\ t[j].part = t[i].part + (j - i)
    <3>1. CASE j <= Len(s)
      <4>1. j \in 1..Len(s) /\ t[j] = s[j] /\ i < j
        BY <1>3, <2>3, <3>1
      <4> QED BY <1>5, <2>1, <4>1 DEF StreamOf
    <3>2. CASE j > Len(s)
      <4>1. t[j].k = m + 1
        BY <1>4, <3>2, PieceOfFields
      <4> QED BY <2>1, <4>1
    <3> QED BY <3>1, <3>2
  <2> QED BY <2>1, <2>2, <2>3
<1>6. ASSUME NEW i \in 1..Len(t), i > Len(s)
      PROVE  /\ t[i].k \in 1..(m + 1) /\ t[i].part \in 1..Size(t[i].kind)
             /\ \A q \in t[i].part..Size(t[i].kind) :
                    /\ i + q - t[i].part <= Len(t)
                    /\ t[i + q - t[i].part] = PieceOf(t[i].k, t[i].kind, q)
             /\ \A j \in 1..Len(t) : i < j =>
                    /\ t[i].k = t[j].k /\ t[i].kind = t[j].kind
                    /\ t[j].part = t[i].part + (j - i)
  <2>1. /\ t[i].k = m + 1 /\ t[i].kind = r /\ t[i].part = i - Len(s)
        /\ i - Len(s) \in 1..Size(r)
    BY <1>4, <1>6, PieceOfFields
  <2>2. ASSUME NEW q \in t[i].part..Size(t[i].kind)
        PROVE  /\ i + q - t[i].part <= Len(t)
               /\ t[i + q - t[i].part] = PieceOf(t[i].k, t[i].kind, q)
    <3>1. i + q - t[i].part = Len(s) + q /\ q \in 1..Size(r)
      BY <1>1, <2>1
    <3> QED BY <1>1, <1>3, <2>1, <3>1
  <2>3. ASSUME NEW j \in 1..Len(t), i < j
        PROVE  /\ t[i].k = t[j].k /\ t[i].kind = t[j].kind
               /\ t[j].part = t[i].part + (j - i)
    <3>1. t[j] = PieceOf(m + 1, r, j - Len(s))
      BY <1>4, <1>6, <2>3
    <3> QED BY <2>1, <3>1, PieceOfFields
  <2> QED BY <2>1, <2>2, <2>3
<1>7. StreamOf(t, m + 1)
  <2>1. \A i \in 1..Len(t) : i \in 1..Len(s) \/ i > Len(s)
    OBVIOUS
  <2> QED BY <1>5, <1>6, <2>1 DEF StreamOf
<1>8. \A j \in 1..Len(t) : \/ j <= Len(s) /\ t[j] = s[j]
                           \/ j > Len(s) /\ t[j].k = m + 1
  BY <1>3, <1>4, PieceOfFields
<1> QED BY <1>2, <1>3, <1>7, <1>8 DEF t, new

LEMMA RestSent ==
    ASSUME NEW s \in Seq(Piece), NEW t \in Seq(Piece), NEW k,
           NEW r \in Requests, NEW n \in Nat, RestOf(s, k, r, n)
    PROVE  RestOf(s \o t, k, r, n)
<1>1. Size(r) \in Nat
  BY RequestTypes
<1>2. /\ Len(s \o t) = Len(s) + Len(t)
      /\ \A j \in 1..Len(s) : (s \o t)[j] = s[j]
  OBVIOUS
<1>3. \A j \in 1..Len(s \o t) : n + j <= Size(r) => j \in 1..Len(s)
  BY <1>1, <1>2 DEF RestOf
<1> QED BY <1>1, <1>2, <1>3 DEF RestOf

LEMMA RestConsumed ==
    ASSUME NEW s \in Seq(Piece), NEW k, NEW r \in Requests, NEW n \in Nat,
           RestOf(s, k, r, n), NEW d \in 0..Len(s), n + d <= Size(r)
    PROVE  RestOf(SubSeq(s, d + 1, Len(s)), k, r, n + d)
<1> DEFINE t == SubSeq(s, d + 1, Len(s))
<1>1. Size(r) \in Nat
  BY RequestTypes
<1>2. /\ t \in Seq(Piece) /\ Len(t) = Len(s) - d
      /\ \A j \in 1..Len(t) : t[j] = s[d + j]
  BY Consumed
<1> HIDE DEF t
<1>3. n + d + Len(t) >= Size(r)
  BY <1>1, <1>2 DEF RestOf
<1>4. ASSUME NEW j \in 1..Len(t), n + d + j <= Size(r)
      PROVE  t[j] = PieceOf(k, r, n + d + j)
  <2>1. d + j \in 1..Len(s) /\ n + (d + j) = n + d + j
    BY <1>2
  <2> QED BY <1>2, <1>4, <2>1 DEF RestOf
<1> QED BY <1>3, <1>4 DEF RestOf, t

\* Behind the rest of a request there are later ones only.
LEMMA LaterRequests ==
    ASSUME NEW s \in Seq(Piece), NEW m \in Nat, StreamOf(s, m), NEW k \in Nat,
           NEW r \in Requests, NEW n \in Nat, n < Size(r),
           RestOf(s, k, r, n), NEW j \in 1..Len(s), n + j > Size(r)
    PROVE  k < s[j].k
<1>1. Size(r) \in Nat
  BY RequestTypes
<1>2. 1 \in 1..Len(s) /\ s[1] = PieceOf(k, r, n + 1) /\ 1 < j
  BY <1>1 DEF RestOf
<1>3. s[1].k = k /\ s[1].kind = r /\ s[1].part = n + 1
  BY <1>2, PieceOfFields
<1>4. s[j].part \in 1..Size(s[j].kind)
  BY DEF StreamOf
<1>5. \/ k < s[j].k
      \/ s[j].kind = r /\ s[j].part = n + 1 + (j - 1)
  BY <1>2, <1>3 DEF StreamOf
<1> QED BY <1>1, <1>4, <1>5

-----------------------------------------------------------------------------
LEMMA InitHttp == Init => HttpInv
<1> SUFFICES ASSUME Init PROVE HttpInv
  OBVIOUS
<1>1. HttpType
  BY DEF Init, TablesInit, HttpType, Labels
<1>2. ASSUME NEW c \in Clients PROVE SessionInv(c)
  BY SessionAssumption
  DEF Init, SessionInv, StreamOf, RecvInv, ReadInv, BodyInv, MatchInv,
      QuietInv, OrderInv, Answered, PatientInv, GlobInv
<1> QED BY <1>1, <1>2 DEF HttpInv

LEMMA ClientTypes ==
    ASSUME HttpType, NEW c \in Clients
    PROVE  /\ sent[c] \in Nat /\ stream[c] \in Seq(Piece)
           /\ session[c] \in Labels /\ buffer[c] \in Seq(Piece)
           /\ req[c] \in Piece \cup {None} /\ stable[c] \subseteq Servlet
           /\ answers[c] \in Seq([k : Nat, by : Servlet])
           /\ Len(stream[c]) \in Nat /\ Len(buffer[c]) \in Nat
           /\ Len(answers[c]) \in Nat
<1>1. /\ sent[c] \in Nat /\ stream[c] \in Seq(Piece)
      /\ session[c] \in Labels /\ buffer[c] \in Seq(Piece)
      /\ req[c] \in Piece \cup {None} /\ stable[c] \subseteq Servlet
      /\ answers[c] \in Seq([k : Nat, by : Servlet])
  BY DEF HttpType
<1> QED BY <1>1, LenProperties

LEMMA SameTables == UNCHANGED tables => Registered' = Registered
BY DEF tables, Registered

\* Clients whose session a step leaves alone.
LEMMA OtherClients ==
    ASSUME NEW d, SessionInv(d), UNCHANGED tables,
           sent'[d] = sent[d], stream'[d] = stream[d],
           session'[d] = session[d], buffer'[d] = buffer[d],
           req'[d] = req[d], stable'[d] = stable[d], answers'[d] = answers[d],
           d \in piped' <=> d \in piped
    PROVE  SessionInv(d)'
<1>1. Registered' = Registered
  BY SameTables
<1>2. Answered(d)' = Answered(d)
  BY DEF Answered
<1> QED BY <1>1, <1>2
        DEF SessionInv, RecvInv, ReadInv, BodyInv, MatchInv, QuietInv,
            OrderInv, PatientInv, GlobInv

\* A step of one client, or of its session.
LEMMA OneClient ==
    ASSUME HttpInv, HttpType', NEW c \in Clients, UNCHANGED tables,
           \A d \in Clients \ {c} :
               /\ sent'[d] = sent[d] /\ stream'[d] = stream[d]
               /\ session'[d] = session[d] /\ buffer'[d] = buffer[d]
               /\ req'[d] = req[d] /\ stable'[d] = stable[d]
               /\ answers'[d] = answers[d] /\ (d \in piped' <=> d \in piped),
           SessionInv(c)'
    PROVE  HttpInv'
<1>1. ASSUME NEW d \in Clients, d # c PROVE SessionInv(d)'
  <2>1. /\ sent'[d] = sent[d] /\ stream'[d] = stream[d]
        /\ session'[d] = session[d] /\ buffer'[d] = buffer[d]
        /\ req'[d] = req[d] /\ stable'[d] = stable[d]
        /\ answers'[d] = answers[d] /\ (d \in piped' <=> d \in piped)
    BY <1>1
  <2> QED BY <2>1, OtherClients DEF HttpInv
<1> QED BY <1>1 DEF HttpInv

LEMMA HandleClientInv ==
    ASSUME HttpInv, NEW c \in Clients, HandleClient(c)
    PROVE  HttpInv'
<1>1. /\ session[c] = "none" /\ GotoS(c, "recv")
      /\ UNCHANGED <<tables, sent, stream, gone, buffer, req, stable,
                     answers, piped>>
  BY DEF HandleClient
<1>2. /\ session'[c] = "recv"
      /\ \A d \in Clients \ {c} : session'[d] = session[d]
      /\ session' \in [Clients -> Labels]
  BY <1>1 DEF HttpInv, HttpType, GotoS, Labels
<1>3. HttpType' /\ Registered' = Registered
  BY <1>1, <1>2, SameTables DEF HttpInv, HttpType, tables
<1>4. SessionInv(c)
  BY DEF HttpInv
<1>5. SessionInv(c)'
  <2>1. buffer[c] = <<>> /\ req[c] = None
    BY <1>1, <1>4 DEF SessionInv, QuietInv
  <2>2. RecvInv(c)'
    BY <1>1, <1>2, <2>1, SessionAssumption DEF RecvInv
  <2>3. OrderInv(c)'
    BY <1>1, <1>2, <1>4, <2>1 DEF SessionInv, OrderInv, Answered
  <2> QED BY <1>1, <1>2, <1>4, <2>2, <2>3
          DEF SessionInv, ReadInv, BodyInv, MatchInv, QuietInv, PatientInv,
              GlobInv
<1>6. ASSUME NEW d \in Clients, d # c PROVE SessionInv(d)'
  BY <1>1, <1>2, <1>6, OtherClients DEF HttpInv
<1> QED BY <1>3, <1>5, <1>6 DEF HttpInv

\* A session that ends leaves its buffer as it was.
LEMMA ClosedSession ==
    ASSUME HttpInv, NEW c \in Clients, session[c] \in {"recv", "body"},
           session'[c] = "closed",
           sent'[c] = sent[c], buffer'[c] = buffer[c], req'[c] = req[c],
           answers'[c] = answers[c], c \in piped' <=> c \in piped,
           StreamOf(stream'[c], sent[c]),
           \A k \in Answered(c) :
               \A j \in 1..Len(stream'[c]) : k < stream'[c][j].k
    PROVE  SessionInv(c)'
<1>1. SessionInv(c)
  BY DEF HttpInv
<1>2. QuietInv(c)'
  <2>1. CASE session[c] = "recv"
    <3>1. req[c] = None /\ Len(buffer[c]) < BufLen
      BY <1>1, <2>1 DEF SessionInv, RecvInv
    <3>2. Len(buffer[c]) \in Nat /\ BufLen \in Nat
      BY ClientTypes, SessionAssumption DEF HttpInv
    <3> QED BY <3>1, <3>2 DEF QuietInv
  <2>2. CASE session[c] = "body"
    <3>1. /\ req[c] \in Piece /\ Len(buffer[c]) < req[c].kind.len
      BY <1>1, <2>2 DEF SessionInv, ReadInv, BodyInv
    <3>2. Len(buffer[c]) \in Nat /\ req[c].kind.len \in Nat /\ req[c] # None
      BY <3>1, ClientTypes, PieceTypes, RequestTypes DEF HttpInv
    <3> QED BY <3>1, <3>2 DEF QuietInv
  <2> QED BY <2>1, <2>2
<1>3. OrderInv(c)'
  <2>1. Answered(c)' = Answered(c)
    BY DEF Answered
  <2> QED BY <1>1, <2>1 DEF SessionInv, OrderInv
<1> QED BY <1>1, <1>2, <1>3
        DEF SessionInv, RecvInv, ReadInv, BodyInv, MatchInv, PatientInv,
            GlobInv

LEMMA RecvEndsInv ==
    ASSUME HttpInv, NEW c \in Clients, RecvEnds(c)
    PROVE  HttpInv'
<1>1. /\ session[c] \in {"recv", "body"} /\ GotoS(c, "closed")
      /\ UNCHANGED <<tables, sent, stream, gone, buffer, req, stable,
                     answers, piped>>
  BY DEF RecvEnds, CloseSession
<1>2. /\ session'[c] = "closed"
      /\ \A d \in Clients \ {c} : session'[d] = session[d]
      /\ session' \in [Clients -> Labels]
  BY <1>1 DEF HttpInv, HttpType, GotoS, Labels
<1>3. HttpType'
  BY <1>1, <1>2 DEF HttpInv, HttpType, tables
<1>4. SessionInv(c)'
  BY <1>1, <1>2, ClosedSession DEF HttpInv, SessionInv, OrderInv
<1>5. ASSUME NEW d \in Clients, d # c PROVE SessionInv(d)'
  BY <1>1, <1>2, <1>5, OtherClients DEF HttpInv
<1> QED BY <1>3, <1>4, <1>5 DEF HttpInv

-----------------------------------------------------------------------------
\* What a read adds to the buffer, if the parser takes it, is one request's.
LEMMA Taken ==
    ASSUME HttpInv, NEW c \in Clients, session[c] = "recv",
           NEW n \in 1..Len(stream[c]),
           WellFormed(buffer[c] \o SubSeq(stream[c], 1, n))
    PROVE  LET in    == buffer[c] \o SubSeq(stream[c], 1, n)
               first == in[1]
               had   == Len(buffer[c])
           IN  /\ in \in Seq(Piece) /\ Len(in) = had + n
               /\ first \in Piece /\ first.k \in 1..sent[c]
               /\ had < Size(first.kind)
               /\ RestOf(stream[c], first.k, first.kind, had)
               /\ \A j \in 1..Len(in) : j <= Size(first.kind) =>
                      in[j] = PieceOf(first.k, first.kind, j)
               /\ \A k \in Answered(c) : k < first.k
<1> DEFINE s     == stream[c]
           b     == buffer[c]
           in    == b \o SubSeq(s, 1, n)
           first == in[1]
           had   == Len(b)
<1>1. /\ s \in Seq(Piece) /\ b \in Seq(Piece) /\ had \in Nat
      /\ Len(s) \in Nat /\ sent[c] \in Nat
  BY ClientTypes DEF HttpInv
<1>2. /\ in \in Seq(Piece) /\ Len(in) = had + n
      /\ \A j \in 1..had : in[j] = b[j]
      /\ \A j \in 1..n : in[had + j] = s[j]
  BY <1>1
<1>3. SessionInv(c)
  BY DEF HttpInv
<1> HIDE DEF in
<1>4. 1 \in 1..Len(in) /\ first \in Piece
  BY <1>1, <1>2
<1>5. /\ first.kind \in Requests /\ Size(first.kind) \in Nat
      /\ first.kind.head \in Nat \ {0} /\ first.kind.head <= Size(first.kind)
  BY <1>4, PieceTypes, RequestTypes
<1>6. /\ first.k \in 1..sent[c] /\ had < Size(first.kind)
      /\ PartOf(b, first.k, first.kind, 0)
      /\ RestOf(s, first.k, first.kind, had)
      /\ \A k \in Answered(c) : k < first.k
  <2>1. CASE b # <<>>
    <3>1. first = b[1] /\ had # 0
      BY <1>1, <1>2, <2>1
    <3> QED BY <1>1, <1>3, <1>5, <2>1, <3>1
            DEF SessionInv, RecvInv, OrderInv
  <2>2. CASE b = <<>>
    <3>1. had = 0 /\ first = s[1] /\ 1 \in 1..Len(s)
      BY <1>1, <1>2, <2>2
    <3>2. first.part = 1
      <4>1. 1 \in 1..Min({Len(in), first.kind.head})
        BY <1>4, <1>5, LeastOfTwo
      <4> QED BY <4>1 DEF WellFormed, in
    <3>3. StreamOf(s, sent[c])
      BY <1>3 DEF SessionInv
    <3>4. \A q \in 1..Size(first.kind) :
              /\ 1 + q - 1 <= Len(s)
              /\ s[1 + q - 1] = PieceOf(first.k, first.kind, q)
      <4>1. \A q \in s[1].part..Size(s[1].kind) :
                /\ 1 + q - s[1].part <= Len(s)
                /\ s[1 + q - s[1].part] = PieceOf(s[1].k, s[1].kind, q)
        BY <3>1, <3>3 DEF StreamOf
      <4>2. s[1] = first /\ s[1].part = 1
        BY <3>1, <3>2
      <4> HIDE DEF s, first
      <4> QED BY <4>1, <4>2
    <3>5. \A q \in 1..Size(first.kind) :
              q <= Len(s) /\ s[q] = PieceOf(first.k, first.kind, q)
      BY <3>4
    <3>6. RestOf(s, first.k, first.kind, 0)
      BY <1>1, <1>5, <3>5 DEF RestOf
    <3> QED BY <1>3, <1>5, <2>2, <3>1, <3>3, <3>6
            DEF SessionInv, StreamOf, OrderInv, PartOf
  <2> QED BY <2>1, <2>2
<1>7. ASSUME NEW j \in 1..Len(in), j <= Size(first.kind)
      PROVE  in[j] = PieceOf(first.k, first.kind, j)
  <2>1. CASE j <= had
    BY <1>1, <1>2, <1>6, <2>1 DEF PartOf
  <2>2. CASE j > had
    <3>1. j - had \in 1..n /\ j - had \in 1..Len(s) /\ had + (j - had) = j
      <4>1. n \in Int /\ n <= Len(s) /\ j \in Int /\ j <= had + n
        BY <1>1, <1>2
      <4> HIDE DEF had, s
      <4> QED BY <1>1, <2>2, <4>1
    <3> QED BY <1>2, <1>6, <1>7, <3>1 DEF RestOf
  <2> QED BY <1>1, <2>1, <2>2
<1> QED BY <1>2, <1>4, <1>6, <1>7 DEF in

\* What is left of the stream after a read of n pieces.
LEMMA LeftOfStream ==
    ASSUME HttpInv, NEW c \in Clients, NEW n \in 1..Len(stream[c])
    PROVE  LET st == SubSeq(stream[c], n + 1, Len(stream[c]))
           IN  /\ st \in Seq(Piece) /\ StreamOf(st, sent[c])
               /\ Len(st) = Len(stream[c]) - n
               /\ \A j \in 1..Len(st) : st[j] = stream[c][n + j]
               /\ \A k \in Answered(c) : \A j \in 1..Len(st) : k < st[j].k
<1> DEFINE s  == stream[c]
           st == SubSeq(s, n + 1, Len(s))
<1>1. s \in Seq(Piece) /\ Len(s) \in Nat /\ sent[c] \in Nat /\ SessionInv(c)
  BY ClientTypes DEF HttpInv
<1>2. n \in 0..Len(s)
  BY <1>1
<1>3. /\ st \in Seq(Piece) /\ Len(st) = Len(s) - n
      /\ \A j \in 1..Len(st) : st[j] = s[n + j]
  BY <1>1, <1>2, Consumed
<1>4. StreamOf(st, sent[c])
  BY <1>1, <1>2, StreamConsumed DEF SessionInv
<1> HIDE DEF st
<1>5. \A j \in 1..Len(st) : n + j \in 1..Len(s) /\ st[j] = s[n + j]
  BY <1>1, <1>2, <1>3
<1>6. \A k \in Answered(c) : \A j \in 1..Len(st) : k < st[j].k
  BY <1>1, <1>5 DEF SessionInv, OrderInv
<1> QED BY <1>3, <1>4, <1>6 DEF st

LEMMA RecvRefused ==
    ASSUME HttpInv, NEW c \in Clients, session[c] = "recv",
           NEW n \in 1..Len(stream[c]), Consume(c, n), GotoS(c, "closed"),
           UNCHANGED <<tables, sent, gone, stable, answers, piped, buffer, req>>
    PROVE  HttpInv'
<1> DEFINE st == SubSeq(stream[c], n + 1, Len(stream[c]))
<1>1. /\ st \in Seq(Piece) /\ StreamOf(st, sent[c])
      /\ \A k \in Answered(c) : \A j \in 1..Len(st) : k < st[j].k
  BY LeftOfStream
<1>2. stream' = [stream EXCEPT ![c] = st]
  BY DEF Consume
<1> HIDE DEF st
<1>3. /\ stream'[c] = st /\ session'[c] = "closed"
      /\ stream' \in [Clients -> Seq(Piece)] /\ session' \in [Clients -> Labels]
      /\ \A d \in Clients \ {c} : /\ session'[d] = session[d]
                                  /\ stream'[d] = stream[d]
  BY <1>1, <1>2 DEF HttpInv, HttpType, GotoS, Labels
<1>4. HttpType'
  BY <1>3 DEF HttpInv, HttpType, tables
<1>5. SessionInv(c)'
  BY <1>1, <1>3, ClosedSession
<1>6. ASSUME NEW d \in Clients, d # c PROVE SessionInv(d)'
  BY <1>3, <1>6, OtherClients DEF HttpInv
<1> QED BY <1>4, <1>5, <1>6 DEF HttpInv

\* A step that only reads.
LEMMA ReadFrame ==
    ASSUME HttpInv, NEW c \in Clients,
           UNCHANGED <<tables, sent, gone, stable, answers, piped>>,
           stream' \in [Clients -> Seq(Piece)], buffer' \in [Clients -> Seq(Piece)],
           req' \in [Clients -> Piece \cup {None}], session' \in [Clients -> Labels],
           \A d \in Clients \ {c} :
               /\ stream'[d] = stream[d] /\ buffer'[d] = buffer[d]
               /\ req'[d] = req[d] /\ session'[d] = session[d],
           SessionInv(c)'
    PROVE  HttpInv'
<1>1. HttpType'
  BY DEF HttpInv, HttpType, tables
<1> QED BY <1>1, OneClient

LEMMA ReadStep ==
    ASSUME HttpInv, NEW c \in Clients, NEW n, Consume(c, n),
           SubSeq(stream[c], n + 1, Len(stream[c])) \in Seq(Piece)
    PROVE  /\ stream' \in [Clients -> Seq(Piece)]
           /\ stream'[c] = SubSeq(stream[c], n + 1, Len(stream[c]))
           /\ \A d \in Clients \ {c} : stream'[d] = stream[d]
<1> DEFINE st == SubSeq(stream[c], n + 1, Len(stream[c]))
<1>1. stream' = [stream EXCEPT ![c] = st] /\ stream \in [Clients -> Seq(Piece)]
  BY DEF Consume, HttpInv, HttpType
<1> HIDE DEF st
<1>2. st \in Seq(Piece)
  BY DEF st
<1> QED BY <1>1, <1>2 DEF st

LEMMA GoStep ==
    ASSUME HttpInv, NEW c \in Clients, NEW l \in Labels, GotoS(c, l)
    PROVE  /\ session' \in [Clients -> Labels] /\ session'[c] = l
           /\ \A d \in Clients \ {c} : session'[d] = session[d]
BY DEF GotoS, HttpInv, HttpType

LEMMA BufferStep ==
    ASSUME HttpInv, NEW c \in Clients, NEW b \in Seq(Piece),
           buffer' = [buffer EXCEPT ![c] = b]
    PROVE  /\ buffer' \in [Clients -> Seq(Piece)] /\ buffer'[c] = b
           /\ \A d \in Clients \ {c} : buffer'[d] = buffer[d]
BY DEF HttpInv, HttpType

LEMMA ReqStep ==
    ASSUME HttpInv, NEW c \in Clients, NEW q \in Piece \cup {None},
           req' = [req EXCEPT ![c] = q]
    PROVE  /\ req' \in [Clients -> Piece \cup {None}] /\ req'[c] = q
           /\ \A d \in Clients \ {c} : req'[d] = req[d]
BY DEF HttpInv, HttpType

LEMMA RecvMore ==
    ASSUME HttpInv, NEW c \in Clients, session[c] = "recv",
           NEW n \in 1..Len(stream[c]), Consume(c, n),
           NEW in, in = buffer[c] \o SubSeq(stream[c], 1, n),
           WellFormed(in), ~HeaderIn(in), Len(in) < BufLen,
           buffer' = [buffer EXCEPT ![c] = in],
           UNCHANGED <<tables, sent, gone, stable, answers, piped, session, req>>
    PROVE  HttpInv'
<1> DEFINE s     == stream[c]
           first == in[1]
           r     == first.kind
           had   == Len(buffer[c])
           st    == SubSeq(s, n + 1, Len(s))
<1>1. /\ in \in Seq(Piece) /\ Len(in) = had + n
      /\ first \in Piece /\ first.k \in 1..sent[c]
      /\ had < Size(r) /\ RestOf(s, first.k, r, had)
      /\ \A j \in 1..Len(in) : j <= Size(r) => in[j] = PieceOf(first.k, r, j)
      /\ \A k \in Answered(c) : k < first.k
  BY Taken
<1>2. /\ st \in Seq(Piece) /\ StreamOf(st, sent[c])
      /\ \A k \in Answered(c) : \A j \in 1..Len(st) : k < st[j].k
  BY LeftOfStream
<1>3. /\ r \in Requests /\ Size(r) \in Nat /\ r.head \in Nat
      /\ r.head <= Size(r) /\ had \in Nat /\ Len(s) \in Nat
      /\ s \in Seq(Piece) /\ n \in 1..Len(s) /\ first.k \in Nat
  BY <1>1, PieceTypes, RequestTypes, ClientTypes DEF HttpInv
<1>4. ~(Len(in) >= r.head)
  BY DEF HeaderIn
<1>5. /\ stream' \in [Clients -> Seq(Piece)] /\ stream'[c] = st
      /\ \A d \in Clients \ {c} : stream'[d] = stream[d]
  BY <1>2, ReadStep
<1>6. /\ buffer' \in [Clients -> Seq(Piece)] /\ buffer'[c] = in
      /\ \A d \in Clients \ {c} : buffer'[d] = buffer[d]
  BY <1>1, BufferStep
<1>7. /\ req' = req /\ session' = session /\ req[c] = None
      /\ req \in [Clients -> Piece \cup {None}]
      /\ session \in [Clients -> Labels]
  BY DEF HttpInv, HttpType, SessionInv, RecvInv
<1> HIDE DEF st, s, had, r, first
<1>8. had + n < r.head /\ in # <<>> /\ Len(in) < r.head
  <2>1. Len(in) < r.head /\ Len(in) # 0
    BY <1>1, <1>3, <1>4
  <2> QED BY <1>1, <2>1
<1>9. RestOf(st, first.k, r, Len(in))
  <2>1. n \in 0..Len(s) /\ had + n <= Size(r)
    BY <1>3, <1>8
  <2> QED BY <1>1, <1>3, <2>1, RestConsumed DEF st
<1>10. PartOf(in, first.k, r, 0)
  <2>1. \A j \in 1..Len(in) : j <= Size(r) /\ 0 + j = j
    BY <1>1, <1>3, <1>8
  <2> QED BY <1>1, <2>1 DEF PartOf
<1>11. RecvInv(c)'
  BY <1>1, <1>5, <1>6, <1>7, <1>8, <1>9, <1>10 DEF RecvInv, r, first
<1>12. OrderInv(c)'
  <2>1. OrderInv(c) /\ answers'[c] = answers[c] /\ sent'[c] = sent[c]
    BY DEF HttpInv, SessionInv
  <2>2. session'[c] = "recv"
    BY <1>7
  <2>3. ASSUME NEW k \in Answered(c)
        PROVE  /\ \A j \in 1..Len(stream'[c]) : k < stream'[c][j].k
               /\ k < buffer'[c][1].k
    BY <1>1, <1>2, <1>5, <1>6 DEF first
  <2> QED BY <2>1, <2>2, <2>3, OrderKept
<1>13. SessionInv(c)'
  BY <1>2, <1>5, <1>6, <1>7, <1>11, <1>12
  DEF HttpInv, SessionInv, ReadInv, BodyInv, MatchInv, QuietInv, PatientInv,
      GlobInv
<1> QED BY <1>5, <1>6, <1>7, <1>13, ReadFrame

\* What the body takes is its beginning, and no more than its length.
LEMMA BodyPieces ==
    ASSUME NEW in \in Seq(Piece), in[1] \in Piece, HeaderIn(in),
           \A j \in 1..Len(in) : j <= Size(in[1].kind) =>
               in[j] = PieceOf(in[1].k, in[1].kind, j)
    PROVE  /\ BodyIn(in) \in Seq(Piece)
           /\ Len(BodyIn(in)) =
                  (IF Len(in) <= Size(in[1].kind) THEN Len(in)
                   ELSE Size(in[1].kind)) - in[1].kind.head
           /\ PartOf(BodyIn(in), in[1].k, in[1].kind, in[1].kind.head)
<1> DEFINE k == in[1].k
           r == in[1].kind
           end == IF Len(in) <= Size(r) THEN Len(in) ELSE Size(r)
           head == r.head
<1>1. /\ Len(in) \in Nat /\ Size(r) \in Nat /\ head \in Nat
      /\ head <= Size(r) /\ head <= Len(in)
  BY RequestTypes, PieceTypes, LenProperties DEF HeaderIn
<1>2. /\ head <= end /\ end <= Len(in) /\ end <= Size(r) /\ end \in Nat
  <2> HIDE DEF head
  <2> QED BY <1>1
<1>3. Min({Len(in), Size(r)}) = end
  BY <1>1, LeastOfTwo
<1>4. BodyIn(in) = SubSeq(in, head + 1, end)
  BY <1>3 DEF BodyIn, Size
<1>pieces. \A j \in 1..Len(in) : j <= Size(r) => in[j] = PieceOf(k, r, j)
  OBVIOUS
<1> HIDE DEF end, head, k, r
<1>5. /\ SubSeq(in, head + 1, end) \in Seq(Piece)
      /\ Len(SubSeq(in, head + 1, end)) = end - head
      /\ \A j \in 1..(end - head) : SubSeq(in, head + 1, end)[j] = in[head + j]
  BY <1>1, <1>2
<1>6. \A j \in 1..(end - head) : /\ head + j \in 1..Len(in)
                                 /\ head + j <= Size(r)
  BY <1>1, <1>2
<1>7. PartOf(BodyIn(in), k, r, head)
  BY <1>4, <1>5, <1>6, <1>pieces DEF PartOf
<1> QED BY <1>4, <1>5, <1>7 DEF end, head, k, r

\* The header is complete: the body is, or is not.
LEMMA RecvHeader ==
    ASSUME HttpInv, NEW c \in Clients, session[c] = "recv",
           NEW n \in 1..Len(stream[c]), Consume(c, n),
           NEW in, in = buffer[c] \o SubSeq(stream[c], 1, n),
           WellFormed(in), HeaderIn(in),
           req' = [req EXCEPT ![c] = in[1]],
           NEW body, body = BodyIn(in), buffer' = [buffer EXCEPT ![c] = body],
           NEW l, l = (IF Len(body) < in[1].kind.len THEN "body" ELSE "match"),
           GotoS(c, l), UNCHANGED <<tables, sent, gone, stable, answers, piped>>
    PROVE  HttpInv'
<1> DEFINE s     == stream[c]
           first == in[1]
           r     == first.kind
           had   == Len(buffer[c])
           st    == SubSeq(s, n + 1, Len(s))
<1>1. /\ in \in Seq(Piece) /\ Len(in) = had + n
      /\ first \in Piece /\ first.k \in 1..sent[c]
      /\ had < Size(r) /\ RestOf(s, first.k, r, had)
      /\ \A j \in 1..Len(in) : j <= Size(r) => in[j] = PieceOf(first.k, r, j)
      /\ \A k \in Answered(c) : k < first.k
  BY Taken
<1>2. /\ st \in Seq(Piece) /\ StreamOf(st, sent[c])
      /\ Len(st) = Len(s) - n
      /\ \A j \in 1..Len(st) : st[j] = s[n + j]
      /\ \A k \in Answered(c) : \A j \in 1..Len(st) : k < st[j].k
  BY LeftOfStream
<1>3. /\ r \in Requests /\ Size(r) \in Nat /\ r.len \in Nat
      /\ r.head \in Nat /\ r.head <= Size(r) /\ Size(r) = r.head + r.len
      /\ had \in Nat /\ Len(s) \in Nat /\ s \in Seq(Piece)
      /\ n \in 1..Len(s) /\ first.k \in Nat /\ sent[c] \in Nat
      /\ StreamOf(s, sent[c])
  BY <1>1, PieceTypes, RequestTypes, ClientTypes
  DEF HttpInv, SessionInv, Size
<1>4. /\ body \in Seq(Piece) /\ PartOf(body, first.k, r, r.head)
      /\ Len(body) = (IF Len(in) <= Size(r) THEN Len(in) ELSE Size(r)) - r.head
  BY <1>1, BodyPieces
<1>5. /\ l = IF Len(body) < r.len THEN "body" ELSE "match"
      /\ l \in Labels /\ l \in {"body", "match"}
  BY DEF Labels
<1>6. /\ stream' \in [Clients -> Seq(Piece)] /\ stream'[c] = st
      /\ \A d \in Clients \ {c} : stream'[d] = stream[d]
  BY <1>2, ReadStep
<1>7. /\ buffer' \in [Clients -> Seq(Piece)] /\ buffer'[c] = body
      /\ \A d \in Clients \ {c} : buffer'[d] = buffer[d]
  BY <1>4, BufferStep
<1>8. /\ req' \in [Clients -> Piece \cup {None}] /\ req'[c] = first
      /\ \A d \in Clients \ {c} : req'[d] = req[d]
  BY <1>1, ReqStep
<1>9. /\ session' \in [Clients -> Labels] /\ session'[c] = l
      /\ \A d \in Clients \ {c} : session'[d] = session[d]
  BY <1>5, GoStep
<1>10. Answered(c)' = Answered(c) /\ sent'[c] = sent[c]
  BY DEF Answered
<1> HIDE DEF st, s, had, r, first
<1>11. ReadInv(c)'
  BY <1>1, <1>4, <1>7, <1>8, <1>10 DEF ReadInv, r
<1>12. BodyInv(c)'
  <2> SUFFICES ASSUME l = "body"
               PROVE  /\ Len(body) < r.len
                      /\ RestOf(st, first.k, r, r.head + Len(body))
    BY <1>6, <1>7, <1>8, <1>9 DEF BodyInv, r
  <2>1. Len(body) < r.len
    BY <1>5
  <2>2. r.head + Len(body) = had + n /\ had + n <= Size(r) /\ n \in 0..Len(s)
    BY <1>1, <1>3, <1>4, <2>1
  <2>3. RestOf(st, first.k, r, had + n)
    BY <1>1, <1>3, <2>2, RestConsumed DEF st
  <2> QED BY <2>1, <2>2, <2>3
<1>13. MatchInv(c)'
  <2> SUFFICES ASSUME l = "match"
               PROVE  /\ Len(body) = r.len
                      /\ \A j \in 1..Len(st) : first.k < st[j].k
    BY <1>6, <1>7, <1>8, <1>9 DEF MatchInv, r
  <2>1. ~(Len(body) < r.len)
    BY <1>5
  <2>2. Len(body) = r.len /\ had + n >= Size(r)
    <3>1. Len(in) \in Nat /\ Len(in) = had + n
      BY <1>1, LenProperties
    <3>2. CASE Len(in) <= Size(r)
      <4>1. Len(body) = Len(in) - r.head
        BY <1>4, <3>2
      <4>2. Size(r) = r.head + r.len /\ r.head \in Nat /\ r.len \in Nat
        BY <1>3, Zenon
      <4>3. Len(body) = r.len /\ Len(in) = Size(r)
        BY <2>1, <3>1, <3>2, <4>1, <4>2
      <4> QED BY <3>1, <4>2, <4>3
    <3>3. CASE ~(Len(in) <= Size(r))
      <4>1. Len(body) = Size(r) - r.head
        BY <1>4, <3>3
      <4>2. /\ Size(r) = r.head + r.len /\ r.head \in Nat /\ r.len \in Nat
            /\ had \in Nat /\ n \in Nat
        BY <1>3
      <4> QED BY <3>1, <3>3, <4>1, <4>2
    <3> QED BY <3>2, <3>3
  <2>3. ASSUME NEW j \in 1..Len(st) PROVE first.k < st[j].k
    <3>1. n + j \in 1..Len(s) /\ had + (n + j) > Size(r)
      BY <1>2, <1>3, <2>2
    <3>2. first.k < s[n + j].k
      BY <1>1, <1>3, <3>1, LaterRequests
    <3> QED BY <1>2, <3>2
  <2> QED BY <2>2, <2>3
<1>14. OrderInv(c)'
  <2>1. OrderInv(c) /\ answers'[c] = answers[c]
    BY DEF HttpInv, SessionInv
  <2>2. session'[c] # "recv"
    BY <1>5, <1>9
  <2>3. ASSUME NEW k \in Answered(c)
        PROVE  /\ \A j \in 1..Len(stream'[c]) : k < stream'[c][j].k
               /\ k < req'[c].k
    BY <1>1, <1>2, <1>6, <1>8
  <2> QED BY <1>10, <2>1, <2>2, <2>3, OrderKept
<1>15. SessionInv(c)'
  BY <1>2, <1>5, <1>6, <1>9, <1>10, <1>11, <1>12, <1>13, <1>14
  DEF HttpInv, SessionInv, RecvInv, QuietInv, PatientInv, GlobInv
<1> QED BY <1>6, <1>7, <1>8, <1>9, <1>15, ReadFrame

LEMMA RecvStepInv ==
    ASSUME HttpInv, NEW c \in Clients, NEW n \in Nat, Recv(c, n)
    PROVE  HttpInv'
<1> DEFINE in == buffer[c] \o SubSeq(stream[c], 1, n)
<1>1. /\ session[c] = "recv" /\ Consume(c, n)
      /\ n \in 1..Min({BufLen - Len(buffer[c]), Len(stream[c])})
      /\ UNCHANGED <<tables, sent, gone, stable, answers, piped>>
  BY DEF Recv
<1>2. n \in 1..Len(stream[c])
  <2>1. Len(stream[c]) \in Nat /\ BufLen - Len(buffer[c]) \in Int
    BY ClientTypes, SessionAssumption DEF HttpInv
  <2> QED BY <1>1, <2>1, LeastOfTwo
<1>3. CASE GotoS(c, "closed") /\ UNCHANGED <<buffer, req>>
  BY <1>1, <1>2, <1>3, RecvRefused
<1>4. CASE /\ WellFormed(in) /\ ~HeaderIn(in) /\ Len(in) < BufLen
           /\ buffer' = [buffer EXCEPT ![c] = in]
           /\ UNCHANGED <<session, req>>
  BY <1>1, <1>2, <1>4, RecvMore
<1>5. CASE /\ WellFormed(in) /\ HeaderIn(in)
           /\ req' = [req EXCEPT ![c] = in[1]]
           /\ buffer' = [buffer EXCEPT ![c] = BodyIn(in)]
           /\ GotoS(c, IF Len(BodyIn(in)) < in[1].kind.len THEN "body"
                       ELSE "match")
  BY <1>1, <1>2, <1>5, RecvHeader
<1> QED BY <1>3, <1>4, <1>5 DEF Recv, CloseSession

\* readfixsize goes on where the buffer ends.
LEMMA RecvBodyInv ==
    ASSUME HttpInv, NEW c \in Clients, NEW n, RecvBody(c, n)
    PROVE  HttpInv'
<1> DEFINE s    == stream[c]
           r    == req[c].kind
           k    == req[c].k
           had  == Len(buffer[c])
           left == r.len - had
           b    == buffer[c] \o SubSeq(s, 1, n)
           st   == SubSeq(s, n + 1, Len(s))
           l    == IF n = left THEN "match" ELSE "body"
<1>1. /\ session[c] = "body" /\ n \in 1..Min({left, Len(s)})
      /\ buffer' = [buffer EXCEPT ![c] = b] /\ Consume(c, n) /\ GotoS(c, l)
      /\ UNCHANGED <<tables, sent, gone, req, stable, answers, piped>>
  BY DEF RecvBody
<1>2. /\ req[c] \in Piece /\ k \in 1..sent[c] /\ PartOf(buffer[c], k, r, r.head)
      /\ had < r.len /\ RestOf(s, k, r, r.head + had)
  BY <1>1 DEF HttpInv, SessionInv, ReadInv, BodyInv
<1>3. /\ r \in Requests /\ Size(r) \in Nat /\ r.len \in Nat
      /\ r.head \in Nat /\ Size(r) = r.head + r.len
      /\ had \in Nat /\ Len(s) \in Nat /\ s \in Seq(Piece)
      /\ buffer[c] \in Seq(Piece) /\ k \in Nat /\ sent[c] \in Nat
      /\ StreamOf(s, sent[c])
  BY <1>2, PieceTypes, RequestTypes, ClientTypes DEF HttpInv, SessionInv, Size
<1>4. n \in 1..Len(s) /\ n <= left /\ left \in Nat
  <2>1. left \in Nat
    <3> HIDE DEF r, had
    <3> QED BY <1>2, <1>3
  <2> HIDE DEF left, s
  <2>2. Min({left, Len(s)}) = IF left <= Len(s) THEN left ELSE Len(s)
    <3>1. left \in Int /\ Len(s) \in Int
      BY <1>3, <2>1
    <3> QED BY <3>1, LeastOfTwo, Zenon
  <2> QED BY <1>1, <1>3, <2>1, <2>2
<1>5. /\ st \in Seq(Piece) /\ StreamOf(st, sent[c]) /\ Len(st) = Len(s) - n
      /\ \A j \in 1..Len(st) : st[j] = s[n + j]
      /\ \A q \in Answered(c) : \A j \in 1..Len(st) : q < st[j].k
  BY <1>4, LeftOfStream
<1>6. /\ b \in Seq(Piece) /\ Len(b) = had + n
      /\ \A j \in 1..had : b[j] = buffer[c][j]
      /\ \A j \in 1..n : b[had + j] = s[j]
  BY <1>3, <1>4
<1>7. l \in Labels /\ l \in {"body", "match"}
  BY DEF Labels
<1>8. /\ stream' \in [Clients -> Seq(Piece)] /\ stream'[c] = st
      /\ \A d \in Clients \ {c} : stream'[d] = stream[d]
  BY <1>1, <1>5, ReadStep
<1>9. /\ buffer' \in [Clients -> Seq(Piece)] /\ buffer'[c] = b
      /\ \A d \in Clients \ {c} : buffer'[d] = buffer[d]
  <2> HIDE DEF b
  <2> QED BY <1>1, <1>6, BufferStep
<1>10. req' = req /\ req \in [Clients -> Piece \cup {None}]
  BY <1>1 DEF HttpInv, HttpType
<1>11. /\ session' \in [Clients -> Labels] /\ session'[c] = l
       /\ \A d \in Clients \ {c} : session'[d] = session[d]
  <2> HIDE DEF l
  <2> QED BY <1>1, <1>7, GoStep
<1>12. Answered(c)' = Answered(c) /\ sent'[c] = sent[c]
  BY <1>1 DEF Answered
<1> HIDE DEF b, st, s, r, k, had, left, l
<1>13. /\ left = r.len - had /\ had < r.len /\ n <= left
       /\ n \in Nat \ {0} /\ n <= Len(s) /\ Len(s) \in Nat
       /\ had \in Nat /\ r.head \in Nat /\ r.len \in Nat
       /\ Size(r) = r.head + r.len /\ Len(b) = had + n /\ Len(st) = Len(s) - n
  BY <1>2, <1>3, <1>4, <1>5, <1>6 DEF left
<1>14. PartOf(b, k, r, r.head)
  <2> SUFFICES ASSUME NEW j \in 1..Len(b) PROVE b[j] = PieceOf(k, r, r.head + j)
    BY DEF PartOf
  <2>1. CASE j <= had
    <3>1. j \in 1..had
      BY <1>3, <1>6, <2>1
    <3> QED BY <1>2, <1>6, <3>1 DEF PartOf, had
  <2>2. CASE j > had
    <3>1. /\ j - had \in 1..n /\ j - had \in 1..Len(s) /\ had + (j - had) = j
          /\ (r.head + had) + (j - had) = r.head + j /\ r.head + j <= Size(r)
      BY <1>13, <2>2
    <3> QED BY <1>2, <1>6, <3>1 DEF RestOf
  <2> QED BY <1>3, <2>1, <2>2
<1>15. ReadInv(c)'
  BY <1>2, <1>9, <1>10, <1>12, <1>14 DEF ReadInv, r, k
<1>16. BodyInv(c)'
  <2> SUFFICES ASSUME l = "body"
               PROVE  /\ Len(b) < r.len /\ RestOf(st, k, r, r.head + Len(b))
    BY <1>8, <1>9, <1>10, <1>11 DEF BodyInv, r, k
  <2>1. n # left
    BY DEF l
  <2>2. /\ Len(b) < r.len /\ r.head + Len(b) = (r.head + had) + n
        /\ n \in 0..Len(s) /\ (r.head + had) + n <= Size(r)
        /\ r.head + had \in Nat
    <3>1. n < left
      BY <1>13, <2>1
    <3>2. had + n < r.len /\ r.head + (had + n) = (r.head + had) + n
      BY <1>13, <3>1
    <3>3. (r.head + had) + n <= Size(r)
      BY <1>13, <3>2
    <3> QED BY <1>13, <3>2, <3>3
  <2>3. RestOf(st, k, r, (r.head + had) + n)
    BY <1>2, <1>3, <2>2, RestConsumed DEF st
  <2> QED BY <2>2, <2>3
<1>17. MatchInv(c)'
  <2> SUFFICES ASSUME l = "match"
               PROVE  /\ Len(b) = r.len /\ \A j \in 1..Len(st) : k < st[j].k
    BY <1>7, <1>8, <1>9, <1>10, <1>11 DEF MatchInv, r, k
  <2>1. n = left
    BY DEF l
  <2>2. Len(b) = r.len
    BY <1>13, <2>1
  <2>3. ASSUME NEW j \in 1..Len(st) PROVE k < st[j].k
    <3>1. /\ n + j \in 1..Len(s)
          /\ r.head + had < Size(r) /\ r.head + had \in Nat
      BY <1>13
    <3>2. (r.head + had) + (n + j) > Size(r)
      <4>1. had + n = r.len /\ j \in Nat \ {0}
        BY <1>13, <2>1
      <4> QED BY <1>13, <4>1
    <3>3. k < s[n + j].k
      BY <1>2, <1>3, <3>1, <3>2, LaterRequests
    <3> QED BY <1>5, <3>3
  <2> QED BY <2>2, <2>3
<1>18. OrderInv(c)'
  <2>1. OrderInv(c) /\ answers'[c] = answers[c]
    BY <1>1 DEF HttpInv, SessionInv
  <2>2. session'[c] # "recv"
    BY <1>7, <1>11
  <2>3. ASSUME NEW q \in Answered(c) PROVE q < req'[c].k
    BY <1>1, <1>10, <2>1 DEF OrderInv
  <2>4. ASSUME NEW q \in Answered(c)
        PROVE  \A j \in 1..Len(stream'[c]) : q < stream'[c][j].k
    BY <1>5, <1>8
  <2> QED BY <1>12, <2>1, <2>2, <2>3, <2>4, OrderKept
<1>19. SessionInv(c)'
  <2>1. PatientInv(c)'
    BY <1>1, <1>12 DEF HttpInv, SessionInv, PatientInv
  <2> QED BY <1>5, <1>7, <1>8, <1>11, <1>12, <1>15, <1>16, <1>17, <1>18, <2>1
          DEF SessionInv, RecvInv, QuietInv, GlobInv
<1> QED BY <1>1, <1>8, <1>9, <1>10, <1>11, <1>19, ReadFrame

-----------------------------------------------------------------------------
LessThan == {ss \in Nat \X Nat : ss[1] < ss[2]}

\* A set of natural numbers that is not empty has a least element.
LEMMA LeastNat ==
    ASSUME NEW T \in SUBSET Nat, T # {}
    PROVE  \E x \in T : \A y \in T : x <= y
<1>1. LessThan = OpToRel(<, Nat)
  BY DEF LessThan, OpToRel
<1>2. IsWellFoundedOn(LessThan, Nat)
  BY <1>1, NatLessThanWellFounded
<1>3. PICK x \in T : \A y \in T : ~ (<<y, x>> \in LessThan)
  BY <1>2, WFMin, Zenon
<1>4. \A y \in T : ~(y < x)
  BY <1>3 DEF LessThan
<1> QED BY <1>4

\* What getGlobServlet finds is a pattern that matches, if there is one.
LEMMA GlobbedFits ==
    ASSUME globs \in Seq(Patterns), NEW u \in Uris
    PROVE  LET hit == {i \in DOMAIN globs : <<globs[i], u>> \in Matches}
           IN  /\ hit = {} => Globbed(u) = Default
               /\ hit # {} => \E i \in hit : Globbed(u) = Glob(globs[i])
<1> DEFINE hit == {i \in DOMAIN globs : <<globs[i], u>> \in Matches}
           first == CHOOSE i \in hit : \A j \in hit : i <= j
<1>1. Globbed(u) = IF hit = {} THEN Default ELSE Glob(globs[first])
  BY DEF Globbed
<1>2. hit \in SUBSET Nat
  BY LenProperties
<1>3. ASSUME hit # {} PROVE first \in hit
  <2> HIDE DEF hit
  <2>1. \E i \in hit : \A j \in hit : i <= j
    BY <1>2, <1>3, LeastNat
  <2> QED BY <2>1
<1> HIDE DEF hit, first
<1>4. /\ hit = {} => Globbed(u) = Default
      /\ hit # {} => \E i \in hit : Globbed(u) = Glob(globs[i])
  BY <1>1, <1>3
<1> QED BY <1>4 DEF hit

LEMMA ServletTypes ==
    ASSUME HttpType, NEW u \in Uris
    PROVE  /\ Matched(u) \in Servlet /\ Globbed(u) \in Servlet
           /\ Registered \subseteq Servlet
           /\ Matched(u) = Default => Exact(u) \notin Registered
<1>1. globs \in Seq(Patterns) /\ datas \subseteq Uris
  BY DEF HttpType
<1>2. \A i \in DOMAIN globs : globs[i] \in Patterns
  BY <1>1, ElementOfSeq, LenProperties
<1>3. Matched(u) \in Servlet
  BY DEF Matched, Servlet
<1>4. Globbed(u) \in Servlet
  BY <1>1, <1>2, GlobbedFits DEF Servlet
<1>5. Registered \subseteq Servlet
  BY <1>1, <1>2 DEF Registered, Servlet, ToSet
<1>6. ASSUME Matched(u) = Default PROVE Exact(u) \notin Registered
  <2>1. Exact(u) # Default
    BY DEF Exact, Default
  <2>2. u \notin datas
    BY <1>6, <2>1 DEF Matched
  <2> QED BY <2>2 DEF Registered, Exact, Glob
<1> QED BY <1>3, <1>4, <1>5, <1>6

\* The response.
LEMMA AnswerInv ==
    ASSUME HttpInv, NEW c \in Clients, session[c] \in {"match", "glob"},
           NEW sv \in Servlet, Answer(c, sv),
           UNCHANGED <<tables, sent, stream, gone, piped>>
    PROVE  HttpInv'
<1> DEFINE k == req[c].k
           new == [k |-> k, by |-> sv]
           old == answers[c]
           l == IF req[c].kind.close \/ ~KeepAlive THEN "closed" ELSE "recv"
<1>1. /\ SessionInv(c) /\ req[c] \in Piece /\ k \in 1..sent[c] /\ k \in Nat
      /\ \A j \in 1..Len(stream[c]) : k < stream[c][j].k
      /\ \A q \in Answered(c) : q < k
  BY PieceTypes DEF HttpInv, SessionInv, ReadInv, MatchInv, OrderInv
<1>2. /\ new \in [k : Nat, by : Servlet] /\ l \in Labels
      /\ l \in {"closed", "recv"}
      /\ old \in Seq([k : Nat, by : Servlet]) /\ sent[c] \in Nat
      /\ Len(old) \in Nat
  BY <1>1, ClientTypes DEF HttpInv, Labels
<1>3. /\ answers' = [answers EXCEPT ![c] = Append(old, new)]
      /\ buffer' = [buffer EXCEPT ![c] = <<>>]
      /\ req' = [req EXCEPT ![c] = None]
      /\ stable' = [stable EXCEPT ![c] = {}] /\ GotoS(c, l)
  BY DEF Answer
<1> HIDE DEF l
<1>4. /\ session' \in [Clients -> Labels] /\ session'[c] = l
      /\ \A d \in Clients \ {c} : session'[d] = session[d]
  BY <1>2, <1>3, GoStep
<1>5. /\ buffer' \in [Clients -> Seq(Piece)] /\ buffer'[c] = <<>>
      /\ \A d \in Clients \ {c} : buffer'[d] = buffer[d]
  <2>1. <<>> \in Seq(Piece)
    OBVIOUS
  <2> QED BY <1>3, <2>1, BufferStep
<1>6. /\ req' \in [Clients -> Piece \cup {None}] /\ req'[c] = None
      /\ \A d \in Clients \ {c} : req'[d] = req[d]
  BY <1>3, ReqStep
<1>7. /\ stable' \in [Clients -> SUBSET Servlet] /\ stable'[c] = {}
      /\ \A d \in Clients \ {c} : stable'[d] = stable[d]
  BY <1>3 DEF HttpInv, HttpType
<1>8. /\ Append(old, new) \in Seq([k : Nat, by : Servlet])
      /\ Len(Append(old, new)) = Len(old) + 1
      /\ \A i \in 1..Len(old) : Append(old, new)[i] = old[i]
      /\ Append(old, new)[Len(old) + 1].k = k
  BY <1>2
<1>9. /\ answers' \in [Clients -> Seq([k : Nat, by : Servlet])]
      /\ answers'[c] = Append(old, new)
      /\ \A d \in Clients \ {c} : answers'[d] = answers[d]
  <2> HIDE DEF old, new
  <2> QED BY <1>3, <1>8 DEF HttpInv, HttpType
<1> HIDE DEF new
<1>10. HttpType'
  BY <1>4, <1>5, <1>6, <1>7, <1>9 DEF HttpInv, HttpType, tables
<1>11. /\ Len(answers'[c]) = Len(old) + 1
       /\ \A i \in 1..Len(old) : answers'[c][i] = old[i]
       /\ answers'[c][Len(old) + 1].k = k
  BY <1>8, <1>9
<1>12. \A q \in Answered(c)' : q \in Answered(c) \/ q = k
  <2>1. \A i \in 1..(Len(old) + 1) : i \in 1..Len(old) \/ i = Len(old) + 1
    BY <1>2
  <2> QED BY <1>11, <2>1 DEF Answered
<1>13. OrderInv(c)'
  <2>1. ASSUME NEW q \in Answered(c)'
        PROVE  /\ q \in 1..sent[c]
               /\ \A j \in 1..Len(stream[c]) : q < stream[c][j].k
    BY <1>1, <1>12 DEF SessionInv, OrderInv
  <2>2. ASSUME NEW i \in 1..Len(answers'[c]), NEW j \in 1..Len(answers'[c]),
               i < j
        PROVE  answers'[c][i].k < answers'[c][j].k
    <3>1. i \in 1..Len(old)
      BY <1>2, <1>11, <2>2
    <3>2. old[i].k \in Answered(c) /\ answers'[c][i] = old[i]
      BY <1>11, <3>1 DEF Answered
    <3>3. CASE j = Len(old) + 1
      BY <1>1, <1>11, <3>2, <3>3
    <3>4. CASE j \in 1..Len(old)
      BY <1>1, <1>11, <2>2, <3>1, <3>2, <3>4 DEF SessionInv, OrderInv
    <3> QED BY <1>2, <1>11, <3>3, <3>4
  <2> QED BY <1>2, <1>4, <1>5, <2>1, <2>2 DEF OrderInv
<1>14. PatientInv(c)'
  <2> SUFFICES ASSUME c \notin piped
               PROVE  /\ Len(answers'[c]) <= sent[c]
                      /\ sent[c] <= Len(answers'[c]) + 1
                      /\ \A i \in 1..Len(answers'[c]) : answers'[c][i].k = i
    BY DEF PatientInv
  <2>1. /\ Len(old) <= sent[c] /\ sent[c] <= Len(old) + 1
        /\ \A i \in 1..Len(old) : old[i].k = i
    BY <1>1 DEF SessionInv, PatientInv
  <2>2. k = Len(old) + 1
    <3>1. CASE Len(old) = 0
      BY <1>1, <1>2, <2>1, <3>1
    <3>2. CASE Len(old) # 0
      <4>1. Len(old) \in 1..Len(old)
        BY <1>2, <3>2
      <4>2. old[Len(old)].k \in Answered(c) /\ old[Len(old)].k = Len(old)
        BY <2>1, <4>1 DEF Answered
      <4>3. Len(old) < k
        BY <1>1, <4>2
      <4> QED BY <1>1, <1>2, <2>1, <4>3
    <3> QED BY <3>1, <3>2
  <2>3. \A i \in 1..Len(answers'[c]) : answers'[c][i].k = i
    <3>1. \A i \in 1..(Len(old) + 1) : i \in 1..Len(old) \/ i = Len(old) + 1
      BY <1>2
    <3> QED BY <1>11, <2>1, <2>2, <3>1
  <2> QED BY <1>1, <1>2, <1>11, <2>1, <2>2, <2>3
<1>15. SessionInv(c)'
  <2>1. RecvInv(c)' /\ QuietInv(c)'
    BY <1>2, <1>4, <1>5, <1>6, SessionAssumption DEF RecvInv, QuietInv
  <2> QED BY <1>1, <1>2, <1>4, <1>13, <1>14, <2>1
          DEF SessionInv, ReadInv, BodyInv, MatchInv, GlobInv
<1> QED BY <1>4, <1>5, <1>6, <1>7, <1>9, <1>10, <1>15, OneClient

LEMMA MatchStepInv ==
    ASSUME HttpInv, NEW c \in Clients, Match(c)
    PROVE  HttpInv'
<1> DEFINE uri == req[c].kind.uri
<1>1. /\ session[c] = "match" /\ UNCHANGED <<tables, sent, stream, gone, piped>>
      /\ SessionInv(c) /\ req[c] \in Piece /\ uri \in Uris /\ HttpType
  BY PieceTypes, RequestTypes DEF Match, HttpInv, SessionInv, ReadInv
<1>2. /\ Matched(uri) \in Servlet /\ Registered \subseteq Servlet
      /\ Matched(uri) = Default => Exact(uri) \notin Registered
  BY <1>1, ServletTypes
<1>3. CASE Answer(c, Matched(uri))
  BY <1>1, <1>2, <1>3, AnswerInv
<1>4. CASE /\ Matched(uri) = Default
           /\ stable' = [stable EXCEPT ![c] = Registered]
           /\ GotoS(c, "glob") /\ UNCHANGED <<buffer, req, answers>>
  <2>1. /\ session' \in [Clients -> Labels] /\ session'[c] = "glob"
        /\ \A d \in Clients \ {c} : session'[d] = session[d]
    BY <1>4, GoStep DEF Labels
  <2>2. /\ stable' \in [Clients -> SUBSET Servlet] /\ stable'[c] = Registered
        /\ \A d \in Clients \ {c} : stable'[d] = stable[d]
    BY <1>1, <1>2, <1>4 DEF HttpType
  <2>3. HttpType'
    BY <1>1, <1>4, <2>1, <2>2 DEF HttpType, tables
  <2>4. GlobInv(c)'
    <3>1. Registered' = Registered
      BY <1>1, SameTables
    <3> QED BY <1>2, <1>4, <2>2, <3>1 DEF GlobInv
  <2>5. OrderInv(c)'
    <3>1. Answered(c)' = Answered(c)
      BY <1>4 DEF Answered
    <3> QED BY <1>1, <1>4, <2>1, <3>1 DEF SessionInv, OrderInv
  <2>6. SessionInv(c)'
    BY <1>1, <1>4, <2>1, <2>4, <2>5
    DEF SessionInv, RecvInv, ReadInv, BodyInv, MatchInv, QuietInv, PatientInv
  <2> QED BY <1>1, <1>4, <2>1, <2>2, <2>3, <2>6, OneClient
<1> QED BY <1>3, <1>4 DEF Match

LEMMA MatchGlobInv ==
    ASSUME HttpInv, NEW c \in Clients, MatchGlob(c)
    PROVE  HttpInv'
<1> DEFINE uri == req[c].kind.uri
<1>1. /\ session[c] = "glob" /\ UNCHANGED <<tables, sent, stream, gone, piped>>
      /\ uri \in Uris /\ HttpType /\ Answer(c, Globbed(uri))
  BY PieceTypes, RequestTypes DEF MatchGlob, HttpInv, SessionInv, ReadInv
<1>2. Globbed(uri) \in Servlet
  BY <1>1, ServletTypes
<1> QED BY <1>1, <1>2, AnswerInv

-----------------------------------------------------------------------------
\* The tables, and the clients.
LEMMA WithoutType ==
    ASSUME globs \in Seq(Patterns), NEW p
    PROVE  Without(p) \in Seq(Patterns)
<1> DEFINE First(i) == globs[i] = p /\ \A j \in 1..(i - 1) : globs[j] # p
           at == CHOOSE i \in DOMAIN globs : First(i)
<1>1. CASE p \notin ToSet(globs)
  BY <1>1 DEF Without
<1>2. CASE p \in ToSet(globs)
  <2>1. PICK x \in {i \in DOMAIN globs : globs[i] = p} :
               \A y \in {i \in DOMAIN globs : globs[i] = p} : x <= y
    <3>1. {i \in DOMAIN globs : globs[i] = p} \in SUBSET Nat
      BY LenProperties
    <3>2. {i \in DOMAIN globs : globs[i] = p} # {}
      BY <1>2 DEF ToSet
    <3> QED BY <3>1, <3>2, LeastNat
  <2>2. x \in 1..Len(globs) /\ Len(globs) \in Nat
    BY <2>1, LenProperties
  <2>3. \A j \in 1..(x - 1) : globs[j] # p
    BY <2>1, <2>2
  <2>4. First(x)
    BY <2>1, <2>3
  <2> HIDE DEF First
  <2>5. at \in DOMAIN globs
    BY <2>1, <2>4
  <2>6. at \in 1..Len(globs)
    BY <2>5, LenProperties
  <2>7. Without(p) = RemoveAt(globs, at)
    BY <1>2 DEF Without, First
  <2> HIDE DEF at
  <2>8. RemoveAt(globs, at) \in Seq(Patterns)
    BY <2>2, <2>6 DEF RemoveAt
  <2> QED BY <2>7, <2>8
<1> QED BY <1>1, <1>2

LEMMA ReconfigureInv ==
    ASSUME HttpInv, Reconfigure
    PROVE  HttpInv'
<1>1. /\ EditTables /\ stable' = [c \in Clients |-> stable[c] \cap Registered']
      /\ UNCHANGED <<sent, stream, gone, session, buffer, req, answers, piped>>
  BY DEF Reconfigure
<1>2. globs \in Seq(Patterns) /\ datas \subseteq Uris
  BY DEF HttpInv, HttpType
<1>3. globs' \in Seq(Patterns) /\ datas' \subseteq Uris
  <2>1. CASE \E u \in Uris : AddServlet(u) \/ DelMatchedServlet(u)
    BY <1>2, <2>1 DEF AddServlet, DelMatchedServlet
  <2>2. CASE \E p \in Patterns : AddGlobServlet(p) \/ DelGlobServlet(p)
    <3>1. PICK p \in Patterns : AddGlobServlet(p) \/ DelGlobServlet(p)
      BY <2>2
    <3>2. Without(p) \in Seq(Patterns)
      BY <1>2, WithoutType
    <3> QED BY <1>2, <3>1, <3>2, AppendProperties
            DEF AddGlobServlet, DelGlobServlet
  <2> QED BY <1>1, <2>1, <2>2 DEF EditTables
<1>4. HttpType'
  BY <1>1, <1>3 DEF HttpInv, HttpType
<1>5. ASSUME NEW c \in Clients PROVE SessionInv(c)'
  <2>1. /\ SessionInv(c) /\ Answered(c)' = Answered(c)
        /\ stable'[c] = stable[c] \cap Registered'
    BY <1>1 DEF HttpInv, Answered
  <2>2. GlobInv(c)'
    BY <1>1, <2>1 DEF SessionInv, GlobInv
  <2> QED BY <1>1, <2>1, <2>2
          DEF SessionInv, RecvInv, ReadInv, BodyInv, MatchInv, QuietInv,
              OrderInv, PatientInv
<1> QED BY <1>4, <1>5 DEF HttpInv

LEMMA SendInv ==
    ASSUME HttpInv, NEW c \in Clients, NEW r \in Requests, Send(c, r)
    PROVE  HttpInv'
<1> DEFINE m == sent[c]
           s == stream[c]
           new == Pieces(m + 1, r)
           t == s \o new
<1>1. /\ SessionInv(c) /\ m \in Nat /\ s \in Seq(Piece) /\ StreamOf(s, m)
      /\ Len(s) \in Nat /\ Len(buffer[c]) \in Nat /\ Len(answers[c]) \in Nat
      /\ buffer[c] \in Seq(Piece)
  BY ClientTypes DEF HttpInv, SessionInv
<1>2. /\ sent' = [sent EXCEPT ![c] = m + 1]
      /\ piped' = IF Len(answers[c]) < m THEN piped \cup {c} ELSE piped
      /\ stream' = [stream EXCEPT ![c] = s \o Pieces(sent'[c], r)]
      /\ UNCHANGED <<tables, gone, session, buffer, req, stable, answers>>
  BY DEF Send
<1>3. /\ sent' \in [Clients -> Nat] /\ sent'[c] = m + 1
      /\ \A d \in Clients \ {c} : sent'[d] = sent[d]
  BY <1>1, <1>2 DEF HttpInv, HttpType
<1>4. /\ new \in Seq(Piece) /\ t \in Seq(Piece) /\ StreamOf(t, m + 1)
      /\ \A j \in 1..Len(t) : \/ j <= Len(s) /\ t[j] = s[j]
                              \/ j > Len(s) /\ t[j].k = m + 1
  BY <1>1, StreamSent
<1> HIDE DEF new, m
<1>5. stream' = [stream EXCEPT ![c] = t]
  BY <1>2, <1>3 DEF new
<1>6. \A k, q, n : q \in Requests /\ n \in Nat /\ RestOf(s, k, q, n)
                       => RestOf(t, k, q, n)
  <2> HIDE DEF s
  <2> QED BY <1>1, <1>4, RestSent
<1> HIDE DEF t
<1>7. /\ stream' \in [Clients -> Seq(Piece)] /\ stream'[c] = t
      /\ \A d \in Clients \ {c} : stream'[d] = stream[d]
  BY <1>4, <1>5 DEF HttpInv, HttpType
<1>8. HttpType'
  BY <1>2, <1>3, <1>7 DEF HttpInv, HttpType, tables
<1>9. \A d \in Clients \ {c} : d \in piped' <=> d \in piped
  BY <1>2
<1>10. \A k \in 1..m :
           /\ k \in 1..(m + 1)
           /\ (\A j \in 1..Len(s) : k < s[j].k)
                  => \A j \in 1..Len(t) : k < t[j].k
  <2> SUFFICES ASSUME NEW k \in 1..m
               PROVE  /\ k \in 1..(m + 1)
                      /\ (\A j \in 1..Len(s) : k < s[j].k)
                             => \A j \in 1..Len(t) : k < t[j].k
    OBVIOUS
  <2>1. k \in 1..(m + 1) /\ k < m + 1
    BY <1>1
  <2>2. ASSUME \A j \in 1..Len(s) : k < s[j].k, NEW j \in 1..Len(t)
        PROVE  k < t[j].k
    <3>1. CASE j <= Len(s) /\ t[j] = s[j]
      BY <2>2, <3>1
    <3>2. CASE t[j].k = m + 1
      BY <2>1, <3>2
    <3> QED BY <1>4, <3>1, <3>2
  <2> QED BY <2>1, <2>2
<1>11. RecvInv(c)'
  <2> SUFFICES ASSUME session[c] = "recv"
               PROVE  RecvInv(c)'
    BY <1>2 DEF RecvInv
  <2>1. /\ req[c] = None /\ Len(buffer[c]) < BufLen
        /\ buffer[c] # <<>> =>
               /\ buffer[c][1].k \in 1..m
               /\ Len(buffer[c]) < buffer[c][1].kind.head
               /\ PartOf(buffer[c], buffer[c][1].k, buffer[c][1].kind, 0)
               /\ RestOf(s, buffer[c][1].k, buffer[c][1].kind, Len(buffer[c]))
    BY <1>1 DEF SessionInv, RecvInv, m
  <2>2. ASSUME buffer[c] # <<>>
        PROVE  /\ buffer[c][1].k \in 1..(m + 1)
               /\ RestOf(t, buffer[c][1].k, buffer[c][1].kind, Len(buffer[c]))
    <3>1. buffer[c][1] \in Piece
      BY <1>1, <2>2
    <3>2. buffer[c][1].kind \in Requests
      BY <3>1, PieceTypes
    <3> QED BY <1>1, <1>6, <1>10, <2>1, <2>2, <3>2
  <2> QED BY <1>2, <1>3, <1>7, <2>1, <2>2 DEF RecvInv
<1>12. ReadInv(c)' /\ BodyInv(c)' /\ MatchInv(c)'
  <2> SUFFICES ASSUME session[c] \in {"body", "match", "glob"}
               PROVE  ReadInv(c)' /\ BodyInv(c)' /\ MatchInv(c)'
    BY <1>2 DEF ReadInv, BodyInv, MatchInv
  <2>1. /\ req[c] \in Piece /\ req[c].k \in 1..m
        /\ PartOf(buffer[c], req[c].k, req[c].kind, req[c].kind.head)
    BY <1>1 DEF SessionInv, ReadInv, m
  <2>2. req[c].kind \in Requests /\ req[c].kind.head \in Nat
    BY <2>1, PieceTypes, RequestTypes
  <2>3. ReadInv(c)'
    BY <1>2, <1>3, <1>10, <2>1 DEF ReadInv
  <2>4. BodyInv(c)'
    <3> SUFFICES ASSUME session[c] = "body"
                 PROVE  /\ Len(buffer[c]) < req[c].kind.len
                        /\ RestOf(t, req[c].k, req[c].kind,
                                  req[c].kind.head + Len(buffer[c]))
      BY <1>2, <1>7 DEF BodyInv
    <3>1. /\ Len(buffer[c]) < req[c].kind.len
          /\ RestOf(s, req[c].k, req[c].kind,
                    req[c].kind.head + Len(buffer[c]))
      BY <1>1 DEF SessionInv, BodyInv
    <3>2. req[c].kind.head + Len(buffer[c]) \in Nat
      BY <1>1, <2>2
    <3> QED BY <1>6, <2>2, <3>1, <3>2
  <2>5. MatchInv(c)'
    BY <1>1, <1>2, <1>7, <1>10, <2>1 DEF SessionInv, MatchInv
  <2> QED BY <2>3, <2>4, <2>5
<1>13. OrderInv(c)'
  <2>1. Answered(c)' = Answered(c)
    BY <1>2 DEF Answered
  <2>2. \A k \in Answered(c) : /\ k \in 1..(m + 1)
                               /\ \A j \in 1..Len(t) : k < t[j].k
    BY <1>1, <1>10 DEF SessionInv, OrderInv, m
  <2> QED BY <1>1, <1>2, <1>3, <1>7, <2>1, <2>2 DEF SessionInv, OrderInv
<1>14. PatientInv(c)'
  <2> SUFFICES ASSUME c \notin piped'
               PROVE  /\ Len(answers[c]) <= m + 1
                      /\ m + 1 <= Len(answers[c]) + 1
                      /\ \A i \in 1..Len(answers[c]) : answers[c][i].k = i
    BY <1>2, <1>3 DEF PatientInv
  <2>1. c \notin piped /\ ~(Len(answers[c]) < m)
    BY <1>2
  <2>2. /\ Len(answers[c]) <= m
        /\ \A i \in 1..Len(answers[c]) : answers[c][i].k = i
    BY <1>1, <2>1 DEF SessionInv, PatientInv, m
  <2> QED BY <1>1, <2>1, <2>2
<1>15. SessionInv(c)'
  <2>1. Registered' = Registered
    BY <1>2, SameTables
  <2> QED BY <1>1, <1>2, <1>3, <1>4, <1>7, <1>11, <1>12, <1>13, <1>14, <2>1
          DEF SessionInv, QuietInv, GlobInv
<1> QED BY <1>2, <1>3, <1>7, <1>8, <1>9, <1>15, OneClient

LEMMA SameHttp ==
    ASSUME HttpInv,
           UNCHANGED <<tables, sent, stream, session, buffer, req, stable,
                       answers, piped>>
    PROVE  HttpInv'
<1>1. HttpType'
  BY DEF HttpInv, HttpType, tables
<1>2. ASSUME NEW d \in Clients PROVE SessionInv(d)'
  BY OtherClients DEF HttpInv
<1> QED BY <1>1, <1>2 DEF HttpInv

LEMMA NextHttp ==
    ASSUME HttpInv, [Next]_vars
    PROVE  HttpInv'
<1>1. CASE UNCHANGED vars
  BY <1>1, SameHttp DEF vars, httpVars
<1>2. ASSUME NEW c \in Clients, SessionStep(c) PROVE HttpInv'
  <2>1. CASE HandleClient(c)
    BY <2>1, HandleClientInv
  <2>2. CASE RecvFails(c)
    BY <2>2, RecvEndsInv DEF RecvFails
  <2>3. CASE Match(c)
    BY <2>3, MatchStepInv
  <2>4. CASE MatchGlob(c)
    BY <2>4, MatchGlobInv
  <2>5. ASSUME NEW n \in 1..BufLen, Recv(c, n) PROVE HttpInv'
    <3>1. n \in Nat
      BY SessionAssumption
    <3> QED BY <2>5, <3>1, RecvStepInv
  <2>6. ASSUME NEW n, RecvBody(c, n) PROVE HttpInv'
    BY <2>6, RecvBodyInv
  <2> QED BY <1>2, <2>1, <2>2, <2>3, <2>4, <2>5, <2>6 DEF SessionStep
<1>3. ASSUME NEW c \in Clients, Leave(c) PROVE HttpInv'
  BY <1>3, SameHttp DEF Leave
<1>4. ASSUME NEW c \in Clients, NEW r \in Requests, Send(c, r) PROVE HttpInv'
  BY <1>4, SendInv
<1>5. CASE Reconfigure
  BY <1>5, ReconfigureInv
<1>6. ASSUME NEW c \in Clients, RecvTimesOut(c) PROVE HttpInv'
  BY <1>6, RecvEndsInv DEF RecvTimesOut
<1> QED BY <1>1, <1>2, <1>3, <1>4, <1>5, <1>6 DEF Next

THEOREM HttpInvariant == Spec => []HttpInv
<1>1. HttpInv /\ [Next]_vars => HttpInv'
  BY NextHttp
<1> QED BY <1>1, InitHttp, PTL DEF Spec

-----------------------------------------------------------------------------
LEMMA HttpTypeOK == HttpInv => TypeOK
<1> SUFFICES ASSUME HttpInv PROVE TypeOK
  OBVIOUS
<1>1. ASSUME NEW c \in Clients
      PROVE  Len(buffer[c]) <= IF req[c] = None THEN BufLen - 1
                               ELSE req[c].kind.len
  <2>1. SessionInv(c) /\ session[c] \in Labels /\ Len(buffer[c]) \in Nat
    BY ClientTypes DEF HttpInv
  <2>2. CASE session[c] = "none"
    BY <2>1, <2>2, SessionAssumption DEF SessionInv, QuietInv
  <2>3. CASE session[c] = "recv"
    BY <2>1, <2>3, SessionAssumption DEF SessionInv, RecvInv
  <2>4. CASE session[c] \in {"body", "match", "glob"}
    <3>1. req[c] \in Piece
      BY <2>1, <2>4 DEF SessionInv, ReadInv
    <3>2. req[c] # None /\ req[c].kind.len \in Nat
      BY <3>1, PieceTypes, RequestTypes
    <3>3. Len(buffer[c]) <= req[c].kind.len
      BY <2>1, <2>4, <3>2 DEF SessionInv, BodyInv, MatchInv
    <3> QED BY <3>2, <3>3
  <2>5. CASE session[c] = "closed"
    BY <2>1, <2>5 DEF SessionInv, QuietInv
  <2> QED BY <2>1, <2>2, <2>3, <2>4, <2>5 DEF Labels
<1> QED BY <1>1 DEF HttpInv, HttpType, TypeOK, Labels

LEMMA HttpBodyExact == HttpInv => BodyExact
<1> SUFFICES ASSUME HttpInv, NEW c \in Clients,
                    session[c] \in {"match", "glob"}
             PROVE  LET r == req[c].kind
                    IN  buffer[c] = SubSeq(Pieces(req[c].k, r),
                                           r.head + 1, r.head + r.len)
  BY DEF BodyExact
<1> DEFINE r    == req[c].kind
           k    == req[c].k
           b    == buffer[c]
           all  == Pieces(k, r)
           head == r.head
           len  == r.len
<1>1. /\ req[c] \in Piece /\ PartOf(b, k, r, head) /\ Len(b) = len
  BY DEF HttpInv, SessionInv, ReadInv, MatchInv
<1>2. /\ r \in Requests /\ head \in Nat /\ len \in Nat /\ k \in Nat
      /\ b \in Seq(Piece)
  BY <1>1, PieceTypes, RequestTypes, ClientTypes DEF HttpInv
<1>3. all = [i \in 1..(head + len) |-> PieceOf(k, r, i)]
  BY DEF Pieces, PieceOf
<1>4. \A i \in 1..(head + len) : PieceOf(k, r, i) \in Piece
  BY <1>2 DEF PieceOf, Piece
<1> HIDE DEF all, head, len, b, k, r
<1>5. /\ all \in Seq(Piece) /\ Len(all) = head + len
      /\ \A i \in 1..(head + len) : all[i] = PieceOf(k, r, i)
  BY <1>2, <1>3, <1>4
<1>6. \A j \in 1..len : head + j \in 1..(head + len)
  BY <1>2
<1> DEFINE cut == SubSeq(all, head + 1, head + len)
<1>7. /\ cut \in Seq(Piece) /\ Len(cut) = len
      /\ \A j \in 1..len : cut[j] = all[head + j]
  BY <1>2, <1>5, Cut
<1> HIDE DEF cut
<1>8. \A j \in 1..len : b[j] = cut[j]
  BY <1>1, <1>5, <1>6, <1>7 DEF PartOf
<1>9. b = cut
  BY <1>1, <1>2, <1>7, <1>8, SeqEqual
<1> QED BY <1>9 DEF cut, all, head, len, b, k, r

\* However the stream of a client is cut into reads, and whatever the client sends
\* behind a request, the servlet has exactly the body of its request, and no read
\* goes past the end of its buffer (HttpSession.cc:44-99).
THEOREM SessionsAreExact == Spec => []SessionsExact
<1>1. HttpInv => SessionsExact
  BY HttpTypeOK, HttpBodyExact DEF SessionsExact
<1> QED BY <1>1, HttpInvariant, PTL

\* The loop of handleClient answers the requests of a connection in their order
\* and none of them twice, and all that were sent if the client waits for each
\* answer (HttpServer.cc:25-39).
THEOREM AnswersAreInOrder == Spec => []AnsweredInOrder
<1>1. HttpInv => AnsweredInOrder
  <2> SUFFICES ASSUME HttpInv, NEW c \in Clients
               PROVE  /\ \A i, j \in DOMAIN answers[c] :
                             i < j => answers[c][i].k < answers[c][j].k
                      /\ c \notin piped =>
                             \A i \in DOMAIN answers[c] : answers[c][i].k = i
    BY DEF AnsweredInOrder
  <2>1. DOMAIN answers[c] = 1..Len(answers[c])
    BY ClientTypes, LenProperties DEF HttpInv
  <2> QED BY <2>1 DEF HttpInv, SessionInv, OrderInv, PatientInv
<1> QED BY <1>1, HttpInvariant, PTL

-----------------------------------------------------------------------------
\* Nobody but the session itself answers.
LEMMA OwnAnswer ==
    ASSUME HttpInv, [Next]_vars, NEW c \in Clients, session[c] = "glob",
           answers'[c] # answers[c]
    PROVE  MatchGlob(c)
<1>1. ASSUME NEW d \in Clients, NEW sv, Answer(d, sv), d # c PROVE FALSE
  BY <1>1 DEF Answer, HttpInv, HttpType
<1>2. ~ UNCHANGED answers
  OBVIOUS
<1>3. ASSUME NEW d \in Clients, SessionStep(d) PROVE MatchGlob(c)
  <2>1. ASSUME Match(d) PROVE FALSE
    <3>1. d # c
      BY <2>1 DEF Match
    <3> QED BY <1>1, <1>2, <2>1, <3>1 DEF Match
  <2>2. ASSUME MatchGlob(d) PROVE d = c
    BY <1>1, <2>2 DEF MatchGlob
  <2>3. ~ HandleClient(d) /\ ~ RecvFails(d)
    BY <1>2 DEF HandleClient, RecvFails, RecvEnds
  <2>4. \A n : ~ Recv(d, n) /\ ~ RecvBody(d, n)
    BY <1>2 DEF Recv, RecvBody
  <2> QED BY <1>3, <2>1, <2>2, <2>3, <2>4 DEF SessionStep
<1>4. /\ ~ UNCHANGED vars /\ ~ Reconfigure
      /\ \A d \in Clients :
             ~ RecvTimesOut(d) /\ ~ Leave(d) /\ \A r \in Requests : ~ Send(d, r)
  BY <1>2 DEF vars, httpVars, Reconfigure, Leave, Send, RecvTimesOut, RecvEnds
<1> QED BY <1>3, <1>4 DEF Next

\* A servlet that is registered from the beginning to the end of getServlet is
\* found, although getServlet lets go of the lock between its two searches
\* (HttpServlet.cc:40-60).
THEOREM ServletsAreFound == Spec => Found
<1>1. HttpInv /\ [Next]_vars =>
        [\A c \in Clients :
             session[c] = "glob" /\ answers'[c] # answers[c] => FoundIn(c)]_vars
  <2> SUFFICES ASSUME HttpInv, [Next]_vars, NEW c \in Clients,
                      session[c] = "glob", answers'[c] # answers[c]
               PROVE  FoundIn(c)
    OBVIOUS
  <2> DEFINE uri == req[c].kind.uri
             fit == {s \in stable[c] : s[1] = "glob" /\ <<s[2], uri>> \in Matches}
             hit == {i \in DOMAIN globs : <<globs[i], uri>> \in Matches}
  <2>1. /\ SessionInv(c) /\ HttpType /\ req[c] \in Piece /\ uri \in Uris
        /\ globs \in Seq(Patterns)
    BY PieceTypes, RequestTypes DEF HttpInv, HttpType, SessionInv, ReadInv
  <2>2. stable[c] \subseteq Registered /\ Exact(uri) \notin stable[c]
    BY <2>1 DEF SessionInv, GlobInv
  <2>3. ASSUME fit # {} PROVE Globbed(uri) # Default
    <3>1. PICK s \in stable[c] : s[1] = "glob" /\ <<s[2], uri>> \in Matches
      BY <2>3
    <3>2. PICK i \in DOMAIN globs : s = Glob(globs[i])
      <4>1. \A u \in datas : Exact(u)[1] # "glob"
        BY DEF Exact
      <4> QED BY <2>2, <3>1, <4>1 DEF Registered, ToSet
    <3>3. i \in hit
      BY <3>1, <3>2 DEF Glob
    <3>4. \E j \in hit : Globbed(uri) = Glob(globs[j])
      BY <2>1, <3>3, GlobbedFits
    <3> QED BY <3>4 DEF Glob, Default
  <2>4. Last(answers'[c]).by = Globbed(uri)
    <3> DEFINE new == [k |-> req[c].k, by |-> Globbed(uri)]
    <3>1. Answer(c, Globbed(uri))
      BY OwnAnswer DEF MatchGlob
    <3>2. /\ Globbed(uri) \in Servlet /\ req[c].k \in Nat
          /\ answers[c] \in Seq([k : Nat, by : Servlet])
      BY <2>1, ServletTypes, PieceTypes, ClientTypes
    <3>3. new \in [k : Nat, by : Servlet]
      BY <3>2
    <3>4. answers'[c] = Append(answers[c], new)
      BY <3>1, <3>2 DEF Answer, HttpType, HttpInv
    <3>5. new.by = Globbed(uri)
      OBVIOUS
    <3> HIDE DEF new
    <3>6. Last(Append(answers[c], new)) = new
      BY <3>2, <3>3 DEF Last
    <3> QED BY <3>4, <3>5, <3>6
  <2> QED BY <2>2, <2>3, <2>4 DEF FoundIn
<1> QED BY <1>1, HttpInvariant, PTL DEF Spec, Found

-----------------------------------------------------------------------------
(* TcpServer *)

LoopLabels == {"none", "queued", "check", "accept", "register", "waiting",
               "woken", "retry", "done"}
StopLabels == {"none", "queued", "cancel", "mark", "close", "reset", "done"}

ServerType ==
    /\ threads \in 1..MaxThreads /\ isStop \in BOOLEAN
    /\ socks \in Seq(Listeners) /\ listening \subseteq Listeners
    /\ closing \subseteq Listeners /\ valid \subseteq Listeners
    /\ starts \in 0..MaxStarts /\ stops \in 0..MaxStarts
    /\ loop \in [Loops -> LoopLabels]
    /\ stopper \in [Stoppers -> [at : StopLabels, i : Nat \ {0}]]
    /\ knocking \in [Listeners -> 0..MaxClients]
    /\ late \in [Loops -> Nat]
    /\ twice \in BOOLEAN /\ wild \in BOOLEAN

\* Before the first start nothing runs; the n-th stop has made the n-th lambda.
CallsInv ==
    /\ starts = 0 => isStop /\ stops = 0 /\ \A t \in Loops : loop[t] = "none"
    /\ \A s \in Stoppers : s <= stops <=> stopper[s].at # "none"
    /\ \A s \in Stoppers : stopper[s].at \in {"none", "queued"}
                               => stopper[s].i = 1

\* The sockets before the index of a lambda are closed, and so is the one whose
\* m_sockfd it is about to reset.
ClosedInv ==
    /\ listening \subseteq ToSet(socks) \cap valid
    /\ \A s \in Iterating : stopper[s].at = "reset" => Current(s) \notin listening
    /\ \A s \in Stoppers, k \in DOMAIN socks :
           k < stopper[s].i => socks[k] \notin listening
    /\ \A s \in Stoppers : stopper[s].at = "done" => socks = <<>>
    /\ socks # <<>> => \A s \in Stoppers : stopper[s].i <= Len(socks) + 1

\* A loop that has accepted a client after stop is on its way out.
LateInv ==
    \A t \in Loops :
        /\ late[t] <= 1 /\ (~isStop => late[t] = 0)
        /\ late[t] # 0 => loop[t] \in {"check", "done"}

\* What a single thread of the accept worker is in the middle of; while it
\* closes a socket no loop waits for that socket.
BusyLoops    == {t \in Loops : loop[t] \notin Off}
BusyStoppers == {s \in Stoppers : stopper[s].at \notin Off}
Alone ==
    /\ \A t, u \in BusyLoops : t = u
    /\ \A r, s \in BusyStoppers : r = s
    /\ BusyLoops = {} \/ BusyStoppers = {}
WaitInv ==
    /\ \A t \in Loops : loop[t] = "waiting" => t.sock \in listening
    /\ \A s \in Stoppers, t \in Loops :
           /\ stopper[s].at = "close" /\ stopper[s].i <= Len(socks)
           /\ loop[t] = "waiting"
           => t.sock # Current(s)

\* A number is closed once: m_sockfd lags behind the system's close only while the
\* lambda that closed is about to reset it.
OnceInv ==
    /\ ~twice
    /\ \A l \in valid \ listening :
           \E s \in Iterating : stopper[s].at = "reset" /\ l = Current(s)
    /\ \A s \in Iterating : stopper[s].at = "close" => Current(s) \in listening

OneThreadInv == threads = 1 => Alone /\ WaitInv /\ OnceInv

ServerInv == ServerType /\ CallsInv /\ ClosedInv /\ LateInv /\ OneThreadInv

-----------------------------------------------------------------------------
LEMMA InitServer == TcpInit => ServerInv
<1> SUFFICES ASSUME TcpInit PROVE ServerInv
  OBVIOUS
<1>1. ServerType
  <2>1. knocking \in [Listeners -> 0..MaxClients]
    BY ServerAssumption DEF TcpInit
  <2>2. loop \in [Loops -> LoopLabels]
        /\ stopper \in [Stoppers -> [at : StopLabels, i : Nat \ {0}]]
    BY DEF TcpInit, LoopLabels, StopLabels
  <2>3. starts \in 0..MaxStarts /\ stops \in 0..MaxStarts
    BY ServerAssumption DEF TcpInit
  <2>4. isStop \in BOOLEAN /\ twice \in BOOLEAN /\ wild \in BOOLEAN
    BY DEF TcpInit
  <2>5. /\ threads \in 1..MaxThreads /\ late \in [Loops -> Nat]
        /\ socks \in Seq(Listeners) /\ listening \subseteq Listeners
        /\ closing \subseteq Listeners /\ valid \subseteq Listeners
    BY DEF TcpInit
  <2> QED BY <2>1, <2>2, <2>3, <2>4, <2>5 DEF ServerType
<1>2. CallsInv
  BY ServerAssumption DEF TcpInit, CallsInv, Stoppers
<1>3. ClosedInv
  BY DEF TcpInit, ClosedInv, Iterating, AtWork
<1>4. LateInv
  BY DEF TcpInit, LateInv
<1>5. OneThreadInv
  <2>1. BusyLoops = {} /\ BusyStoppers = {}
    BY DEF TcpInit, BusyLoops, BusyStoppers, Off
  <2> QED BY <2>1
          DEF TcpInit, OneThreadInv, Alone, WaitInv, OnceInv, Iterating, AtWork
<1> QED BY <1>1, <1>2, <1>3, <1>4, <1>5 DEF ServerInv

\* The invariant gives what the run checks.
LEMMA ServerInvIsExact == ServerInv => SocketsExact
<1> SUFFICES ASSUME ServerInv PROVE SocketsExact
  OBVIOUS
<1>1. TcpTypeOK
  <2>1. stopper \in [Stoppers -> [at : StopLabels, i : Nat]]
    BY DEF ServerInv, ServerType
  <2> QED BY <2>1
          DEF ServerInv, ServerType, ClosedInv, TcpTypeOK, LoopLabels, StopLabels
<1>2. AtMostOneLate
  BY DEF ServerInv, LateInv, AtMostOneLate
<1>3. StoppedIsClosed
  <2> SUFFICES ASSUME stops > 0,
                      \A s \in Stoppers : stopper[s].at \in {"none", "done"}
               PROVE  socks = <<>> /\ listening = {}
    BY DEF StoppedIsClosed
  <2>1. stops \in Stoppers /\ stops <= stops
    BY ServerAssumption DEF ServerInv, ServerType, Stoppers
  <2>2. stopper[stops].at = "done"
    BY <2>1 DEF ServerInv, CallsInv
  <2>3. socks = <<>>
    BY <2>1, <2>2 DEF ServerInv, ClosedInv
  <2> QED BY <2>3 DEF ServerInv, ClosedInv, ToSet
<1>4. NobodyWaitsForClosed
  BY DEF ServerInv, OneThreadInv, WaitInv, NobodyWaitsForClosed
<1>5. ClosedOnce
  BY DEF ServerInv, OneThreadInv, OnceInv, ClosedOnce
<1> QED BY <1>1, <1>2, <1>3, <1>4, <1>5 DEF SocketsExact

-----------------------------------------------------------------------------
\* The only thread is free only if nothing is in the middle of something.
LEMMA FreeIsIdle ==
    ASSUME ServerType, Alone, threads = 1, FreeThread
    PROVE  BusyLoops = {} /\ BusyStoppers = {}
<1>1. ASSUME NEW S, \A x, y \in S : x = y
      PROVE  Cardinality(S) \in Nat /\ (Cardinality(S) = 0 => S = {})
  <2>1. CASE S = {}
    BY <2>1, FS_EmptySet
  <2>2. ASSUME NEW x \in S
        PROVE  Cardinality(S) = 1
    <3>1. S = {x}
      BY <1>1
    <3> QED BY <3>1, FS_Singleton
  <2> QED BY <2>1, <2>2
<1>2. /\ Cardinality(BusyLoops) \in Nat
      /\ Cardinality(BusyLoops) = 0 => BusyLoops = {}
  BY <1>1 DEF Alone
<1>3. /\ Cardinality(BusyStoppers) \in Nat
      /\ Cardinality(BusyStoppers) = 0 => BusyStoppers = {}
  BY <1>1 DEF Alone
<1>4. Cardinality(BusyLoops) + Cardinality(BusyStoppers) < 1
  BY DEF FreeThread, BusyLoops, BusyStoppers
<1> QED BY <1>2, <1>3, <1>4

\* A busy thread goes on, becomes free, or a free one becomes busy.
LEMMA StaysAlone ==
    ASSUME ServerType, Alone, threads = 1,
           \/ BusyLoops' \subseteq BusyLoops /\ BusyStoppers' \subseteq BusyStoppers
           \/ /\ FreeThread
              /\ \/ BusyStoppers' = {} /\ \E t : BusyLoops' \subseteq {t}
                 \/ BusyLoops' = {} /\ \E s : BusyStoppers' \subseteq {s}
    PROVE  Alone'
BY DEF Alone

-----------------------------------------------------------------------------
\* What every step of an accept loop has in common.
LEMMA LoopMove ==
    ASSUME ServerInv, NEW t \in Loops, NEW l \in LoopLabels, GotoLoop(t, l),
           UNCHANGED <<life, fds, stopper>>,
           loop[t] \notin {"none", "done"},
           loop[t] \notin Off \/ l \in Off \/ FreeThread,
           l = "waiting" => loop[t] = "register" /\ t.sock \in listening
    PROVE  /\ loop' \in [Loops -> LoopLabels]
           /\ loop'[t] = l /\ \A u \in Loops \ {t} : loop'[u] = loop[u]
           /\ CallsInv' /\ ClosedInv' /\ OneThreadInv'
<1>1. /\ loop' \in [Loops -> LoopLabels]
      /\ loop'[t] = l /\ \A u \in Loops \ {t} : loop'[u] = loop[u]
  BY DEF ServerInv, ServerType, GotoLoop
<1>2. CallsInv'
  BY DEF ServerInv, CallsInv, life
<1>3. ClosedInv'
  BY DEF ServerInv, ClosedInv, Iterating, AtWork, Current, life, fds
<1>4. ASSUME threads = 1 PROVE Alone' /\ WaitInv' /\ OnceInv'
  <2>1. Alone /\ WaitInv /\ OnceInv
    BY <1>4 DEF ServerInv, OneThreadInv
  <2>2. BusyStoppers' = BusyStoppers
    BY DEF BusyStoppers
  <2>o. OnceInv'
    BY <2>1 DEF OnceInv, Iterating, AtWork, Current, life, fds
  <2>3. CASE loop[t] \notin Off \/ l \in Off
    <3>1. BusyLoops' \subseteq BusyLoops
      BY <1>1, <2>3 DEF BusyLoops
    <3>2. Alone'
      BY <1>4, <2>1, <2>2, <3>1, StaysAlone DEF ServerInv
    <3>3. l = "waiting" => BusyStoppers = {}
      BY <2>1 DEF Alone, BusyLoops, Off
    <3>4. \A s \in Stoppers : stopper[s].at = "close" => s \in BusyStoppers
      BY DEF BusyStoppers, Off
    <3> QED BY <1>1, <2>1, <2>o, <3>2, <3>3, <3>4 DEF WaitInv, Current, life, fds
  <2>4. CASE FreeThread /\ l \notin Off
    <3>1. BusyLoops = {} /\ BusyStoppers = {}
      BY <1>4, <2>1, <2>4, FreeIsIdle DEF ServerInv
    <3>2. BusyLoops' \subseteq {t}
      BY <1>1, <3>1 DEF BusyLoops
    <3>3. Alone'
      BY <1>4, <2>1, <2>2, <2>4, <3>1, <3>2, StaysAlone DEF ServerInv
    <3>4. l # "waiting"
      BY <2>4 DEF Off
    <3> QED BY <1>1, <2>1, <2>o, <3>3, <3>4 DEF WaitInv, Current, life, fds
  <2> QED BY <2>3, <2>4
<1>5. OneThreadInv'
  BY <1>4 DEF OneThreadInv, life
<1> QED BY <1>1, <1>2, <1>3, <1>5

LEMMA LoopInv ==
    ASSUME ServerInv, NEW t \in Loops, LoopStep(t)
    PROVE  ServerInv'
<1> DEFINE Same == /\ UNCHANGED <<life, fds, stopper, knocking>>
                   /\ loop[t] \notin {"none", "done"}
<1>1. ASSUME NEW l \in LoopLabels, GotoLoop(t, l), Same,
             loop[t] \notin Off \/ l \in Off \/ FreeThread,
             l = "waiting" => loop[t] = "register" /\ t.sock \in listening,
             IF loop[t] = "check" /\ isStop
             THEN l = "done" /\ late' = [late EXCEPT ![t] = 0]
             ELSE UNCHANGED late
      PROVE  ServerInv'
  <2>1. /\ loop' \in [Loops -> LoopLabels]
        /\ loop'[t] = l /\ \A u \in Loops \ {t} : loop'[u] = loop[u]
        /\ CallsInv' /\ ClosedInv' /\ OneThreadInv'
    BY <1>1, LoopMove
  <2>2. late' \in [Loops -> Nat]
    BY <1>1 DEF ServerInv, ServerType
  <2>3. UNCHANGED <<threads, isStop, socks, starts, stops, wild, listening, closing, valid,
                    twice, stopper, knocking>>
    BY <1>1 DEF life, fds
  <2>4. ServerType'
    BY <2>1, <2>2, <2>3 DEF ServerInv, ServerType
  <2>5. LateInv'
    BY <1>1, <2>1 DEF ServerInv, ServerType, LateInv, life
  <2> QED BY <2>1, <2>4, <2>5 DEF ServerInv
<1>2. CASE RunLoop(t)
  BY <1>1, <1>2 DEF RunLoop, LoopLabels
<1>3. CASE Check(t)
  <2>1. ~isStop => late' = late
    BY <1>3 DEF Check, ServerInv, ServerType
  <2> QED BY <1>1, <1>3, <2>1 DEF Check, LoopLabels, Off
<1>4. CASE AcceptFails(t) \/ AcceptAgain(t)
  BY <1>1, <1>4 DEF AcceptFails, AcceptAgain, LoopLabels, Off
<1>5. CASE Register(t)
  BY <1>1, <1>5 DEF Register, LoopLabels, Off
<1>6. CASE Readable(t)
  BY <1>1, <1>6 DEF Readable, LoopLabels, Off
<1>7. CASE AcceptClient(t)
  <2>1. /\ loop[t] \in {"accept", "retry"} /\ knocking[t.sock] > 0
        /\ knocking' = [knocking EXCEPT ![t.sock] = @ - 1]
        /\ late' = [late EXCEPT ![t] = IF isStop THEN @ + 1 ELSE @]
        /\ GotoLoop(t, "check")
        /\ UNCHANGED <<life, fds, stopper>>
    BY <1>7 DEF AcceptClient
  <2>2. "check" \in LoopLabels /\ {"accept", "retry"} \cap Off = {}
    BY DEF LoopLabels, Off
  <2>3. /\ loop' \in [Loops -> LoopLabels]
        /\ loop'[t] = "check" /\ \A u \in Loops \ {t} : loop'[u] = loop[u]
        /\ CallsInv' /\ ClosedInv' /\ OneThreadInv'
    BY <2>1, <2>2, LoopMove DEF Off
  <2>4. t.sock \in Listeners
    BY DEF Loops
  <2>5. knocking' \in [Listeners -> 0..MaxClients]
    BY <2>1, <2>4, ServerAssumption DEF ServerInv, ServerType
  <2>6. late[t] = 0
    BY <2>1 DEF ServerInv, LateInv
  <2>7. late' \in [Loops -> Nat] /\ LateInv'
    BY <2>1, <2>3, <2>6 DEF ServerInv, ServerType, LateInv, life
  <2>8. ServerType'
    BY <2>1, <2>3, <2>5, <2>7 DEF ServerInv, ServerType, life, fds
  <2> QED BY <2>3, <2>7, <2>8 DEF ServerInv
<1>8. CASE AcceptDrops(t)
  <2>1. /\ loop[t] \in {"accept", "retry"} /\ knocking[t.sock] > 0
        /\ knocking' = [knocking EXCEPT ![t.sock] = @ - 1]
        /\ GotoLoop(t, "check")
        /\ UNCHANGED <<life, fds, stopper, late>>
    BY <1>8 DEF AcceptDrops
  <2>2. "check" \in LoopLabels /\ {"accept", "retry"} \cap Off = {}
    BY DEF LoopLabels, Off
  <2>3. /\ loop' \in [Loops -> LoopLabels]
        /\ loop'[t] = "check" /\ \A u \in Loops \ {t} : loop'[u] = loop[u]
        /\ CallsInv' /\ ClosedInv' /\ OneThreadInv'
    BY <2>1, <2>2, LoopMove DEF Off
  <2>4. t.sock \in Listeners
    BY DEF Loops
  <2>5. knocking' \in [Listeners -> 0..MaxClients]
    BY <2>1, <2>4, ServerAssumption DEF ServerInv, ServerType
  <2>6. LateInv'
    BY <2>1, <2>3 DEF ServerInv, LateInv, life
  <2>7. ServerType'
    BY <2>1, <2>3, <2>5 DEF ServerInv, ServerType, life, fds
  <2> QED BY <2>3, <2>6, <2>7 DEF ServerInv
<1> QED BY <1>2, <1>3, <1>4, <1>5, <1>6, <1>7, <1>8 DEF LoopStep

-----------------------------------------------------------------------------
\* Waking loops makes none busy and none wait.
LEMMA Woken ==
    ASSUME ServerInv, NEW k \in Listeners, CancelAll(k)
    PROVE  /\ loop' \in [Loops -> LoopLabels]
           /\ \A t \in Loops : loop'[t] = loop[t]
                               \/ (loop[t] = "waiting" /\ loop'[t] = "woken")
           /\ \A t \in Loops : loop'[t] = "waiting" => t.sock # k
           /\ BusyLoops' = BusyLoops
<1>1. loop \in [Loops -> LoopLabels]
  BY DEF ServerInv, ServerType
<1>2. /\ loop' \in [Loops -> LoopLabels]
      /\ \A t \in Loops : loop'[t] = loop[t]
                          \/ (loop[t] = "waiting" /\ loop'[t] = "woken")
      /\ \A t \in Loops : loop'[t] = "waiting" => t.sock # k
  BY <1>1 DEF CancelAll, LoopLabels
<1>3. BusyLoops' = BusyLoops
  BY <1>2 DEF BusyLoops, Off
<1> QED BY <1>2, <1>3

\* A lambda that goes through m_socks holds a thread.
LEMMA IteratingIsBusy == ServerInv => Iterating \subseteq BusyStoppers
BY DEF ServerInv, ServerType, StopLabels, Iterating, AtWork, BusyStoppers, Off

LEMMA StopInv ==
    ASSUME ServerInv, NEW s \in Stoppers, StopStep(s)
    PROVE  ServerInv'
<1>s. /\ stopper[s].at \in StopLabels /\ stopper[s].i \in Nat \ {0}
      /\ stopper[s] = [at |-> stopper[s].at, i |-> stopper[s].i]
  BY DEF ServerInv, ServerType
<1>l. socks \in Seq(Listeners) /\ Len(socks) \in Nat
      /\ DOMAIN socks = 1..Len(socks)
  BY DEF ServerInv, ServerType
<1>c. stopper[s].i <= Len(socks) => /\ Current(s) \in Listeners
                                    /\ stopper[s].i \in DOMAIN socks
                                    /\ socks # <<>>
  BY <1>s, <1>l DEF Current
<1>g. ASSUME NEW at, GotoStop(s, at)
      PROVE  stopper' = [stopper EXCEPT ![s] = [at |-> at, i |-> stopper[s].i]]
  <2>1. [stopper[s] EXCEPT !.at = at] = [at |-> at, i |-> stopper[s].i]
    BY <1>s
  <2>2. stopper' = [stopper EXCEPT ![s] = [stopper[s] EXCEPT !.at = at]]
    BY <1>g DEF GotoStop
  <2> QED BY <2>1, <2>2
\* A lambda goes on to another step, and m_socks stays.
<1>1. ASSUME NEW at \in StopLabels, NEW i \in Nat \ {0},
             stopper' = [stopper EXCEPT ![s] = [at |-> at, i |-> i]],
             UNCHANGED <<life, late>>,
             loop' \in [Loops -> LoopLabels],
             \A t \in Loops : loop'[t] = loop[t]
                              \/ (loop[t] = "waiting" /\ loop'[t] = "woken"),
             stopper[s].at \notin Off \/ FreeThread,
             at \notin {"none", "done"}, stopper[s].at \notin {"none", "done"},
             at = "queued" => i = 1
      PROVE  /\ stopper' \in [Stoppers -> [at : StopLabels, i : Nat \ {0}]]
             /\ stopper'[s] = [at |-> at, i |-> i]
             /\ \A r \in Stoppers \ {s} : stopper'[r] = stopper[r]
             /\ CallsInv' /\ LateInv' /\ (threads = 1 => Alone')
  <2>1. /\ stopper' \in [Stoppers -> [at : StopLabels, i : Nat \ {0}]]
        /\ stopper'[s] = [at |-> at, i |-> i]
        /\ \A r \in Stoppers \ {s} : stopper'[r] = stopper[r]
    BY <1>1 DEF ServerInv, ServerType
  <2>2. CallsInv'
    BY <1>1, <2>1 DEF ServerInv, CallsInv, life
  <2>3. LateInv'
    BY <1>1 DEF ServerInv, LateInv, life
  <2>4. BusyLoops' = BusyLoops
    BY <1>1 DEF BusyLoops, Off
  <2>5. ASSUME threads = 1 PROVE Alone'
    <3>1. Alone
      BY <2>5 DEF ServerInv, OneThreadInv
    <3>2. CASE stopper[s].at \notin Off
      <4>1. BusyStoppers' \subseteq BusyStoppers
        BY <2>1, <3>2 DEF BusyStoppers
      <4> QED BY <2>4, <2>5, <3>1, <4>1, StaysAlone DEF ServerInv
    <3>3. CASE FreeThread
      <4>1. BusyLoops = {} /\ BusyStoppers = {}
        BY <2>5, <3>1, <3>3, FreeIsIdle DEF ServerInv
      <4>2. BusyStoppers' \subseteq {s}
        BY <2>1, <4>1 DEF BusyStoppers
      <4> QED BY <2>4, <2>5, <3>1, <3>3, <4>1, <4>2, StaysAlone DEF ServerInv
    <3> QED BY <1>1, <3>2, <3>3
  <2> QED BY <2>1, <2>2, <2>3, <2>5
<1>2. CASE RunStop(s)
  <2>1. /\ stopper[s].at = "queued" /\ FreeThread
        /\ stopper' = [stopper EXCEPT ![s] = [at |-> "cancel",
                                              i |-> stopper[s].i]]
        /\ UNCHANGED <<life, fds, loop, knocking, late>>
    BY <1>2, <1>g DEF RunStop
  <2>2. /\ stopper' \in [Stoppers -> [at : StopLabels, i : Nat \ {0}]]
        /\ stopper'[s] = [at |-> "cancel", i |-> stopper[s].i]
        /\ \A r \in Stoppers \ {s} : stopper'[r] = stopper[r]
        /\ CallsInv' /\ LateInv' /\ (threads = 1 => Alone')
    BY <1>1, <1>s, <2>1 DEF StopLabels, ServerInv, ServerType
  <2>3. ServerType'
    BY <2>1, <2>2 DEF ServerInv, ServerType, life, fds
  <2>w. \A r \in Iterating' : r = s \/ (r \in Iterating /\ stopper'[r] = stopper[r])
    BY <2>1, <2>2 DEF Iterating, AtWork, life
  <2>4. ClosedInv'
    BY <2>1, <2>2, <2>w DEF ServerInv, ClosedInv, Current, life, fds
  <2>5. ASSUME threads = 1 PROVE WaitInv' /\ OnceInv'
    <3>1. WaitInv /\ OnceInv
      BY <2>5 DEF ServerInv, OneThreadInv
    <3>2. WaitInv'
      BY <2>1, <2>2, <3>1 DEF WaitInv, Current, life, fds
    <3>3. \A r \in Iterating : r \in Iterating' /\ stopper'[r] = stopper[r]
      BY <2>1, <2>2 DEF Iterating, AtWork, life
    <3>4. OnceInv'
      BY <2>1, <2>2, <2>w, <3>1, <3>3 DEF OnceInv, Current, life, fds
    <3> QED BY <3>2, <3>4
  <2>6. OneThreadInv'
    BY <2>1, <2>2, <2>5 DEF OneThreadInv, life
  <2> QED BY <2>2, <2>3, <2>4, <2>6 DEF ServerInv
<1>3. CASE StopCancels(s) \/ StopMarks(s)
  <2> DEFINE at == IF StopCancels(s) THEN "mark" ELSE "close"
  <2>1. /\ stopper[s].at \in {"cancel", "mark"} /\ s \in Iterating
        /\ stopper' = [stopper EXCEPT ![s] = [at |-> at, i |-> stopper[s].i]]
        /\ CancelAll(Current(s))
        /\ UNCHANGED <<life, listening, valid, twice, knocking, late>>
        /\ closing' \in {closing, closing \cup {Current(s)}}
        /\ at = "close" => Current(s) \in valid
    BY <1>3, <1>g DEF StopCancels, StopMarks, fds
  <2>2. at \in {"mark", "close"}
    OBVIOUS
  <2> HIDE DEF at
  <2>i. stopper[s].i <= Len(socks)
    BY <2>1 DEF Iterating
  <2>3. /\ loop' \in [Loops -> LoopLabels]
        /\ \A t \in Loops : loop'[t] = loop[t]
                            \/ (loop[t] = "waiting" /\ loop'[t] = "woken")
        /\ \A t \in Loops : loop'[t] = "waiting" => t.sock # Current(s)
    BY <1>c, <2>1, <2>i, Woken
  <2>4. /\ stopper' \in [Stoppers -> [at : StopLabels, i : Nat \ {0}]]
        /\ stopper'[s] = [at |-> at, i |-> stopper[s].i]
        /\ \A r \in Stoppers \ {s} : stopper'[r] = stopper[r]
        /\ CallsInv' /\ LateInv' /\ (threads = 1 => Alone')
    BY <1>1, <1>s, <2>1, <2>2, <2>3 DEF StopLabels, Off
  <2>5. ServerType'
    BY <1>c, <2>1, <2>i, <2>3, <2>4 DEF ServerInv, ServerType, life
  <2>w. Iterating' = Iterating
    BY <2>1, <2>2, <2>4 DEF Iterating, AtWork, life
  <2>6. ClosedInv'
    BY <2>1, <2>2, <2>4, <2>w DEF ServerInv, ClosedInv, Current, life
  <2>7. ASSUME threads = 1 PROVE WaitInv' /\ OnceInv'
    <3>1. Alone /\ WaitInv /\ OnceInv
      BY <2>7 DEF ServerInv, OneThreadInv
    <3>2. WaitInv'
      BY <2>1, <2>3, <2>4, <3>1 DEF WaitInv, Current, life
    <3>3. \A r \in Iterating : r = s
      BY <2>1, <3>1, IteratingIsBusy DEF Alone
    <3>4. valid \ listening = {}
      BY <2>1, <3>1, <3>3 DEF OnceInv
    <3>5. OnceInv'
      BY <2>1, <2>2, <2>4, <2>w, <3>1, <3>3, <3>4 DEF OnceInv, Current, life
    <3> QED BY <3>2, <3>5
  <2>8. OneThreadInv'
    BY <2>1, <2>4, <2>7 DEF OneThreadInv, life
  <2> QED BY <2>4, <2>5, <2>6, <2>8 DEF ServerInv
\* A lambda that is done with a socket goes on to the next one.
<1>4. ASSUME s \in Iterating, GoesOn(s, stopper[s].i + 1),
             UNCHANGED <<life, listening, closing, twice, loop, knocking, late>>,
             valid' \in {valid, valid \ {Current(s)}}, Current(s) \notin listening,
             threads = 1 /\ OneThreadInv => valid' \ listening = {}
      PROVE  ServerInv'
  <2>1. /\ stopper[s].i <= Len(socks) /\ stopper[s].at \notin Off
        /\ stopper' = [stopper EXCEPT ![s] = [at |-> "cancel",
                                              i |-> stopper[s].i + 1]]
    <3>1. stopper[s].at \notin {"none", "queued", "done"} /\ stopper[s].i <= Len(socks)
      BY <1>4 DEF Iterating, AtWork
    <3> QED BY <1>4, <1>s, <3>1 DEF GoesOn, StopLabels, Off
  <2>2. /\ stopper' \in [Stoppers -> [at : StopLabels, i : Nat \ {0}]]
        /\ stopper'[s] = [at |-> "cancel", i |-> stopper[s].i + 1]
        /\ \A r \in Stoppers \ {s} : stopper'[r] = stopper[r]
        /\ CallsInv' /\ LateInv' /\ (threads = 1 => Alone')
    <3>1. loop' \in [Loops -> LoopLabels] /\ stopper[s].i + 1 \in Nat \ {0}
      BY <1>s, <1>4 DEF ServerInv, ServerType
    <3>2. "cancel" \in StopLabels /\ stopper[s].at \notin {"none", "done"}
      BY <2>1 DEF StopLabels, Off
    <3> QED BY <1>1, <1>4, <2>1, <3>1, <3>2
  <2>3. ServerType'
    BY <1>4, <2>2 DEF ServerInv, ServerType, life
  <2>w. /\ \A r \in Iterating' : r = s \/ (r \in Iterating /\ stopper'[r] = stopper[r])
        /\ stopper'[s].at = "cancel"
    BY <1>4, <2>2 DEF Iterating, AtWork, life
  <2>4. ClosedInv'
    <3>1. listening' \subseteq ToSet(socks) \cap valid'
      BY <1>4 DEF ServerInv, ClosedInv
    <3>2. \A r \in Stoppers, k \in DOMAIN socks :
              k < stopper'[r].i => socks[k] \notin listening'
      <4> SUFFICES ASSUME NEW r \in Stoppers, NEW k \in DOMAIN socks,
                          k < stopper'[r].i
                   PROVE  socks[k] \notin listening
        BY <1>4
      <4>1. CASE r # s \/ k < stopper[s].i
        BY <2>2, <4>1 DEF ServerInv, ClosedInv
      <4>2. CASE r = s /\ k = stopper[s].i
        BY <1>4, <4>2 DEF Current
      <4> QED BY <1>s, <1>l, <2>2, <4>1, <4>2
    <3>3. \A r \in Stoppers : stopper'[r].at = "done" => socks = <<>>
      BY <2>2 DEF ServerInv, ClosedInv
    <3>4. socks # <<>> => \A r \in Stoppers : stopper'[r].i <= Len(socks) + 1
      BY <1>s, <1>l, <2>1, <2>2 DEF ServerInv, ClosedInv
    <3>5. \A r \in Iterating' : stopper'[r].at = "reset" => Current(r)' \notin listening'
      BY <1>4, <2>w DEF ServerInv, ClosedInv, Current, life
    <3> QED BY <1>4, <3>1, <3>2, <3>3, <3>4, <3>5 DEF ClosedInv, life
  <2>5. ASSUME threads = 1 PROVE WaitInv' /\ OnceInv'
    <3>1. WaitInv /\ OnceInv /\ valid' \ listening = {}
      BY <1>4, <2>5 DEF ServerInv, OneThreadInv
    <3>2. WaitInv'
      BY <1>4, <2>2, <3>1 DEF WaitInv, Current, life
    <3>3. OnceInv'
      BY <1>4, <2>w, <3>1 DEF OnceInv, Current, life
    <3> QED BY <3>2, <3>3
  <2>6. OneThreadInv'
    BY <1>4, <2>2, <2>5 DEF OneThreadInv, life
  <2> QED BY <2>2, <2>3, <2>4, <2>6 DEF ServerInv
<1>5. CASE StopPasses(s)
  <2>1. ASSUME threads = 1, OneThreadInv PROVE valid \ listening = {}
    <3>1. Alone /\ OnceInv
      BY <2>1 DEF OneThreadInv
    <3>2. \A r \in Iterating : r = s
      BY <1>5, <3>1, IteratingIsBusy DEF StopPasses, Alone
    <3> QED BY <1>5, <3>1, <3>2 DEF StopPasses, OnceInv
  <2>2. Current(s) \notin listening
    BY <1>5 DEF StopPasses, ServerInv, ClosedInv
  <2> QED BY <1>4, <1>5, <2>1, <2>2 DEF StopPasses, fds
<1>6. CASE StopResets(s)
  <2>1. ASSUME threads = 1, OneThreadInv PROVE (valid \ {Current(s)}) \ listening = {}
    <3>1. Alone /\ OnceInv
      BY <2>1 DEF OneThreadInv
    <3>2. \A r \in Iterating : r = s
      BY <1>6, <3>1, IteratingIsBusy DEF StopResets, Alone
    <3> QED BY <3>1, <3>2 DEF OnceInv
  <2>2. Current(s) \notin listening
    BY <1>6 DEF StopResets, ServerInv, ClosedInv
  <2> QED BY <1>4, <1>6, <2>1, <2>2 DEF StopResets
<1>7. CASE StopCloses(s)
  <2>1. /\ stopper[s].at = "close" /\ s \in Iterating
        /\ listening' = listening \ {Current(s)}
        /\ twice' = (twice \/ Current(s) \notin listening)
        /\ knocking' = [knocking EXCEPT ![Current(s)] = 0]
        /\ stopper' = [stopper EXCEPT ![s] = [at |-> "reset", i |-> stopper[s].i]]
        /\ UNCHANGED <<life, closing, valid, loop, late>>
    BY <1>7, <1>g DEF StopCloses
  <2>i. stopper[s].i <= Len(socks)
    BY <2>1 DEF Iterating
  <2>2. /\ stopper' \in [Stoppers -> [at : StopLabels, i : Nat \ {0}]]
        /\ stopper'[s] = [at |-> "reset", i |-> stopper[s].i]
        /\ \A r \in Stoppers \ {s} : stopper'[r] = stopper[r]
        /\ CallsInv' /\ LateInv' /\ (threads = 1 => Alone')
    <3>1. loop' \in [Loops -> LoopLabels]
      BY <2>1 DEF ServerInv, ServerType
    <3>2. "reset" \in StopLabels /\ "close" \notin Off
      BY DEF StopLabels, Off
    <3> QED BY <1>1, <1>s, <2>1, <3>1, <3>2
  <2>3. ServerType'
    <3>1. knocking' \in [Listeners -> 0..MaxClients]
      <4>1. knocking \in [Listeners -> 0..MaxClients] /\ 0 \in 0..MaxClients
        BY ServerAssumption DEF ServerInv, ServerType
      <4>2. knocking' = [knocking EXCEPT ![Current(s)] = 0]
        BY <2>1
      <4> QED BY <4>1, <4>2
    <3>2. twice' \in BOOLEAN
      BY <2>1
    <3> QED BY <2>1, <2>2, <3>1, <3>2 DEF ServerInv, ServerType, life
  <2>w. Iterating' = Iterating
    BY <2>1, <2>2 DEF Iterating, AtWork, life
  <2>4. ClosedInv'
    BY <2>1, <2>2, <2>w DEF ServerInv, ClosedInv, Current, life
  <2>5. ASSUME threads = 1 PROVE WaitInv' /\ OnceInv'
    <3>1. Alone /\ WaitInv /\ OnceInv
      BY <2>5 DEF ServerInv, OneThreadInv
    <3>2. \A t \in Loops : loop[t] = "waiting" =>
              t.sock \in listening /\ t.sock # Current(s)
      BY <2>1, <2>i, <3>1 DEF WaitInv
    <3>3. WaitInv'
      BY <2>1, <2>2, <3>1, <3>2 DEF WaitInv, Current, life
    <3>4. \A r \in Iterating : r = s
      BY <2>1, <3>1, IteratingIsBusy DEF Alone
    <3>5. valid \ listening = {}
      BY <2>1, <3>1, <3>4 DEF OnceInv
    <3>6. OnceInv'
      BY <2>1, <2>2, <2>w, <3>1, <3>4, <3>5 DEF OnceInv, Current, life
    <3> QED BY <3>3, <3>6
  <2>6. OneThreadInv'
    BY <2>1, <2>2, <2>5 DEF OneThreadInv, life
  <2> QED BY <2>2, <2>3, <2>4, <2>6 DEF ServerInv
<1>8. CASE StopClears(s)
  <2>1. /\ stopper[s].at \notin {"none", "queued", "done"}
        /\ stopper[s].i > Len(socks) /\ socks' = <<>> /\ Iterating = {}
        /\ stopper' = [stopper EXCEPT ![s] = [at |-> "done", i |-> 1]]
        /\ UNCHANGED <<threads, isStop, starts, stops, wild, fds, loop, knocking, late>>
    BY <1>8 DEF StopClears
  <2>2. /\ stopper' \in [Stoppers -> [at : StopLabels, i : Nat \ {0}]]
        /\ stopper'[s] = [at |-> "done", i |-> 1]
        /\ \A r \in Stoppers \ {s} : stopper'[r] = stopper[r]
    BY <1>s, <2>1 DEF ServerInv, ServerType, StopLabels
  <2>3. ServerType' /\ LateInv'
    BY <2>1, <2>2 DEF ServerInv, ServerType, LateInv, fds
  <2>4. CallsInv'
    BY <2>1, <2>2 DEF ServerInv, CallsInv
  <2>n. Iterating' = {}
    <3>1. \A r \in Stoppers : stopper'[r].i \in Nat \ {0}
      BY <2>2
    <3> QED BY <2>1, <3>1 DEF Iterating, AtWork
  <2>5. ClosedInv'
    <3>1. \A k \in DOMAIN socks : socks[k] \notin listening
      BY <1>l, <1>s, <2>1 DEF ServerInv, ClosedInv
    <3>2. listening = {}
      BY <3>1 DEF ServerInv, ClosedInv, ToSet
    <3> QED BY <2>1, <2>n, <3>2 DEF ClosedInv, fds
  <2>6. ASSUME threads = 1 PROVE Alone' /\ WaitInv' /\ OnceInv'
    <3>1. Alone /\ WaitInv /\ OnceInv
      BY <2>6 DEF ServerInv, OneThreadInv
    <3>2. BusyLoops' = BusyLoops /\ BusyStoppers' \subseteq BusyStoppers
      BY <2>1, <2>2 DEF BusyLoops, BusyStoppers, Off
    <3>3. Alone'
      BY <2>6, <3>1, <3>2, StaysAlone DEF ServerInv
    <3>4. \A r \in Stoppers : stopper'[r].i \in Nat \ {0}
      BY <2>2
    <3>5. \A r \in Stoppers : ~(stopper'[r].i <= Len(socks'))
      BY <2>1, <3>4
    <3>6. WaitInv'
      BY <2>1, <3>1, <3>5 DEF WaitInv, fds
    <3>7. OnceInv'
      BY <2>1, <2>n, <3>1 DEF OnceInv, fds
    <3> QED BY <3>3, <3>6, <3>7
  <2>7. OneThreadInv'
    BY <2>1, <2>6 DEF OneThreadInv
  <2> QED BY <2>3, <2>4, <2>5, <2>7 DEF ServerInv
<1>9. CASE StopTramples(s)
  <2>1. /\ wild' \in BOOLEAN
        /\ UNCHANGED <<threads, isStop, socks, starts, stops, fds, loop, stopper,
                       knocking, late>>
    BY <1>9 DEF StopTramples
  <2>2. ServerType' /\ CallsInv' /\ LateInv'
    BY <2>1 DEF ServerInv, ServerType, CallsInv, LateInv, fds
  <2>3. ClosedInv'
    BY <2>1 DEF ServerInv, ClosedInv, Iterating, AtWork, Current, fds
  <2>4. OneThreadInv'
    BY <2>1 DEF ServerInv, OneThreadInv, Alone, WaitInv, OnceInv, BusyLoops,
                BusyStoppers, Iterating, AtWork, Current, fds
  <2> QED BY <2>2, <2>3, <2>4 DEF ServerInv
<1> QED BY <1>2, <1>3, <1>5, <1>6, <1>7, <1>8, <1>9 DEF StopStep

-----------------------------------------------------------------------------
LEMMA BindInv ==
    ASSUME ServerInv, NEW ls \in Binds, Bind(ls)
    PROVE  ServerInv'
<1>1. /\ isStop /\ starts = 0
      /\ UNCHANGED <<threads, isStop, closing, starts, stops, loop, stopper, late,
                     twice, wild>>
  BY DEF Bind
<1>2. /\ ls \in Seq(Listeners) /\ socks \in Seq(Listeners)
      /\ socks \o ls \in Seq(Listeners)
  BY ServerAssumption DEF ServerInv, ServerType
<1>3. /\ \A t \in Loops : loop[t] = "none"
      /\ \A s \in Stoppers : stopper[s].at = "none" /\ stopper[s].i = 1
  BY <1>1, ServerAssumption DEF ServerInv, CallsInv, Stoppers
<1>4. /\ socks' \in Seq(Listeners) /\ listening' \subseteq Listeners
      /\ valid' \subseteq Listeners
      /\ listening' \subseteq ToSet(socks') \cap valid'
      /\ valid' \ listening' \subseteq valid \ listening
      /\ knocking' \in [Listeners -> 0..MaxClients]
  <2>1. CASE /\ socks' = socks \o ls /\ listening' = listening \cup ToSet(ls)
             /\ valid' = valid \cup ToSet(ls)
             /\ UNCHANGED knocking
    <3>1. ToSet(socks) \cup ToSet(ls) \subseteq ToSet(socks \o ls)
      <4>1. \A i \in DOMAIN socks : socks[i] \in ToSet(socks \o ls)
        <5> SUFFICES ASSUME NEW i \in DOMAIN socks
                     PROVE  socks[i] \in ToSet(socks \o ls)
          OBVIOUS
        <5>1. i \in DOMAIN (socks \o ls) /\ (socks \o ls)[i] = socks[i]
          BY <1>2
        <5> QED BY <5>1 DEF ToSet
      <4>2. \A i \in DOMAIN ls : ls[i] \in ToSet(socks \o ls)
        <5> SUFFICES ASSUME NEW i \in DOMAIN ls
                     PROVE  ls[i] \in ToSet(socks \o ls)
          OBVIOUS
        <5>1. /\ Len(socks) + i \in DOMAIN (socks \o ls)
              /\ (socks \o ls)[Len(socks) + i] = ls[i]
          BY <1>2
        <5> QED BY <5>1 DEF ToSet
      <4> QED BY <4>1, <4>2 DEF ToSet
    <3>2. ToSet(ls) \subseteq Listeners
      BY <1>2 DEF ToSet
    <3> QED BY <1>1, <1>2, <2>1, <3>1, <3>2
            DEF ServerInv, ServerType, ClosedInv
  <2>2. CASE /\ socks' = <<>> /\ listening' = listening \ ToSet(socks)
             /\ valid' = valid \ ToSet(socks)
             /\ knocking' = [l \in Listeners |-> IF l \in ToSet(socks) THEN 0
                                                 ELSE knocking[l]]
    BY <1>1, <2>2, ServerAssumption DEF ServerInv, ServerType, ClosedInv
  <2> QED BY <2>1, <2>2 DEF Bind
<1>5. ServerType' /\ CallsInv' /\ LateInv'
  BY <1>1, <1>4 DEF ServerInv, ServerType, CallsInv, LateInv
<1>n. Iterating = {} /\ Iterating' = {}
  BY <1>1, <1>3 DEF Iterating, AtWork
<1>6. ClosedInv'
  BY <1>1, <1>3, <1>4, <1>n DEF ClosedInv
<1>7. OneThreadInv'
  <2>1. BusyLoops' = {} /\ BusyStoppers' = {}
    BY <1>1, <1>3 DEF BusyLoops, BusyStoppers, Off
  <2>2. threads = 1 => OnceInv'
    BY <1>1, <1>4, <1>n DEF ServerInv, OneThreadInv, OnceInv
  <2> QED BY <1>1, <1>3, <2>1, <2>2 DEF OneThreadInv, Alone, WaitInv
<1> QED BY <1>4, <1>5, <1>6, <1>7 DEF ServerInv

LEMMA StartInv ==
    ASSUME ServerInv, Start
    PROVE  ServerInv'
<1>1. /\ isStop /\ starts < MaxStarts /\ isStop' = FALSE
      /\ starts' = starts + 1 /\ late' = [t \in Loops |-> 0]
      /\ UNCHANGED <<threads, socks, fds, stops, stopper, knocking, wild>>
  BY DEF Start, Started
<1>2. /\ loop' \in [Loops -> LoopLabels]
      /\ \A t \in Loops : loop'[t] \in {"queued", loop[t]}
  BY DEF Start, ServerInv, ServerType, LoopLabels
<1>3. starts \in Nat /\ starts' \in 0..MaxStarts /\ starts' # 0
  BY <1>1, ServerAssumption DEF ServerInv, ServerType
<1>4. ServerType' /\ LateInv'
  <2>1. late' \in [Loops -> Nat] /\ \A t \in Loops : late'[t] = 0
    BY <1>1
  <2>2. ServerType'
    BY <1>1, <1>2, <1>3, <2>1 DEF ServerInv, ServerType, fds
  <2> QED BY <2>1, <2>2 DEF LateInv
<1>5. CallsInv' /\ ClosedInv'
  BY <1>1, <1>3 DEF ServerInv, CallsInv, ClosedInv, Iterating, AtWork, Current, fds
<1>6. ASSUME threads = 1 PROVE Alone' /\ WaitInv' /\ OnceInv'
  <2>1. Alone /\ WaitInv /\ OnceInv
    BY <1>6 DEF ServerInv, OneThreadInv
  <2>2. BusyLoops' \subseteq BusyLoops /\ BusyStoppers' = BusyStoppers
    BY <1>1, <1>2 DEF BusyLoops, BusyStoppers, Off
  <2>3. Alone'
    BY <1>6, <2>1, <2>2, StaysAlone DEF ServerInv
  <2>4. OnceInv'
    BY <1>1, <2>1 DEF OnceInv, Iterating, AtWork, Current, fds
  <2> QED BY <1>1, <1>2, <2>1, <2>3, <2>4 DEF WaitInv, Current, fds
<1>7. OneThreadInv'
  BY <1>1, <1>6 DEF OneThreadInv
<1> QED BY <1>4, <1>5, <1>7 DEF ServerInv

LEMMA TrampleInv ==
    ASSUME ServerInv, StartTramples
    PROVE  ServerInv'
<1>1. /\ starts < MaxStarts /\ isStop' = FALSE /\ starts' = starts + 1
      /\ isStop /\ AtWork # {} /\ wild' = TRUE
      /\ UNCHANGED <<threads, socks, stops, fds, loop, stopper, knocking>>
      /\ late' = [t \in Loops |-> 0]
  BY DEF StartTramples, Started
<1>2. starts \in Nat /\ starts' \in 0..MaxStarts /\ starts' # 0
  BY <1>1, ServerAssumption DEF ServerInv, ServerType
<1>3. ServerType' /\ LateInv'
  <2>1. late' \in [Loops -> Nat] /\ \A t \in Loops : late'[t] = 0
    BY <1>1
  <2>2. ServerType'
    BY <1>1, <1>2, <2>1 DEF ServerInv, ServerType, fds
  <2>3. LateInv'
    BY <1>1, <2>1 DEF LateInv
  <2> QED BY <2>2, <2>3
<1>4. CallsInv' /\ ClosedInv'
  BY <1>1, <1>2 DEF ServerInv, CallsInv, ClosedInv, Iterating, AtWork, Current, fds
<1>5. OneThreadInv'
  BY <1>1 DEF ServerInv, OneThreadInv, Alone, WaitInv, OnceInv, BusyLoops,
              BusyStoppers, Iterating, AtWork, Current, fds
<1> QED BY <1>3, <1>4, <1>5 DEF ServerInv

LEMMA StopCallInv ==
    ASSUME ServerInv, Stop
    PROVE  ServerInv'
<1>1. /\ ~isStop /\ stops < MaxStarts /\ isStop' = TRUE /\ stops' = stops + 1
      /\ stopper' = [stopper EXCEPT ![stops'].at = "queued"]
      /\ UNCHANGED <<threads, socks, fds, starts, wild, loop, knocking, late>>
  BY DEF Stop
<1>2. stops \in Nat /\ stops' \in 0..MaxStarts /\ stops' \in Stoppers
  BY <1>1, ServerAssumption DEF ServerInv, ServerType, Stoppers
<1>3. stopper[stops'].at = "none" /\ stopper[stops'].i = 1
  BY <1>1, <1>2 DEF ServerInv, CallsInv
<1>4. /\ stopper' \in [Stoppers -> [at : StopLabels, i : Nat \ {0}]]
      /\ stopper'[stops'] = [at |-> "queued", i |-> 1]
      /\ \A r \in Stoppers \ {stops'} : stopper'[r] = stopper[r]
  BY <1>1, <1>2, <1>3 DEF ServerInv, ServerType, StopLabels
<1>5. ServerType' /\ LateInv'
  BY <1>1, <1>2, <1>4 DEF ServerInv, ServerType, LateInv, fds
<1>w. Iterating' = Iterating /\ \A r \in Iterating : stopper'[r] = stopper[r]
  BY <1>1, <1>2, <1>3, <1>4 DEF Iterating, AtWork
<1>6. CallsInv'
  <2>1. starts' # 0
    BY <1>1 DEF ServerInv, CallsInv
  <2>2. \A r \in Stoppers : r <= stops' <=> r <= stops \/ r = stops'
    BY <1>1, <1>2 DEF Stoppers
  <2>3. \A r \in Stoppers : r <= stops' <=> stopper'[r].at # "none"
    BY <1>4, <2>2 DEF ServerInv, CallsInv
  <2> QED BY <1>4, <2>1, <2>3 DEF ServerInv, CallsInv
<1>7. ClosedInv'
  BY <1>1, <1>3, <1>4, <1>w DEF ServerInv, ClosedInv, Current, fds
<1>8. ASSUME threads = 1 PROVE Alone' /\ WaitInv' /\ OnceInv'
  <2>1. Alone /\ WaitInv /\ OnceInv
    BY <1>8 DEF ServerInv, OneThreadInv
  <2>2. BusyLoops' = BusyLoops /\ BusyStoppers' \subseteq BusyStoppers
    BY <1>1, <1>4 DEF BusyLoops, BusyStoppers, Off
  <2>3. Alone'
    BY <1>8, <2>1, <2>2, StaysAlone DEF ServerInv
  <2>4. OnceInv'
    <3>1. \A r \in Iterating : Current(r)' = Current(r)
      BY <1>1, <1>w DEF Current
    <3> QED BY <1>1, <1>w, <2>1, <3>1 DEF OnceInv, fds
  <2> QED BY <1>1, <1>4, <2>1, <2>3, <2>4 DEF WaitInv, Current, fds
<1>9. OneThreadInv'
  BY <1>1, <1>8 DEF OneThreadInv
<1> QED BY <1>5, <1>6, <1>7, <1>9 DEF ServerInv

LEMMA KnockStepInv ==
    ASSUME ServerInv, NEW l \in Listeners, Knock(l)
    PROVE  ServerInv'
<1>1. /\ knocking[l] < MaxClients /\ knocking' = [knocking EXCEPT ![l] = @ + 1]
      /\ UNCHANGED <<life, fds, loop, stopper, late>>
  BY DEF Knock
<1>2. knocking' \in [Listeners -> 0..MaxClients]
  BY <1>1, ServerAssumption DEF ServerInv, ServerType
<1>3. ServerType' /\ CallsInv' /\ LateInv'
  BY <1>1, <1>2 DEF ServerInv, ServerType, CallsInv, LateInv, life, fds
<1>4. ClosedInv'
  BY <1>1 DEF ServerInv, ClosedInv, Iterating, AtWork, Current, life, fds
<1>5. OneThreadInv'
  BY <1>1 DEF ServerInv, OneThreadInv, Alone, WaitInv, OnceInv, BusyLoops,
              BusyStoppers, Iterating, AtWork, Current, life, fds
<1> QED BY <1>3, <1>4, <1>5 DEF ServerInv

LEMMA NextServer ==
    ASSUME ServerInv, [TcpNext]_tcpVars
    PROVE  ServerInv'
<1>1. CASE UNCHANGED tcpVars
  <2>1. UNCHANGED <<life, fds, loop, stopper, knocking, late>>
    BY <1>1 DEF tcpVars
  <2>2. ServerType' /\ CallsInv' /\ LateInv'
    BY <2>1 DEF ServerInv, ServerType, CallsInv, LateInv, life, fds
  <2>3. ClosedInv'
    BY <2>1 DEF ServerInv, ClosedInv, Iterating, AtWork, Current, life, fds
  <2>4. OneThreadInv'
    BY <2>1 DEF ServerInv, OneThreadInv, Alone, WaitInv, OnceInv, BusyLoops,
                BusyStoppers, Iterating, AtWork, Current, life, fds
  <2> QED BY <2>2, <2>3, <2>4 DEF ServerInv
<1> QED BY <1>1, BindInv, StartInv, TrampleInv, StopCallInv, KnockStepInv, LoopInv, StopInv
        DEF TcpNext

-----------------------------------------------------------------------------
\* Sockets, loops and lambdas of stop: at most one client is accepted late,
\* nothing listens after the last lambda, and with one thread no loop is left
\* waiting for a closed socket and no number is closed twice, up to the step that
\* changes m_socks under a loop over it (Tcp_server.cc:50-120, Socket.cc:269-281).
THEOREM SocketsAreExact == TcpSpec => []SocketsExact
<1>1. ServerInv /\ [TcpNext]_tcpVars => ServerInv'
  BY NextServer
<1> QED BY <1>1, InitServer, ServerInvIsExact, PTL DEF TcpSpec

-----------------------------------------------------------------------------
(* Induction *)

\* Induction over a set of numbers, which needs no operator as a parameter.
LEMMA InductionOnSet ==
    ASSUME NEW T \in SUBSET Nat, 0 \in T, \A n \in T : n + 1 \in T
    PROVE  T = Nat
<1> SUFFICES ASSUME Nat \ T # {} PROVE FALSE
  OBVIOUS
<1>1. PICK x \in Nat \ T : \A y \in Nat \ T : x <= y
  BY LeastNat
<1>2. x # 0 /\ x - 1 \in Nat
  BY <1>1
<1>3. x - 1 \in T
  BY <1>1, <1>2
<1> QED BY <1>1, <1>2, <1>3

-----------------------------------------------------------------------------
(* HttpMessage: parameters *)

\* What std::string::find finds.
LEMMA FirstOfFinds ==
    ASSUME NEW C, NEW s \in Seq(C), NEW c, NEW from \in 1..(Len(s) + 1)
    PROVE  /\ FirstOf(s, c, from) \in from..(Len(s) + 1)
           /\ \A i \in from..(FirstOf(s, c, from) - 1) : s[i] # c
           /\ FirstOf(s, c, from) <= Len(s) => s[FirstOf(s, c, from)] = c
<1> DEFINE at == {i \in from..Len(s) : s[i] = c}
<1>1. Len(s) \in Nat /\ from \in Nat
  OBVIOUS
<1>2. CASE at = {}
  <2>1. FirstOf(s, c, from) = Len(s) + 1
    BY <1>2 DEF FirstOf
  <2>2. \A i \in from..Len(s) : s[i] # c
    BY <1>2
  <2> QED BY <1>1, <2>1, <2>2
<1>3. CASE at # {}
  <2>1. at \in SUBSET Nat
    BY <1>1
  <2>2. \E x \in at : \A y \in at : x <= y
    <3> HIDE DEF at
    <3> QED BY <1>3, <2>1, LeastNat
  <2>3. FirstOf(s, c, from) = CHOOSE i \in at : \A j \in at : i <= j
    BY <1>3 DEF FirstOf
  <2>4. FirstOf(s, c, from) \in at /\ \A j \in at : FirstOf(s, c, from) <= j
    <3> HIDE DEF at
    <3> QED BY <2>2, <2>3
  <2> QED BY <1>1, <2>4
<1> QED BY <1>2, <1>3

\* One turn of the loop of ParseParam.
ParseBody(s, flag, f, i) ==
    IF i > Len(s) THEN <<>>
    ELSE LET end == FirstOf(s, flag, i)
         IN  IF end = i THEN f[end + 1] ELSE Insert(Pair(s, i, end), f[end + 1])

\* The recursive function is defined.
LEMMA ParseParamDef ==
    ASSUME NEW C, NEW s \in Seq(C), NEW flag
    PROVE  \E f : /\ \A m : ParseParam(s, m, flag) = Insert(m, f[1])
                  /\ \A i \in 1..(Len(s) + 2) : f[i] = ParseBody(s, flag, f, i)
<1> DEFINE N == Len(s) + 2
           Good(m, g) == g = [i \in (N - m)..N |-> ParseBody(s, flag, g, i)]
           M == {m \in Nat : m < N => \E g : Good(m, g)}
<1>1. Len(s) \in Nat /\ N \in Nat
  OBVIOUS
<1>2. 0 \in M
  <2> DEFINE g == [i \in (N - 0)..N |-> <<>>]
  <2>1. \A i \in (N - 0)..N : ParseBody(s, flag, g, i) = <<>>
    BY <1>1 DEF ParseBody
  <2>2. Good(0, g)
    BY <2>1
  <2> QED BY <2>2
<1>3. ASSUME NEW m \in M PROVE m + 1 \in M
  <2> SUFFICES ASSUME m + 1 < N PROVE \E h : Good(m + 1, h)
    <3> HIDE DEF Good, N
    <3> QED OBVIOUS
  <2>1. m \in Nat /\ N - (m + 1) \in 1..N /\ N - m = N - (m + 1) + 1
    BY <1>1
  <2>2. PICK g : Good(m, g)
    <3> HIDE DEF Good
    <3> QED BY <1>1, <2>1
  <2> DEFINE k == N - (m + 1)
             h == [i \in k..N |-> IF i = k THEN ParseBody(s, flag, g, k) ELSE g[i]]
  <2>3. k \in 1..N /\ N - m = k + 1
    BY <2>1
  <2> HIDE DEF k
  <2>4. \A i \in (k + 1)..N : g[i] = ParseBody(s, flag, g, i) /\ h[i] = g[i]
    <3> SUFFICES ASSUME NEW i \in (k + 1)..N
                 PROVE  g[i] = ParseBody(s, flag, g, i) /\ h[i] = g[i]
      OBVIOUS
    <3>1. g = [j \in (k + 1)..N |-> ParseBody(s, flag, g, j)]
      BY <2>2, <2>3
    <3>2. i \in k..N /\ i # k
      BY <1>1, <2>3
    <3>3. g[i] = ParseBody(s, flag, g, i)
      BY <3>1
    <3> QED BY <3>2, <3>3
  <2>5. ASSUME NEW i \in k..N PROVE ParseBody(s, flag, h, i) = ParseBody(s, flag, g, i)
    <3>1. CASE i > Len(s)
      BY <3>1 DEF ParseBody
    <3>2. CASE i <= Len(s)
      <4>1. FirstOf(s, flag, i) \in i..(Len(s) + 1)
        BY <1>1, <2>3, <3>2, FirstOfFinds
      <4>2. FirstOf(s, flag, i) + 1 \in (k + 1)..N
        BY <1>1, <2>3, <4>1
      <4>3. h[FirstOf(s, flag, i) + 1] = g[FirstOf(s, flag, i) + 1]
        BY <2>4, <4>2
      <4> QED BY <4>3 DEF ParseBody
    <3> QED BY <1>1, <2>3, <3>1, <3>2
  <2>6. ASSUME NEW i \in k..N PROVE h[i] = ParseBody(s, flag, g, i)
    BY <1>1, <2>3, <2>4
  <2>7. h = [i \in k..N |-> ParseBody(s, flag, h, i)]
    BY <2>5, <2>6
  <2>8. Good(m + 1, h)
    BY <2>7 DEF k
  <2> QED BY <2>8
<1>4. M = Nat
  <2>1. M \in SUBSET Nat
    OBVIOUS
  <2> HIDE DEF M
  <2> QED BY <1>2, <1>3, <2>1, InductionOnSet
<1>5. PICK g : Good(N - 1, g)
  <2>1. N - 1 \in Nat /\ N - 1 < N
    BY <1>1
  <2> HIDE DEF Good, N
  <2> QED BY <1>4, <2>1
<1> DEFINE IsFrom(f) == f = [start \in 1..(Len(s) + 2) |->
                IF start > Len(s) THEN <<>>
                ELSE LET end == FirstOf(s, flag, start)
                     IN  IF end = start THEN f[end + 1]
                         ELSE Insert(Pair(s, start, end), f[end + 1])]
<1>6. IsFrom(g)
  <2>1. N - (N - 1) = 1
    BY <1>1
  <2>2. g = [i \in 1..N |-> ParseBody(s, flag, g, i)]
    BY <1>5, <2>1
  <2> QED BY <2>2 DEF ParseBody
<1>7. IsFrom(CHOOSE f : IsFrom(f))
  <2> HIDE DEF IsFrom
  <2> QED BY <1>6
<1> DEFINE From == CHOOSE f : IsFrom(f)
<1>8. \A m : ParseParam(s, m, flag) = Insert(m, From[1])
  BY DEF ParseParam
<1>9. \A i \in 1..(Len(s) + 2) : From[i] = ParseBody(s, flag, From, i)
  <2> HIDE DEF From
  <2>1. IsFrom(From)
    BY <1>7 DEF From
  <2> QED BY <2>1 DEF ParseBody
<1> QED BY <1>8, <1>9

\* The parts that begin at i or later, and the map that keeps the first of them.
PartsFrom(s, flag, i) == {p \in Parts(s, flag) : p[1] >= i}
ReadsFrom(map, s, flag, i) ==
    LET all == PartsFrom(s, flag, i)
    IN  /\ DOMAIN map = {NameOf(s, p) : p \in all}
        /\ \A p \in all :
               (\A q \in all : NameOf(s, q) = NameOf(s, p) => p[1] <= q[1])
                   => map[NameOf(s, p)] = ValueOf(s, p)

LEMMA LeastIs ==
    ASSUME NEW S, NEW m \in S, \A x \in S : x \in Int /\ m <= x
    PROVE  Min(S) = m
<1>1. ASSUME NEW x \in S, \A y \in S : x <= y PROVE x = m
  BY <1>1
<1> QED BY <1>1 DEF Min

LEMMA GreatestIs ==
    ASSUME NEW S, NEW m \in S, \A x \in S : x \in Int /\ x <= m
    PROVE  Max(S) = m
<1>1. ASSUME NEW x \in S, \A y \in S : x >= y PROVE x = m
  BY <1>1
<1> QED BY <1>1 DEF Max

LEMMA GreatestNat ==
    ASSUME NEW b \in Nat, NEW S \in SUBSET (0..b), S # {}
    PROVE  \E m \in S : \A x \in S : x <= m
<1> DEFINE T == {x \in Nat : b - x \in S}
<1>1. T \in SUBSET Nat /\ T # {}
  <2>1. PICK x \in S : TRUE
    OBVIOUS
  <2>2. x \in Nat /\ b - x \in Nat /\ b - (b - x) = x
    BY <2>1
  <2> QED BY <2>1, <2>2
<1>2. PICK t \in T : \A y \in T : t <= y
  <2> HIDE DEF T
  <2> QED BY <1>1, LeastNat
<1>3. b - t \in S /\ t \in Nat
  OBVIOUS
<1>4. ASSUME NEW x \in S PROVE x <= b - t
  <2>1. b - x \in T /\ x \in Nat
    <3>1. x \in Nat /\ b - x \in Nat /\ b - (b - x) = x
      OBVIOUS
    <3> QED BY <3>1
  <2>2. t <= b - x
    BY <1>2, <2>1
  <2> QED BY <1>3, <2>1, <2>2
<1> QED BY <1>3, <1>4

\* What Trim leaves of a part of s, and Key of that.
LEMMA KeyOfPart ==
    ASSUME NEW C, NEW s \in Seq(C), NEW a \in 1..Len(s), NEW b \in (a - 1)..Len(s)
    PROVE  LET ink == {i \in a..b : s[i] \notin {"\t", "\r", "\n"}}
           IN  Key(Trim(SubSeq(s, a, b))) =
                   IF ink = {} THEN <<>>
                   ELSE [i \in 1..(Max(ink) - Min(ink) + 1) |-> Fold(s[Min(ink) + i - 1])]
<1> DEFINE ink  == {i \in a..b : s[i] \notin {"\t", "\r", "\n"}}
           u    == SubSeq(s, a, b)
           kept == {i \in DOMAIN u : u[i] \notin {"\t", "\r", "\n"}}
<1>1. Len(s) \in Nat /\ a \in Nat /\ b \in Nat /\ a <= b + 1
  OBVIOUS
<1>2. /\ u \in Seq(C) /\ Len(u) = b - a + 1 /\ DOMAIN u = 1..(b - a + 1)
      /\ \A i \in 1..(b - a + 1) : u[i] = s[a + i - 1]
  BY <1>1
<1> HIDE DEF u
<1>3. \A i \in kept : i + (a - 1) \in ink
  <2> SUFFICES ASSUME NEW i \in kept PROVE i + (a - 1) \in ink
    OBVIOUS
  <2>1. i \in 1..(b - a + 1) /\ u[i] \notin {"\t", "\r", "\n"}
    BY <1>2
  <2>2. i + (a - 1) \in a..b /\ a + i - 1 = i + (a - 1)
    BY <1>1, <2>1
  <2>3. s[i + (a - 1)] = u[i]
    BY <1>2, <2>1, <2>2
  <2> QED BY <2>1, <2>2, <2>3
<1>4. \A i \in ink : i - (a - 1) \in kept
  <2> SUFFICES ASSUME NEW i \in ink PROVE i - (a - 1) \in kept
    OBVIOUS
  <2>1. i - (a - 1) \in 1..(b - a + 1) /\ a + (i - (a - 1)) - 1 = i
    BY <1>1
  <2>2. i - (a - 1) \in DOMAIN u /\ u[i - (a - 1)] = s[i]
    BY <1>2, <2>1
  <2>3. s[i] \notin {"\t", "\r", "\n"}
    OBVIOUS
  <2> QED BY <2>2, <2>3
<1>5. kept \subseteq 1..(b - a + 1) /\ ink \subseteq a..b
  BY <1>2
<1> HIDE DEF kept, ink
<1>6. CASE kept = {}
  <2>1. ink = {} /\ Trim(u) = <<>>
    BY <1>4, <1>6 DEF Trim, kept
  <2> QED BY <2>1 DEF Key, ink, u
<1>7. CASE kept # {}
  <2>1. PICK k1 \in kept : \A x \in kept : k1 <= x
    BY <1>1, <1>5, <1>7, LeastNat
  <2>2. PICK k2 \in kept : \A x \in kept : x <= k2
    <3>1. b - a + 1 \in Nat /\ kept \in SUBSET (0..(b - a + 1))
      BY <1>1, <1>5
    <3> QED BY <1>7, <3>1, GreatestNat
  <2>3. /\ k1 \in 1..(b - a + 1) /\ k2 \in 1..(b - a + 1) /\ k1 <= k2
        /\ k1 \in Nat /\ k2 \in Nat
    BY <1>1, <1>5, <2>1, <2>2
  <2>4. (CHOOSE i \in kept : \A j \in kept : i <= j) = k1
    <3>1. ASSUME NEW i \in kept, \A j \in kept : i <= j PROVE i = k1
      <4>1. i \in Nat /\ i <= k1 /\ k1 <= i
        BY <1>1, <1>5, <2>1, <3>1
      <4> QED BY <2>3, <4>1
    <3> QED BY <2>1, <3>1
  <2>5. (CHOOSE i \in kept : \A j \in kept : j <= i) = k2
    <3>1. ASSUME NEW i \in kept, \A j \in kept : j <= i PROVE i = k2
      <4>1. i \in Nat /\ i <= k2 /\ k2 <= i
        BY <1>1, <1>5, <2>2, <3>1
      <4> QED BY <2>3, <4>1
    <3> QED BY <2>2, <3>1
  <2>6. Trim(u) = SubSeq(u, k1, k2)
    BY <1>7, <2>4, <2>5 DEF Trim, kept
  <2>7. Min(ink) = k1 + (a - 1)
    <3>1. k1 + (a - 1) \in ink
      BY <1>3
    <3>2. ASSUME NEW x \in ink PROVE x \in Int /\ k1 + (a - 1) <= x
      <4>1. k1 <= x - (a - 1) /\ x \in Int
        BY <1>4, <1>5, <2>1
      <4> QED BY <1>1, <2>3, <4>1
    <3> QED BY <3>1, <3>2, LeastIs
  <2>8. Max(ink) = k2 + (a - 1)
    <3>1. k2 + (a - 1) \in ink
      BY <1>3
    <3>2. ASSUME NEW x \in ink PROVE x \in Int /\ x <= k2 + (a - 1)
      <4>1. x - (a - 1) <= k2 /\ x \in Int
        BY <1>4, <1>5, <2>2
      <4> QED BY <1>1, <2>3, <4>1
    <3> QED BY <3>1, <3>2, GreatestIs
  <2>9. /\ DOMAIN SubSeq(u, k1, k2) = 1..(k2 - k1 + 1)
        /\ \A i \in 1..(k2 - k1 + 1) : SubSeq(u, k1, k2)[i] = s[k1 + (a - 1) + i - 1]
    <3>1. /\ DOMAIN SubSeq(u, k1, k2) = 1..(k2 - k1 + 1)
          /\ \A i \in 1..(k2 - k1 + 1) : SubSeq(u, k1, k2)[i] = u[k1 + i - 1]
      BY <1>2, <2>3
    <3>2. ASSUME NEW i \in 1..(k2 - k1 + 1)
          PROVE  u[k1 + i - 1] = s[k1 + (a - 1) + i - 1]
      <4>1. /\ k1 + i - 1 \in 1..(b - a + 1)
            /\ a + (k1 + i - 1) - 1 = k1 + (a - 1) + i - 1
        BY <1>1, <2>3
      <4> QED BY <1>2, <4>1
    <3> QED BY <3>1, <3>2
  <2>10. Key(SubSeq(u, k1, k2)) =
             [i \in 1..(k2 - k1 + 1) |-> Fold(s[k1 + (a - 1) + i - 1])]
    BY <2>9 DEF Key
  <2>11. ink # {} /\ Max(ink) - Min(ink) + 1 = k2 - k1 + 1
    BY <1>1, <1>3, <2>1, <2>3, <2>7, <2>8
  <2> QED BY <2>6, <2>7, <2>10, <2>11 DEF ink, u
<1> QED BY <1>6, <1>7

LEMMA ValueOfPart ==
    ASSUME NEW C, NEW s \in Seq(C), NEW a \in 0..Len(s), NEW b \in a..Len(s)
    PROVE  UrlDecode(SubSeq(s, a + 1, b)) =
               [i \in 1..(b - a) |-> IF s[a + i] = "+" THEN " " ELSE s[a + i]]
<1>1. Len(s) \in Nat /\ a \in Nat /\ b \in Nat /\ a <= b
  OBVIOUS
<1>2. /\ DOMAIN SubSeq(s, a + 1, b) = 1..(b - a)
      /\ \A i \in 1..(b - a) : SubSeq(s, a + 1, b)[i] = s[a + i]
  BY <1>1
<1> QED BY <1>2 DEF UrlDecode

\* One part, with a value or without.
LEMMA PairReads ==
    ASSUME NEW C, NEW s \in Seq(C), NEW i \in 1..Len(s), NEW end \in (i + 1)..(Len(s) + 1)
    PROVE  Pair(s, i, end) =
               Single(NameOf(s, <<i, end - 1>>), ValueOf(s, <<i, end - 1>>))
<1> DEFINE eq == FirstOf(s, "=", i)
           p  == <<i, end - 1>>
           Ink(last) == {x \in i..last : s[x] \notin {"\t", "\r", "\n"}}
<1>0. /\ Len(s) \in Nat /\ i \in 1..(Len(s) + 1) /\ end - 1 \in i..Len(s)
      /\ p[1] = i /\ p[2] = end - 1
  OBVIOUS
<1>1. /\ eq \in i..(Len(s) + 1) /\ \A j \in i..(eq - 1) : s[j] # "="
      /\ eq <= Len(s) => s[eq] = "="
  BY <1>0, FirstOfFinds
<1> HIDE DEF eq
<1>2. CASE eq < end
  <2>1. eq \in Signs(s, p) /\ \A x \in Signs(s, p) : x \in Int /\ eq <= x
    BY <1>0, <1>1, <1>2 DEF Signs
  <2>2. Min(Signs(s, p)) = eq /\ Signs(s, p) # {}
    BY <2>1, LeastIs
  <2>3. eq - 1 \in (i - 1)..Len(s) /\ eq \in 0..Len(s) /\ end - 1 \in eq..Len(s)
    BY <1>0, <1>1, <1>2
  <2>4. Key(Trim(SubSeq(s, i, eq - 1))) = NameOf(s, p)
    <3>1. NameOf(s, p) =
              IF Ink(eq - 1) = {} THEN <<>>
              ELSE [x \in 1..(Max(Ink(eq - 1)) - Min(Ink(eq - 1)) + 1) |->
                       Fold(s[Min(Ink(eq - 1)) + x - 1])]
      BY <1>0, <2>2 DEF NameOf
    <3>2. Key(Trim(SubSeq(s, i, eq - 1))) =
              IF Ink(eq - 1) = {} THEN <<>>
              ELSE [x \in 1..(Max(Ink(eq - 1)) - Min(Ink(eq - 1)) + 1) |->
                       Fold(s[Min(Ink(eq - 1)) + x - 1])]
      BY <2>3, KeyOfPart
    <3> QED BY <3>1, <3>2
  <2>5. UrlDecode(SubSeq(s, eq + 1, end - 1)) = ValueOf(s, p)
    <3>1. UrlDecode(SubSeq(s, eq + 1, end - 1)) =
              [x \in 1..((end - 1) - eq) |-> IF s[eq + x] = "+" THEN " " ELSE s[eq + x]]
      BY <2>3, ValueOfPart
    <3> QED BY <1>0, <2>2, <3>1 DEF ValueOf
  <2> QED BY <1>2, <2>4, <2>5 DEF Pair, eq
<1>3. CASE ~(eq < end)
  <2>1. Signs(s, p) = {}
    BY <1>0, <1>1, <1>3 DEF Signs
  <2>2. NameOf(s, p) =
            IF Ink(end - 1) = {} THEN <<>>
            ELSE [x \in 1..(Max(Ink(end - 1)) - Min(Ink(end - 1)) + 1) |->
                     Fold(s[Min(Ink(end - 1)) + x - 1])]
    BY <1>0, <2>1 DEF NameOf
  <2>3. Key(Trim(SubSeq(s, i, end - 1))) = NameOf(s, p)
    <3>1. end - 1 \in (i - 1)..Len(s)
      BY <1>0
    <3>2. Key(Trim(SubSeq(s, i, end - 1))) =
              IF Ink(end - 1) = {} THEN <<>>
              ELSE [x \in 1..(Max(Ink(end - 1)) - Min(Ink(end - 1)) + 1) |->
                       Fold(s[Min(Ink(end - 1)) + x - 1])]
      BY <3>1, KeyOfPart
    <3> QED BY <2>2, <3>2
  <2>4. ValueOf(s, p) = <<>>
    BY <2>1 DEF ValueOf
  <2> QED BY <1>3, <2>3, <2>4 DEF Pair, eq
<1> QED BY <1>2, <1>3

LEMMA ReadsOn ==
    ASSUME NEW C, NEW s \in Seq(C), NEW flag, NEW f,
           \A i \in 1..(Len(s) + 2) : f[i] = ParseBody(s, flag, f, i),
           NEW i \in 1..(Len(s) + 2), i = 1 \/ i > Len(s) + 1 \/ s[i - 1] = flag,
           \A j \in (i + 1)..(Len(s) + 2) :
               j > Len(s) + 1 \/ s[j - 1] = flag => ReadsFrom(f[j], s, flag, j)
    PROVE  ReadsFrom(f[i], s, flag, i)
<1>1. Len(s) \in Nat
  OBVIOUS
<1>2. \A p \in Parts(s, flag) :
          /\ p[1] \in 1..Len(s) /\ p[2] \in p[1]..Len(s) /\ p = <<p[1], p[2]>>
          /\ \A x \in p[1]..p[2] : s[x] # flag
          /\ p[1] = 1 \/ s[p[1] - 1] = flag
          /\ p[2] = Len(s) \/ s[p[2] + 1] = flag
  BY <1>1 DEF Parts
<1>3. CASE i > Len(s)
  <2>1. PartsFrom(s, flag, i) = {}
    BY <1>1, <1>2, <1>3 DEF PartsFrom
  <2>2. f[i] = <<>>
    BY <1>3 DEF ParseBody
  <2>3. DOMAIN f[i] = {}
    BY <2>2
  <2> QED BY <2>1, <2>3 DEF ReadsFrom
<1>4. CASE i <= Len(s)
  <2> DEFINE end == FirstOf(s, flag, i)
             j   == end + 1
  <2>1. /\ end \in i..(Len(s) + 1) /\ \A x \in i..(end - 1) : s[x] # flag
        /\ end <= Len(s) => s[end] = flag
    BY <1>1, <1>4, FirstOfFinds
  <2>2. /\ f[i] = IF end = i THEN f[j] ELSE Insert(Pair(s, i, end), f[j])
    BY <1>4 DEF ParseBody
  <2>3. ReadsFrom(f[j], s, flag, j)
    <3>1. j \in (i + 1)..(Len(s) + 2) /\ (j > Len(s) + 1 \/ s[j - 1] = flag)
      BY <1>1, <2>1
    <3> QED BY <3>1
  <2> HIDE DEF end
  <2>4. CASE end = i
    <3>1. PartsFrom(s, flag, i) = PartsFrom(s, flag, j)
      <4>1. ASSUME NEW p \in Parts(s, flag) PROVE p[1] >= i <=> p[1] >= j
        <5>1. p[1] \in 1..Len(s) /\ s[p[1]] # flag
          BY <1>2
        <5>2. s[i] = flag
          BY <1>4, <2>1, <2>4
        <5> QED BY <2>4, <5>1, <5>2
      <4> QED BY <4>1 DEF PartsFrom
    <3> QED BY <2>2, <2>3, <2>4, <3>1 DEF ReadsFrom
  <2>5. CASE end # i
    <3> DEFINE new == <<i, end - 1>>
    <3>1. /\ end \in (i + 1)..(Len(s) + 1) /\ i \in 1..Len(s)
          /\ end - 1 \in i..Len(s)
      BY <1>1, <1>4, <2>1, <2>5
    <3>2. Pair(s, i, end) = Single(NameOf(s, new), ValueOf(s, new))
      BY <3>1, PairReads
    <3>3. new \in Parts(s, flag) /\ new[1] = i
      <4>1. new \in (DOMAIN s) \X (DOMAIN s) /\ new[1] = i /\ new[2] = end - 1
        BY <1>1, <3>1
      <4>2. i = 1 \/ s[i - 1] = flag
        BY <1>1, <1>4
      <4>3. end - 1 = Len(s) \/ s[(end - 1) + 1] = flag
        BY <1>1, <2>1
      <4>4. \A x \in i..(end - 1) : s[x] # flag
        BY <2>1
      <4> HIDE DEF new
      <4> QED BY <3>1, <4>1, <4>2, <4>3, <4>4 DEF Parts
    <3>4. ASSUME NEW p \in Parts(s, flag), p[1] >= i
          PROVE  p = new \/ p[1] >= j
      <4>1. /\ p[1] \in 1..Len(s) /\ p[2] \in p[1]..Len(s) /\ p = <<p[1], p[2]>>
            /\ \A x \in p[1]..p[2] : s[x] # flag
            /\ p[1] = 1 \/ s[p[1] - 1] = flag
            /\ p[2] = Len(s) \/ s[p[2] + 1] = flag
        BY <1>2
      <4>2. CASE p[1] = i
        <5>1. ~(p[2] < end - 1)
          <6> SUFFICES ASSUME p[2] < end - 1 PROVE FALSE
            OBVIOUS
          <6>1. p[2] + 1 \in i..(end - 1) /\ p[2] # Len(s)
            BY <1>1, <2>1, <4>1, <4>2
          <6> QED BY <2>1, <4>1, <6>1
        <5>2. ~(p[2] > end - 1)
          <6> SUFFICES ASSUME p[2] > end - 1 PROVE FALSE
            OBVIOUS
          <6>1. end \in p[1]..p[2] /\ end <= Len(s)
            BY <1>1, <3>1, <4>1, <4>2
          <6> QED BY <2>1, <4>1, <6>1
        <5>3. p[2] = end - 1
          BY <3>1, <4>1, <5>1, <5>2
        <5> QED BY <4>1, <4>2, <5>3
      <4>3. CASE p[1] # i
        <5>1. p[1] - 1 \in i..Len(s) /\ s[p[1] - 1] = flag /\ s[p[1]] # flag
          BY <3>4, <4>1, <4>3
        <5>2. ~(p[1] - 1 < end)
          BY <2>1, <5>1
        <5>3. p[1] \in Int /\ end \in Int
          BY <1>1, <2>1, <4>1
        <5> QED BY <5>2, <5>3
      <4> QED BY <4>2, <4>3
    <3> HIDE DEF new, j
    <3>5. j \in Nat /\ j > i
      BY <2>1 DEF j
    <3>6. PartsFrom(s, flag, i) = {new} \cup PartsFrom(s, flag, j)
      <4>1. \A p \in Parts(s, flag) : p[1] \in Nat
        BY <1>2
      <4> QED BY <3>3, <3>4, <3>5, <4>1 DEF PartsFrom
    <3>7. /\ f[i] = Insert(Single(NameOf(s, new), ValueOf(s, new)), f[j])
      BY <2>2, <2>5, <3>2
    <3>8. DOMAIN f[j] = {NameOf(s, p) : p \in PartsFrom(s, flag, j)}
      BY <2>3 DEF ReadsFrom
    <3>9. /\ DOMAIN f[i] = {NameOf(s, new)} \cup DOMAIN f[j]
          /\ f[i][NameOf(s, new)] = ValueOf(s, new)
          /\ \A x \in DOMAIN f[j] : x # NameOf(s, new) => f[i][x] = f[j][x]
      BY <3>7 DEF Insert, Single
    <3>10. DOMAIN f[i] = {NameOf(s, p) : p \in PartsFrom(s, flag, i)}
      BY <3>6, <3>8, <3>9
    <3>11. ASSUME NEW p \in PartsFrom(s, flag, i),
                  \A q \in PartsFrom(s, flag, i) :
                      NameOf(s, q) = NameOf(s, p) => p[1] <= q[1]
           PROVE  f[i][NameOf(s, p)] = ValueOf(s, p)
      <4>1. CASE p = new
        BY <3>9, <4>1
      <4>2. CASE p # new
        <5>1. p \in PartsFrom(s, flag, j) /\ p[1] \in Nat /\ p[1] >= j
          BY <1>2, <3>6, <4>2 DEF PartsFrom
        <5>2. NameOf(s, p) # NameOf(s, new)
          BY <3>3, <3>5, <3>6, <3>11, <5>1
        <5>3. f[j][NameOf(s, p)] = ValueOf(s, p)
          BY <2>3, <3>6, <3>11, <5>1 DEF ReadsFrom
        <5>4. NameOf(s, p) \in DOMAIN f[j]
          BY <3>8, <5>1
        <5> QED BY <3>9, <5>2, <5>3, <5>4
      <4> QED BY <4>1, <4>2
    <3> QED BY <3>10, <3>11 DEF ReadsFrom
  <2> QED BY <2>4, <2>5
<1> QED BY <1>1, <1>3, <1>4

\* Any text is cut into its parameters, whatever flag is between them: of two
\* with the same name the first counts (Http.cc:73-110).
THEOREM ParseReads ==
    ASSUME NEW C, NEW s \in Seq(C), NEW flag
    PROVE  ReadsAs(ParseParam(s, <<>>, flag), s, flag)
<1> PICK f : /\ \A m : ParseParam(s, m, flag) = Insert(m, f[1])
             /\ \A i \in 1..(Len(s) + 2) : f[i] = ParseBody(s, flag, f, i)
  BY ParseParamDef
<1> PICK N \in Nat : N = Len(s) + 2
  OBVIOUS
<1> DEFINE At(i)  == i = 1 \/ i > Len(s) + 1 \/ s[i - 1] = flag
           Ok(i)  == At(i) => ReadsFrom(f[i], s, flag, i)
           Done(m) == \A i \in 1..N : i >= N - m => Ok(i)
           M == {m \in Nat : Done(m)}
<1>1. Len(s) \in Nat /\ N = Len(s) + 2
  OBVIOUS
<1>2. ASSUME NEW i \in 1..N, \A j \in (i + 1)..N : Ok(j) PROVE Ok(i)
  <2> SUFFICES ASSUME At(i) PROVE ReadsFrom(f[i], s, flag, i)
    OBVIOUS
  <2>1. \A j \in (i + 1)..(Len(s) + 2) :
            j > Len(s) + 1 \/ s[j - 1] = flag => ReadsFrom(f[j], s, flag, j)
    BY <1>1, <1>2
  <2>2. i \in 1..(Len(s) + 2)
    BY <1>1
  <2> QED BY <2>1, <2>2, ReadsOn
<1> HIDE DEF Ok
<1>3. 0 \in M
  <2>1. ASSUME NEW i \in 1..N, i >= N - 0 PROVE Ok(i)
    <3>1. \A j \in (i + 1)..N : Ok(j)
      BY <2>1
    <3> QED BY <1>2, <3>1
  <2> QED BY <2>1
<1>4. ASSUME NEW m \in M PROVE m + 1 \in M
  <2>1. m \in Nat /\ Done(m)
    OBVIOUS
  <2>2. ASSUME NEW i \in 1..N, i >= N - (m + 1) PROVE Ok(i)
    <3>1. ASSUME NEW j \in (i + 1)..N PROVE Ok(j)
      <4>1. j \in 1..N /\ j >= N - m
        BY <2>1, <2>2
      <4> QED BY <2>1, <4>1
    <3> QED BY <1>2, <3>1
  <2> QED BY <2>1, <2>2
<1>5. M = Nat
  <2>1. M \in SUBSET Nat
    OBVIOUS
  <2> HIDE DEF M
  <2> QED BY <1>3, <1>4, <2>1, InductionOnSet
<1>6. Ok(1)
  <2>1. N \in M
    BY <1>5
  <2>2. Done(N)
    BY <2>1
  <2>3. 1 \in 1..N /\ 1 >= N - N
    BY <1>1
  <2> QED BY <2>2, <2>3
<1>7. ReadsFrom(f[1], s, flag, 1)
  BY <1>6 DEF Ok
<1>8. PartsFrom(s, flag, 1) = Parts(s, flag)
  <2>1. \A p \in Parts(s, flag) : p[1] >= 1
    BY <1>1 DEF Parts
  <2> QED BY <2>1 DEF PartsFrom
<1>9. /\ DOMAIN Insert(<<>>, f[1]) = DOMAIN f[1]
      /\ \A x \in DOMAIN f[1] : Insert(<<>>, f[1])[x] = f[1][x]
  <2>1. \A x : x \notin DOMAIN <<>>
    OBVIOUS
  <2> QED BY <2>1 DEF Insert
<1>10. ParseParam(s, <<>>, flag) = Insert(<<>>, f[1])
  OBVIOUS
<1> QED BY <1>7, <1>8, <1>9, <1>10 DEF ReadsFrom, ReadsAs

LEMMA ParamsReadHold == ParamsRead
<1> SUFFICES ASSUME NEW s \in Texts
             PROVE  /\ ReadsAs(InitQueryParam([NewRequest EXCEPT !.query = s]).params, s, "&")
                    /\ ReadsAs(InitCookies([NewRequest EXCEPT !.cookie = s]).cookies, s, ";")
  BY Zenon DEF ParamsRead
<1> DEFINE C == {"k", "K", "=", "&", ";", "+", "\t", " ", "%", "4", "A"}
           A == {"k", "K", "=", "&", ";", "+", "\t", " "}
           B == {"%", "4", "A", "+"}
<1>1. s \in Seq(C)
  <2>1. \A S : \A t \in BoundedSeq(S, 4) : t \in Seq(S)
    <3> SUFFICES ASSUME NEW S, NEW t \in BoundedSeq(S, 4) PROVE t \in Seq(S)
      OBVIOUS
    <3>1. t \in UNION {[1..m -> S] : m \in 0..4}
      BY DEF BoundedSeq, SeqOf
    <3>2. PICK m \in 0..4 : t \in [1..m -> S]
      BY <3>1, Zenon
    <3> QED BY <3>2
  <2>2. CASE s \in BoundedSeq(A, 4)
    <3>1. s \in Seq(A) /\ A \subseteq C
      BY <2>1, <2>2
    <3> HIDE DEF A, C
    <3> QED BY <3>1
  <2>3. CASE s \in {<<"k", "=">> \o t : t \in BoundedSeq(B, 4)}
    <3>1. PICK t \in BoundedSeq(B, 4) : s = <<"k", "=">> \o t
      BY <2>3, Zenon
    <3>2. t \in Seq(B) /\ B \subseteq C /\ <<"k", "=">> \in Seq(C)
      BY <2>1
    <3> HIDE DEF B, C
    <3>3. t \in Seq(C)
      BY <3>2
    <3> QED BY <3>1, <3>2, <3>3
  <2> QED BY <2>2, <2>3 DEF Texts
<1> HIDE DEF C
<1>2. InitQueryParam([NewRequest EXCEPT !.query = s]).params = ParseParam(s, <<>>, "&")
  BY DEF InitQueryParam, NewRequest
<1>3. InitCookies([NewRequest EXCEPT !.cookie = s]).cookies = ParseParam(s, <<>>, ";")
  BY DEF InitCookies, NewRequest
<1> QED BY <1>1, <1>2, <1>3, ParseReads

\* The calls of a servlet.
IsRequest(r) ==
    r = [query |-> r.query, body |-> r.body, form |-> r.form, cookie |-> r.cookie,
         parsed |-> r.parsed, params |-> r.params, cookies |-> r.cookies]
BothParsed(r) == "query" \in r.parsed /\ "body" \in r.parsed

LEMMA ParseKeeps ==
    ASSUME NEW s, NEW m, NEW flag, NEW k \in DOMAIN m
    PROVE  k \in DOMAIN ParseParam(s, m, flag) /\ ParseParam(s, m, flag)[k] = m[k]
<1>1. \E g : ParseParam(s, m, flag) = Insert(m, g)
  BY DEF ParseParam
<1> QED BY <1>1 DEF Insert

LEMMA QueryParsed ==
    ASSUME NEW r, IsRequest(r), NEW q, q = InitQueryParam(r)
    PROVE  /\ IsRequest(q) /\ "query" \in q.parsed
           /\ "body" \in q.parsed <=> "body" \in r.parsed
           /\ "query" \in r.parsed => q = r
           /\ \A k \in DOMAIN r.params :
                  k \in DOMAIN q.params /\ q.params[k] = r.params[k]
<1>1. CASE "query" \in r.parsed
  BY <1>1 DEF InitQueryParam
<1>2. CASE "query" \notin r.parsed
  <2>1. /\ q = [r EXCEPT !.params = ParseParam(r.query, r.params, "&"),
                         !.parsed = r.parsed \cup {"query"}]
    BY <1>2 DEF InitQueryParam
  <2>2. /\ q.params = ParseParam(r.query, r.params, "&")
        /\ q.parsed = r.parsed \cup {"query"} /\ IsRequest(q)
    BY <2>1 DEF IsRequest
  <2> QED BY <1>2, <2>2, ParseKeeps
<1> QED BY <1>1, <1>2

LEMMA BodyParsed ==
    ASSUME NEW r, IsRequest(r), NEW q, q = InitBodyParam(r)
    PROVE  /\ IsRequest(q) /\ "body" \in q.parsed
           /\ "query" \in q.parsed <=> "query" \in r.parsed
           /\ "body" \in r.parsed => q = r
           /\ \A k \in DOMAIN r.params :
                  k \in DOMAIN q.params /\ q.params[k] = r.params[k]
<1>1. CASE "body" \in r.parsed
  BY <1>1 DEF InitBodyParam
<1>2. CASE "body" \notin r.parsed
  <2> DEFINE new == IF r.form THEN ParseParam(r.body, r.params, "&") ELSE r.params
  <2>1. q = [r EXCEPT !.params = new, !.parsed = r.parsed \cup {"body"}]
    BY <1>2 DEF InitBodyParam
  <2>2. q.params = new /\ q.parsed = r.parsed \cup {"body"} /\ IsRequest(q)
    <3> HIDE DEF new
    <3> QED BY <2>1 DEF IsRequest
  <2> QED BY <1>2, <2>2, ParseKeeps
<1> QED BY <1>1, <1>2

\* getParam parses what has not been parsed, and loses nothing.
LEMMA Parsed ==
    ASSUME NEW r, IsRequest(r), NEW q, q = InitBodyParam(InitQueryParam(r))
    PROVE  /\ IsRequest(q) /\ BothParsed(q)
           /\ BothParsed(r) => q = r
           /\ \A k \in DOMAIN r.params :
                  k \in DOMAIN q.params /\ q.params[k] = r.params[k]
<1> PICK mid : mid = InitQueryParam(r)
  OBVIOUS
<1>1. /\ IsRequest(mid) /\ "query" \in mid.parsed
      /\ "body" \in mid.parsed <=> "body" \in r.parsed
      /\ "query" \in r.parsed => mid = r
      /\ \A k \in DOMAIN r.params :
             k \in DOMAIN mid.params /\ mid.params[k] = r.params[k]
  BY QueryParsed
<1>2. /\ IsRequest(q) /\ "body" \in q.parsed
      /\ "query" \in q.parsed <=> "query" \in mid.parsed
      /\ "body" \in mid.parsed => q = mid
      /\ \A k \in DOMAIN mid.params :
             k \in DOMAIN q.params /\ q.params[k] = mid.params[k]
  BY <1>1, BodyParsed
<1> QED BY <1>1, <1>2 DEF BothParsed

Setters == {"setQuery", "setForm"}
LEMMA CallFacts ==
    ASSUME NEW c \in Calls, NEW r, IsRequest(r), NEW q, q = Call(r, c)
    PROVE  /\ c.op \in {"getParam", "setParam", "delParam", "setQuery", "setForm"}
           /\ IsRequest(q)
           /\ c.op # "getParam" => q.parsed = r.parsed
           /\ c.op = "getParam" => q = InitBodyParam(InitQueryParam(r))
           /\ c.op \in Setters => q.params = r.params
           /\ c.op = "setParam" => K \in DOMAIN q.params /\ q.params[K] = c.v
           /\ c.op = "delParam" => K \notin DOMAIN q.params
<1>1. Key(K) = K /\ Key(<<"K">>) = K
  BY DEF Key, K, Fold
<1>2. CASE c.op = "getParam"
  BY <1>2, Parsed DEF Call, Setters
<1>3. CASE c.op = "setParam"
  <2>1. Key(c.k) = K
    BY <1>1, <1>3 DEF Calls
  <2>2. q = [r EXCEPT !.params = Insert(Single(K, c.v), r.params)]
    BY <1>3, <2>1 DEF Call
  <2>3. q.params = Insert(Single(K, c.v), r.params) /\ IsRequest(q) /\ q.parsed = r.parsed
    BY <2>2 DEF IsRequest
  <2>4. K \in DOMAIN q.params /\ q.params[K] = c.v
    BY <2>3 DEF Insert, Single
  <2> QED BY <1>3, <2>3, <2>4 DEF Setters
<1>4. CASE c.op = "delParam"
  <2>1. Key(c.k) = K
    BY <1>1, <1>4 DEF Calls
  <2>2. q = [r EXCEPT !.params = Drop(r.params, c.k)]
    BY <1>4 DEF Call
  <2>3. q.params = Drop(r.params, c.k) /\ IsRequest(q) /\ q.parsed = r.parsed
    BY <2>2 DEF IsRequest
  <2>4. K \notin DOMAIN q.params
    BY <2>1, <2>3 DEF Drop
  <2> QED BY <1>4, <2>3, <2>4 DEF Setters
<1>5. CASE c.op = "setQuery"
  <2>1. q = [r EXCEPT !.query = c.v]
    BY <1>5 DEF Call
  <2> QED BY <1>5, <2>1 DEF IsRequest
<1>6. CASE c.op = "setForm"
  <2>1. q = [r EXCEPT !.body = c.v, !.form = TRUE]
    BY <1>6 DEF Call
  <2> QED BY <1>6, <2>1 DEF IsRequest
<1>7. c.op \in {"getParam", "setParam", "delParam", "setQuery", "setForm"}
  BY DEF Calls
<1> QED BY <1>2, <1>3, <1>4, <1>5, <1>6, <1>7

CalledBody(calls, f, i) == IF i = 0 THEN NewRequest ELSE Call(f[i - 1], calls[i])

\* The requests between the calls are defined.
LEMMA CalledDef ==
    ASSUME NEW C, NEW calls \in Seq(C)
    PROVE  \A i \in 0..Len(calls) :
               Called(calls)[i] = CalledBody(calls, Called(calls), i)
<1> DEFINE N == Len(calls)
           Good(m, g) == g = [i \in 0..m |-> CalledBody(calls, g, i)]
           M == {m \in Nat : \E g : Good(m, g)}
<1>1. N \in Nat
  OBVIOUS
<1>2. 0 \in M
  <2> DEFINE g == [i \in 0..0 |-> NewRequest]
  <2>1. \A i \in 0..0 : CalledBody(calls, g, i) = NewRequest
    BY DEF CalledBody
  <2>2. Good(0, g)
    BY <2>1
  <2> QED BY <2>2
<1>3. ASSUME NEW m \in M PROVE m + 1 \in M
  <2>1. m \in Nat
    OBVIOUS
  <2>2. PICK g : Good(m, g)
    <3> HIDE DEF Good
    <3> QED OBVIOUS
  <2> DEFINE h == [i \in 0..(m + 1) |->
                       IF i = m + 1 THEN CalledBody(calls, g, m + 1) ELSE g[i]]
  <2>3. \A i \in 0..m : g[i] = CalledBody(calls, g, i) /\ h[i] = g[i]
    <3> SUFFICES ASSUME NEW i \in 0..m
                 PROVE  g[i] = CalledBody(calls, g, i) /\ h[i] = g[i]
      OBVIOUS
    <3>1. i \in 0..(m + 1) /\ i # m + 1
      BY <2>1
    <3>2. g[i] = CalledBody(calls, g, i)
      BY <2>2
    <3> QED BY <3>1, <3>2
  <2>4. ASSUME NEW i \in 0..(m + 1) PROVE CalledBody(calls, h, i) = CalledBody(calls, g, i)
    <3>1. CASE i = 0
      BY <3>1 DEF CalledBody
    <3>2. CASE i # 0
      <4>1. i - 1 \in 0..m
        BY <2>1, <3>2
      <4>2. h[i - 1] = g[i - 1]
        BY <2>3, <4>1
      <4> QED BY <4>2 DEF CalledBody
    <3> QED BY <3>1, <3>2
  <2>5. ASSUME NEW i \in 0..(m + 1) PROVE h[i] = CalledBody(calls, g, i)
    <3>1. CASE i = m + 1
      BY <3>1
    <3>2. CASE i # m + 1
      <4>1. i \in 0..m
        BY <2>1, <3>2
      <4> HIDE DEF h
      <4> QED BY <2>3, <4>1
    <3> QED BY <3>1, <3>2
  <2>6. h = [i \in 0..(m + 1) |-> CalledBody(calls, h, i)]
    BY <2>4, <2>5
  <2>7. Good(m + 1, h)
    BY <2>6
  <2>8. m + 1 \in Nat
    BY <2>1
  <2> HIDE DEF Good, h
  <2> QED BY <2>7, <2>8
<1>4. M = Nat
  <2>1. M \in SUBSET Nat
    OBVIOUS
  <2> HIDE DEF M
  <2> QED BY <1>2, <1>3, <2>1, InductionOnSet
<1>5. PICK g : Good(N, g)
  <2> HIDE DEF Good, N
  <2> QED BY <1>1, <1>4
<1> DEFINE IsCalled(f) ==
        f = [i \in 0..Len(calls) |-> IF i = 0 THEN NewRequest ELSE Call(f[i - 1], calls[i])]
<1>6. IsCalled(g)
  BY <1>5 DEF CalledBody
<1>7. IsCalled(CHOOSE f : IsCalled(f))
  <2> HIDE DEF IsCalled
  <2> QED BY <1>6
<1>8. Called(calls) = CHOOSE f : IsCalled(f)
  BY DEF Called
<1> PICK f : f = Called(calls)
  OBVIOUS
<1>9. IsCalled(f)
  <2> HIDE DEF IsCalled
  <2> QED BY <1>7, <1>8
<1>10. \A i \in 0..Len(calls) : f[i] = CalledBody(calls, f, i)
  BY <1>9 DEF CalledBody
<1> QED BY <1>10

Writers == {"setParam", "delParam"}

\* What the invariant of the calls says after the first i of them, w being the
\* last write.
AfterCalls(r, calls, w, i) ==
    /\ IsRequest(r)
    /\ (\E j \in 1..i : calls[j].op = "getParam") => BothParsed(r)
    /\ (i >= w /\ calls[w].op = "setParam") => K \in DOMAIN r.params /\ r.params[K] = calls[w].v
    /\ (i >= w /\ calls[w].op = "delParam" /\ \E j \in 1..(w - 1) : calls[j].op = "getParam")
           => K \notin DOMAIN r.params

LEMMA OneMoreCall ==
    ASSUME NEW calls \in Seq(Calls), NEW w \in DOMAIN calls, calls[w].op \in Writers,
           \A j \in DOMAIN calls : j > w => calls[j].op \notin Writers,
           NEW i \in 1..Len(calls), NEW r, AfterCalls(r, calls, w, i - 1),
           NEW q, q = Call(r, calls[i])
    PROVE  AfterCalls(q, calls, w, i)
<1>1. calls[i] \in Calls /\ IsRequest(r) /\ i \in Nat /\ w \in 1..Len(calls) /\ w \in Nat
  BY DEF AfterCalls
<1> PICK c \in Calls : c = calls[i]
  BY <1>1
<1>2. /\ c.op \in {"getParam", "setParam", "delParam", "setQuery", "setForm"}
      /\ IsRequest(q)
      /\ c.op # "getParam" => q.parsed = r.parsed
      /\ c.op = "getParam" => q = InitBodyParam(InitQueryParam(r))
      /\ c.op \in Setters => q.params = r.params
      /\ c.op = "setParam" => K \in DOMAIN q.params /\ q.params[K] = c.v
      /\ c.op = "delParam" => K \notin DOMAIN q.params
  BY <1>1, CallFacts
<1>3. c.op = "getParam" =>
          /\ BothParsed(q) /\ (BothParsed(r) => q = r)
          /\ \A k \in DOMAIN r.params : k \in DOMAIN q.params /\ q.params[k] = r.params[k]
  BY <1>1, <1>2, Parsed
<1>4. (\E j \in 1..i : calls[j].op = "getParam") => BothParsed(q)
  <2> SUFFICES ASSUME NEW j \in 1..i, calls[j].op = "getParam" PROVE BothParsed(q)
    OBVIOUS
  <2>1. CASE j = i
    BY <1>3, <2>1
  <2>2. CASE j # i
    <3>1. j \in 1..(i - 1)
      BY <1>1, <2>2
    <3>2. BothParsed(r)
      BY <3>1 DEF AfterCalls
    <3> QED BY <1>2, <1>3, <3>2 DEF BothParsed
  <2> QED BY <2>1, <2>2
<1>5. i > w => c.op \in Setters \cup {"getParam"} /\ i - 1 >= w
  <2> SUFFICES ASSUME i > w PROVE c.op \in Setters \cup {"getParam"} /\ i - 1 >= w
    OBVIOUS
  <2>1. c.op \notin Writers
    BY <1>1
  <2> QED BY <1>1, <1>2, <2>1 DEF Writers, Setters
<1>6. (i >= w /\ calls[w].op = "setParam") => K \in DOMAIN q.params /\ q.params[K] = calls[w].v
  <2> SUFFICES ASSUME i >= w, calls[w].op = "setParam"
               PROVE  K \in DOMAIN q.params /\ q.params[K] = calls[w].v
    OBVIOUS
  <2>1. CASE i = w
    BY <1>2, <2>1
  <2>2. CASE i # w
    <3>1. i > w
      BY <1>1, <2>2
    <3>2. K \in DOMAIN r.params /\ r.params[K] = calls[w].v
      BY <1>5, <3>1 DEF AfterCalls
    <3> QED BY <1>2, <1>3, <1>5, <3>1, <3>2
  <2> QED BY <2>1, <2>2
<1>7. (i >= w /\ calls[w].op = "delParam" /\ \E j \in 1..(w - 1) : calls[j].op = "getParam")
          => K \notin DOMAIN q.params
  <2> SUFFICES ASSUME i >= w, calls[w].op = "delParam",
                      NEW j \in 1..(w - 1), calls[j].op = "getParam"
               PROVE  K \notin DOMAIN q.params
    OBVIOUS
  <2>1. CASE i = w
    BY <1>2, <2>1
  <2>2. CASE i # w
    <3>1. i > w
      BY <1>1, <2>2
    <3>2. j \in 1..(i - 1)
      BY <1>1, <3>1
    <3>3. K \notin DOMAIN r.params /\ BothParsed(r)
      BY <1>5, <3>1, <3>2 DEF AfterCalls
    <3> QED BY <1>2, <1>3, <1>5, <3>1, <3>3
  <2> QED BY <2>1, <2>2
<1> QED BY <1>2, <1>4, <1>6, <1>7 DEF AfterCalls

\* A parameter stays set, or stays deleted once it has been read, however many
\* calls come before and after (Http.cc:114-158, 174-180).
THEOREM CallsKeep ==
    ASSUME NEW calls \in Seq(Calls), NEW w \in DOMAIN calls, calls[w].op \in Writers,
           \A j \in DOMAIN calls : j > w => calls[j].op \notin Writers
    PROVE  LET got == GetParam(Called(calls)[Len(calls)], K, "default")
           IN  /\ calls[w].op = "setParam" => got = calls[w].v
               /\ (calls[w].op = "delParam" /\ \E j \in 1..(w - 1) : calls[j].op = "getParam")
                      => got = "default"
<1> PICK f : f = Called(calls)
  OBVIOUS
<1>1. /\ f[0] = NewRequest
      /\ \A i \in 1..Len(calls) : f[i] = Call(f[i - 1], calls[i])
  <2>1. \A i \in 0..Len(calls) : f[i] = CalledBody(calls, f, i)
    BY CalledDef
  <2> QED BY <2>1 DEF CalledBody
<1> DEFINE M == {m \in Nat : m <= Len(calls) => AfterCalls(f[m], calls, w, m)}
<1>2. Len(calls) \in Nat /\ w \in 1..Len(calls)
  OBVIOUS
<1>3. 0 \in M
  <2>1. IsRequest(NewRequest)
    BY DEF IsRequest, NewRequest
  <2> QED BY <1>1, <1>2, <2>1 DEF AfterCalls
<1>4. ASSUME NEW m \in M PROVE m + 1 \in M
  <2> SUFFICES ASSUME m + 1 <= Len(calls) PROVE AfterCalls(f[m + 1], calls, w, m + 1)
    OBVIOUS
  <2> PICK i \in 1..Len(calls) : i = m + 1
    OBVIOUS
  <2>1. AfterCalls(f[i - 1], calls, w, i - 1) /\ m \in Nat
    BY <1>2
  <2>2. f[i] = Call(f[i - 1], calls[i])
    BY <1>1
  <2>3. AfterCalls(f[i], calls, w, i)
    BY <2>1, <2>2, OneMoreCall
  <2> QED BY <2>3
<1>5. M = Nat
  <2>1. M \in SUBSET Nat
    OBVIOUS
  <2> HIDE DEF M
  <2> QED BY <1>3, <1>4, <2>1, InductionOnSet
<1>6. AfterCalls(f[Len(calls)], calls, w, Len(calls))
  BY <1>2, <1>5
<1> PICK r : r = f[Len(calls)]
  OBVIOUS
<1> PICK q : q = InitBodyParam(InitQueryParam(r))
  OBVIOUS
<1>7. Key(K) = K
  BY DEF Key, K, Fold
<1>8. GetParam(r, K, "default") = IF K \in DOMAIN q.params THEN q.params[K] ELSE "default"
  BY <1>7 DEF GetParam
<1>9. /\ IsRequest(r) /\ (BothParsed(r) => q = r)
      /\ \A k \in DOMAIN r.params : k \in DOMAIN q.params /\ q.params[k] = r.params[k]
  <2>1. IsRequest(r)
    BY <1>6 DEF AfterCalls
  <2> QED BY <2>1, Parsed
<1>10. calls[w].op = "setParam" => K \in DOMAIN q.params /\ q.params[K] = calls[w].v
  BY <1>2, <1>6, <1>9 DEF AfterCalls
<1>11. (calls[w].op = "delParam" /\ \E j \in 1..(w - 1) : calls[j].op = "getParam")
           => K \notin DOMAIN q.params
  <2> SUFFICES ASSUME calls[w].op = "delParam",
                      NEW j \in 1..(w - 1), calls[j].op = "getParam"
               PROVE  K \notin DOMAIN q.params
    OBVIOUS
  <2>1. j \in 1..Len(calls)
    BY <1>2
  <2>2. BothParsed(r) /\ K \notin DOMAIN r.params
    BY <1>2, <1>6, <2>1 DEF AfterCalls
  <2> QED BY <1>9, <2>2
<1> QED BY <1>8, <1>10, <1>11

LEMMA ParamsStayHold == ParamsStay
<1> SUFFICES ASSUME NEW calls \in BoundedSeq(Calls, 5),
                    {i \in DOMAIN calls : calls[i].op \in {"setParam", "delParam"}} # {}
             PROVE  LET writes == {i \in DOMAIN calls : calls[i].op \in {"setParam", "delParam"}}
                        last   == calls[Max(writes)]
                        asked  == \E i \in 1..(Max(writes) - 1) : calls[i].op = "getParam"
                        got    == GetParam(Called(calls)[Len(calls)], K, "default")
                    IN  /\ last.op = "setParam" => got = last.v
                        /\ last.op = "delParam" /\ asked => got = "default"
  BY DEF ParamsStay
<1>1. calls \in Seq(Calls)
  <2>1. calls \in UNION {[1..m -> Calls] : m \in 0..5}
    BY DEF BoundedSeq, SeqOf
  <2>2. PICK m \in 0..5 : calls \in [1..m -> Calls]
    BY <2>1, Zenon
  <2> QED BY <2>2
<1> DEFINE writes == {i \in DOMAIN calls : calls[i].op \in {"setParam", "delParam"}}
<1>2. writes \in SUBSET Nat /\ writes # {} /\ \A x \in writes : x <= Len(calls)
  BY <1>1
<1>3. \E x \in writes : \A y \in writes : x >= y
  <2> DEFINE T == {n \in Nat : \E x \in writes : x + n = Len(calls)}
  <2>1. Len(calls) \in Nat
    BY <1>1
  <2>2. T \in SUBSET Nat /\ T # {}
    <3>1. PICK x \in writes : TRUE
      BY <1>2
    <3>2. Len(calls) - x \in T
      <4> HIDE DEF writes
      <4> QED BY <1>2, <2>1
    <3> QED BY <3>2
  <2>3. PICK n \in T : \A m \in T : n <= m
    <3> HIDE DEF T
    <3> QED BY <2>2, LeastNat
  <2>4. PICK x \in writes : x + n = Len(calls)
    OBVIOUS
  <2>5. ASSUME NEW y \in writes PROVE x >= y
    <3>1. Len(calls) - y \in T /\ y \in Nat
      <4> HIDE DEF writes
      <4> QED BY <1>2, <2>1
    <3>2. n <= Len(calls) - y
      BY <2>3, <3>1
    <3> HIDE DEF writes
    <3> QED BY <1>2, <2>1, <2>4, <3>1, <3>2
  <2> QED BY <2>5
<1> PICK w : w = Max(writes)
  OBVIOUS
<1>4. w \in writes /\ \A y \in writes : w >= y
  <2> HIDE DEF writes
  <2> QED BY <1>3 DEF Max
<1>5. w \in DOMAIN calls /\ calls[w].op \in Writers
  BY <1>4 DEF Writers
<1>6. \A j \in DOMAIN calls : j > w => calls[j].op \notin Writers
  <2> SUFFICES ASSUME NEW j \in DOMAIN calls, j > w, calls[j].op \in Writers PROVE FALSE
    OBVIOUS
  <2>1. j \in writes
    BY DEF Writers
  <2>2. w >= j /\ j \in Nat /\ w \in Nat
    <3> HIDE DEF writes
    <3> QED BY <1>2, <1>4, <2>1
  <2> QED BY <2>2
<1>7. LET got == GetParam(Called(calls)[Len(calls)], K, "default")
      IN  /\ calls[w].op = "setParam" => got = calls[w].v
          /\ (calls[w].op = "delParam" /\ \E j \in 1..(w - 1) : calls[j].op = "getParam")
                 => got = "default"
  BY <1>1, <1>5, <1>6, CallsKeep
<1> QED BY <1>7

\* A servlet reads the parameters that were sent or set (Http.cc:73-180).
THEOREM ParamsAreExact == Spec => []ParamsExact
<1>1. ParamsExact
  BY ParamsReadHold, ParamsStayHold DEF ParamsExact
<1> QED BY <1>1, PTL

-----------------------------------------------------------------------------
(* Addresses *)

\* Lookup: what memchr finds.
LEMMA MemchrFinds ==
    ASSUME NEW s, NEW c, Len(s) \in Nat, NEW from \in Nat, NEW k \in from..Len(s), s[k] = c,
           \A i \in from..(k - 1) : s[i] # c
    PROVE  Memchr(s, c, from) = k
<1> DEFINE at == {i \in from..Len(s) : s[i] = c}
<1>1. k \in at /\ \A j \in at : k <= j
  OBVIOUS
<1>2. ASSUME NEW i \in at, \A j \in at : i <= j PROVE i = k
  BY <1>1, <1>2
<1>3. at # {} /\ Memchr(s, c, from) = CHOOSE i \in at : \A j \in at : i <= j
  BY <1>1 DEF Memchr
<1> HIDE DEF at
<1> QED BY <1>1, <1>2, <1>3

LEMMA MemchrNone ==
    ASSUME NEW s, NEW c, NEW from, \A i \in from..Len(s) : s[i] # c
    PROVE  Memchr(s, c, from) = Len(s) + 1
<1>1. {i \in from..Len(s) : s[i] = c} = {}
  OBVIOUS
<1> QED BY <1>1 DEF Memchr

\* A host with its address in brackets is taken apart, with a service or without,
\* whatever the text in the brackets is (Address.cc:113-125).
THEOREM BracketsTakenApart ==
    ASSUME NEW C, "[" \in C, "]" \in C, ":" \in C,
           NEW n \in Seq(C), n # <<>>, \A i \in DOMAIN n : n[i] # "]",
           NEW s \in Seq(C)
    PROVE  HostParts(WithService(<<"[">> \o n \o <<"]">>, s))
               = [node |-> n, service |-> s]
<1> DEFINE inner == <<"[">> \o n \o <<"]">>
           host  == WithService(inner, s)
           k     == Len(n) + 2
<1>1. /\ Len(n) \in Nat \ {0} /\ inner \in Seq(C) /\ Len(inner) = k
      /\ inner[1] = "[" /\ inner[k] = "]"
      /\ \A i \in 1..Len(n) : inner[i + 1] = n[i]
  OBVIOUS
<1>2. /\ host \in Seq(C) /\ Len(host) \in Nat /\ Len(host) >= k
      /\ \A i \in 1..k : host[i] = inner[i]
      /\ s = <<>> => Len(host) = k
      /\ s # <<>> => /\ Len(host) = k + 1 + Len(s) /\ host[k + 1] = ":"
                     /\ \A i \in 1..Len(s) : host[k + 1 + i] = s[i]
  <2> HIDE DEF inner, k
  <2>0. k \in Nat \ {0} /\ Len(inner) = k /\ inner \in Seq(C)
    BY <1>1 DEF k
  <2>1. CASE s = <<>>
    BY <2>0, <2>1 DEF WithService
  <2>2. CASE s # <<>>
    <3>1. host = inner \o (<<":">> \o s)
      BY <2>0, <2>2 DEF WithService
    <3>2. /\ Len(<<":">> \o s) = 1 + Len(s) /\ (<<":">> \o s)[1] = ":"
          /\ <<":">> \o s \in Seq(C)
          /\ \A i \in 1..Len(s) : (<<":">> \o s)[1 + i] = s[i]
      OBVIOUS
    <3> DEFINE t == <<":">> \o s
    <3> HIDE DEF t
    <3>3. /\ Len(t) = 1 + Len(s) /\ t[1] = ":" /\ t \in Seq(C) /\ Len(s) \in Nat
          /\ \A i \in 1..Len(s) : t[1 + i] = s[i]
      BY <3>2 DEF t
    <3>4. host = inner \o t
      BY <3>1 DEF t
    <3>5. /\ host \in Seq(C) /\ Len(host) = k + Len(t)
          /\ \A i \in 1..k : host[i] = inner[i]
          /\ \A i \in 1..Len(t) : host[k + i] = t[i]
      <4> HIDE DEF host
      <4>1. host \in Seq(C) /\ Len(host) = k + Len(t)
        BY <2>0, <3>3, <3>4, ConcatProperties, Zenon
      <4>2. \A i \in 1..k : host[i] = inner[i]
        BY <2>0, <3>3, <3>4
      <4>3. \A i \in 1..Len(t) : host[k + i] = t[i]
        BY <2>0, <3>3, <3>4
      <4> QED BY <4>1, <4>2, <4>3
    <3>6. \A i \in 1..Len(s) : 1 + i \in 1..Len(t) /\ k + (1 + i) = k + 1 + i
      BY <2>0, <3>3
    <3>7. host[k + 1] = ":" /\ \A i \in 1..Len(s) : host[k + 1 + i] = s[i]
      BY <3>3, <3>5, <3>6
    <3> QED BY <2>0, <2>2, <3>3, <3>5, <3>7
  <2> QED BY <2>1, <2>2
<1> HIDE DEF host
<1>3. Memchr(host, "]", 2) = k
  <2>1. host[k] = "]" /\ k \in 2..Len(host)
    BY <1>1, <1>2
  <2>2. ASSUME NEW i \in 2..(k - 1) PROVE host[i] # "]"
    <3>1. i - 1 \in 1..Len(n) /\ i \in 1..k /\ (i - 1) + 1 = i
      BY <1>1
    <3> QED BY <1>1, <1>2, <3>1
  <2> QED BY <1>2, <2>1, <2>2, MemchrFinds
<1> HIDE DEF k, inner
<1>4. SubSeq(host, 2, k - 1) = n
  <2>1. /\ k - 1 = Len(n) + 1 /\ k - 1 <= Len(host)
    BY <1>1, <1>2 DEF k
  <2>2. /\ SubSeq(host, 2, k - 1) \in Seq(C)
        /\ Len(SubSeq(host, 2, k - 1)) = Len(n)
        /\ \A i \in 1..Len(n) : SubSeq(host, 2, k - 1)[i] = host[i + 1]
    BY <1>1, <1>2, <2>1
  <2>3. ASSUME NEW i \in 1..Len(n) PROVE host[i + 1] = n[i]
    <3>1. i + 1 \in 1..k
      BY <1>1 DEF k
    <3>2. host[i + 1] = inner[i + 1]
      BY <1>2, <3>1, Zenon
    <3>3. inner[i + 1] = n[i]
      BY <1>1, Zenon
    <3> QED BY <3>2, <3>3, Zenon
  <2> QED BY <2>2, <2>3, SeqEqual
<1>5. host # <<>> /\ host[1] = "[" /\ k <= Len(host)
  BY <1>1, <1>2 DEF k
<1>6. (IF k < Len(host) /\ host[k + 1] = ":"
       THEN SubSeq(host, k + 2, Len(host)) ELSE <<>>) = s
  <2>1. CASE s = <<>>
    BY <1>2, <2>1
  <2>2. CASE s # <<>>
    <3>1. /\ k < Len(host) /\ host[k + 1] = ":" /\ k \in Nat
          /\ Len(host) = k + 1 + Len(s) /\ Len(s) \in Nat
      BY <1>1, <1>2, <2>2 DEF k
    <3>2. /\ SubSeq(host, k + 2, Len(host)) \in Seq(C)
          /\ Len(SubSeq(host, k + 2, Len(host))) = Len(s)
          /\ \A i \in 1..Len(s) :
                 SubSeq(host, k + 2, Len(host))[i] = host[k + 1 + i]
      BY <1>2, <3>1
    <3>3. \A i \in 1..Len(s) : host[k + 1 + i] = s[i]
      BY <1>2, <2>2
    <3>4. SubSeq(host, k + 2, Len(host)) = s
      BY <3>2, <3>3, SeqEqual
    <3> QED BY <3>1, <3>4
  <2> QED BY <2>1, <2>2
<1> QED BY <1>3, <1>4, <1>5, <1>6 DEF HostParts, host, inner

LEMMA PlainHost ==
    ASSUME NEW host, NEW k \in Nat, Len(host) \in Nat, host[1] # "[",
           Memchr(host, ":", 1) = k, k <= Len(host),
           NEW n, n = SubSeq(host, 1, k - 1), n # <<>>,
           NEW s, s = SubSeq(host, k + 1, Len(host)), s # <<>>
    PROVE  HostParts(host) = [node |-> n, service |-> s]
<1>1. ~(k > Len(host))
  OBVIOUS
<1> QED BY <1>1, Zenon DEF HostParts

\* host:port is taken apart, and so is a host alone (Address.cc:126-136).
THEOREM HostTaken ==
    ASSUME NEW C, ":" \in C, NEW n \in Seq(C), n # <<>>, n[1] # "[",
           \A i \in DOMAIN n : n[i] # ":", NEW s \in Seq(C)
    PROVE  HostParts(WithService(n, s)) = [node |-> n, service |-> s]
<1> DEFINE host == WithService(n, s)
           k    == Len(n) + 1
<1>1. /\ Len(n) \in Nat \ {0} /\ Len(s) \in Nat /\ DOMAIN n = 1..Len(n)
      /\ k \in Nat /\ k > 1
  OBVIOUS
<1>2. CASE s = <<>>
  <2>1. host = n
    BY <1>2 DEF WithService
  <2>2. Memchr(n, ":", 1) = Len(n) + 1
    BY MemchrNone
  <2>3. SubSeq(n, Len(n) + 2, Len(n)) = <<>>
    BY <1>1
  <2> QED BY <1>1, <1>2, <2>1, <2>2, <2>3 DEF HostParts
<1>3. CASE s # <<>>
  <2> DEFINE t == <<":">> \o s
  <2>1. /\ host = n \o t /\ t \in Seq(C) /\ Len(t) = 1 + Len(s) /\ t[1] = ":"
        /\ \A i \in 1..Len(s) : t[1 + i] = s[i]
    BY <1>3 DEF WithService
  <2> HIDE DEF t, host
  <2>2. host \in Seq(C) /\ Len(host) = k + Len(s)
    <3>1. host \in Seq(C) /\ Len(host) = Len(n) + Len(t)
      BY <2>1, ConcatProperties, Zenon
    <3> QED BY <1>1, <2>1, <3>1
  <2>3. \A i \in 1..Len(n) : host[i] = n[i]
    BY <1>1, <2>1
  <2>4. \A i \in 1..Len(t) : host[Len(n) + i] = t[i]
    BY <1>1, <2>1
  <2>5. host[k] = ":" /\ \A i \in 1..Len(s) : host[k + i] = s[i]
    <3>1. 1 \in 1..Len(t) /\ \A i \in 1..Len(s) : 1 + i \in 1..Len(t)
      BY <1>1, <2>1
    <3>2. \A i \in 1..Len(s) : Len(n) + (1 + i) = k + i
      BY <1>1
    <3> QED BY <2>1, <2>4, <3>1, <3>2
  <2> HIDE DEF k
  <2>6. Memchr(host, ":", 1) = k
    <3>1. k \in 1..Len(host) /\ Len(host) \in Nat
      BY <1>1, <2>2
    <3>2. \A i \in 1..(k - 1) : host[i] # ":"
      BY <1>1, <2>3 DEF k
    <3> QED BY <2>5, <3>1, <3>2, MemchrFinds
  <2>7. SubSeq(host, 1, k - 1) = n
    <3>1. /\ SubSeq(host, 1, k - 1) \in Seq(C)
          /\ Len(SubSeq(host, 1, k - 1)) = Len(n)
          /\ \A i \in 1..Len(n) : SubSeq(host, 1, k - 1)[i] = host[i]
      BY <1>1, <2>2 DEF k
    <3> QED BY <2>3, <3>1, SeqEqual
  <2>8. SubSeq(host, k + 1, Len(host)) = s
    <3> DEFINE rest == SubSeq(host, k + 1, Len(host))
    <3>0. k + 1 \in Int /\ Len(host) \in Int /\ \A i \in (k + 1)..Len(host) : host[i] \in C
      BY <1>1, <2>2
    <3>1. /\ rest \in Seq(C)
          /\ Len(rest) = IF k + 1 <= Len(host) THEN Len(host) - (k + 1) + 1 ELSE 0
          /\ \A i \in 1..(Len(host) - (k + 1) + 1) : rest[i] = host[k + 1 + i - 1]
      BY <3>0, SubSeqProperties
    <3> HIDE DEF rest
    <3>2. Len(rest) = Len(s)
      BY <1>1, <2>2, <3>1
    <3>3. ASSUME NEW i \in 1..Len(s) PROVE rest[i] = host[k + i]
      <4>1. i \in 1..(Len(host) - (k + 1) + 1) /\ k + 1 + i - 1 = k + i
        BY <1>1, <2>2
      <4> QED BY <3>1, <4>1
    <3>4. rest = s
      BY <2>5, <3>1, <3>2, <3>3, SeqEqual
    <3> QED BY <3>4 DEF rest
  <2>9. host[1] # "["
    BY <1>1, <2>3
  <2>10. k <= Len(host) /\ k \in Nat /\ Len(host) \in Nat
    BY <1>1, <2>2
  <2>11. s # <<>> /\ n # <<>>
    BY <1>3
  <2>12. HostParts(host) = [node |-> n, service |-> s]
    BY <2>6, <2>7, <2>8, <2>9, <2>10, <2>11, PlainHost
  <2> QED BY <2>12 DEF host
<1> QED BY <1>2, <1>3

LEMMA HostsExact == HostTakenApart
<1> DEFINE C == {"a", ":", "[", "]", "1", "2"}
<1> SUFFICES ASSUME NEW n \in Names, NEW s \in Services
             PROVE  LET parts == [node |-> n, service |-> s]
                    IN  /\ HostParts(WithService(<<"[">> \o n \o <<"]">>, s)) = parts
                        /\ (\A i \in DOMAIN n : n[i] # ":") =>
                               HostParts(WithService(n, s)) = parts
  BY DEF HostTakenApart
<1>1. n \in Seq({"a", ":"}) /\ n # <<>>
  <2>1. PICK m \in Nat : n \in [1..m -> {"a", ":"}]
    <3>1. n \in UNION {[1..m -> {"a", ":"}] : m \in 0..3}
      BY DEF Names, BoundedSeq, SeqOf
    <3>2. PICK m \in 0..3 : n \in [1..m -> {"a", ":"}]
      BY <3>1, Zenon
    <3> QED BY <3>2
  <2> QED BY <2>1 DEF Names
<1>2. n \in Seq(C) /\ \A i \in DOMAIN n : n[i] # "]" /\ n[i] # "["
  BY <1>1, ElementOfSeq
<1>3. s \in Seq(C)
  <2>1. CASE s = <<>>
    BY <2>1
  <2>2. CASE s = <<"1">>
    BY <2>2
  <2>3. CASE s = <<"1", "2">>
    BY <2>3
  <2> QED BY <2>1, <2>2, <2>3 DEF Services
<1>4. n[1] # "["
  BY <1>1, <1>2
<1> QED BY <1>1, <1>2, <1>3, <1>4, BracketsTakenApart, HostTaken

-----------------------------------------------------------------------------
\* The order of addresses.
\* a is less than b at place f, the first at which they differ.
LessAt(a, b, f) ==
    /\ f \in 1..Len(a) /\ f \in 1..Len(b) /\ a[f] < b[f]
    /\ \A i \in 1..(f - 1) : a[i] = b[i]
PrefixOf(a, b) == Len(a) <= Len(b) /\ \A i \in 1..Len(a) : a[i] = b[i]

LEMMA MemcmpSame ==
    ASSUME NEW a, NEW b, NEW n \in Nat, \A i \in 1..n : a[i] = b[i]
    PROVE  Memcmp(a, b, n) = 0
<1>1. {i \in 1..n : a[i] # b[i]} = {}
  OBVIOUS
<1> QED BY <1>1 DEF Memcmp

LEMMA MemcmpDiffers ==
    ASSUME NEW a, NEW b, NEW n \in Nat, NEW f \in 1..n, a[f] # b[f],
           \A i \in 1..(f - 1) : a[i] = b[i]
    PROVE  Memcmp(a, b, n) = IF a[f] < b[f] THEN -1 ELSE 1
<1> DEFINE differ == {i \in 1..n : a[i] # b[i]}
           first  == CHOOSE i \in differ : \A j \in differ : i <= j
<1>1. f \in differ /\ \A j \in differ : f <= j
  OBVIOUS
<1>2. ASSUME NEW i \in differ, \A j \in differ : i <= j PROVE i = f
  BY <1>1, <1>2
<1>3. first = f
  <2> HIDE DEF differ
  <2> QED BY <1>1, <1>2
<1>4. differ # {}
  BY <1>1
<1> QED BY <1>3, <1>4 DEF Memcmp

LEMMA FirstDifference ==
    ASSUME NEW a \in Seq(Nat), NEW b \in Seq(Nat), NEW n \in Nat
    PROVE  \/ \A i \in 1..n : a[i] = b[i]
           \/ \E f \in 1..n : a[f] # b[f] /\ \A i \in 1..(f - 1) : a[i] = b[i]
<1> DEFINE T == {i \in 1..n : a[i] # b[i]}
<1> SUFFICES ASSUME T # {}
             PROVE  \E f \in 1..n : a[f] # b[f] /\ \A i \in 1..(f - 1) : a[i] = b[i]
  OBVIOUS
<1>1. T \in SUBSET Nat
  OBVIOUS
<1>2. PICK f \in T : \A y \in T : f <= y
  <2> HIDE DEF T
  <2> QED BY <1>1, LeastNat
<1> QED BY <1>2

LEMMA LessIsLexical ==
    ASSUME NEW a \in Seq(Nat), NEW b \in Seq(Nat)
    PROVE  /\ Less(a, b) <=> \/ \E f \in Nat : LessAt(a, b, f)
                             \/ PrefixOf(a, b) /\ Len(a) < Len(b)
           /\ Equal(a, b) <=> a = b
<1>0. /\ Len(a) \in Nat /\ Len(b) \in Nat
      /\ (IF Len(a) < Len(b) THEN Len(a) ELSE Len(b)) \in Nat
  OBVIOUS
<1> PICK m \in Nat : m = IF Len(a) < Len(b) THEN Len(a) ELSE Len(b)
  BY <1>0
<1>1. /\ Len(a) \in Nat /\ Len(b) \in Nat /\ m \in Nat /\ m <= Len(a) /\ m <= Len(b)
      /\ \A i \in 1..m : a[i] \in Nat /\ b[i] \in Nat
  OBVIOUS
<1>2. CASE \A i \in 1..m : a[i] = b[i]
  <2>1. Memcmp(a, b, m) = 0
    BY <1>1, <1>2, MemcmpSame
  <2>2. Less(a, b) <=> Len(a) < Len(b)
    BY <2>1 DEF Less
  <2>3. \A f \in Nat : ~LessAt(a, b, f)
    <3> SUFFICES ASSUME NEW f \in Nat, LessAt(a, b, f) PROVE FALSE
      OBVIOUS
    <3>1. f \in 1..m /\ a[f] < b[f]
      BY DEF LessAt
    <3>2. a[f] = b[f] /\ a[f] \in Nat
      BY <1>1, <1>2, <3>1
    <3> QED BY <3>1, <3>2
  <2>4. Len(a) < Len(b) => PrefixOf(a, b)
    BY <1>1, <1>2 DEF PrefixOf
  <2>5. Equal(a, b) <=> Len(a) = Len(b)
    BY <2>1 DEF Equal
  <2>6. Len(a) = Len(b) <=> a = b
    BY <1>1, <1>2, SeqEqual
  <2> QED BY <2>2, <2>3, <2>4, <2>5, <2>6
<1>3. CASE ~ \A i \in 1..m : a[i] = b[i]
  <2>1. PICK f \in 1..m : a[f] # b[f] /\ \A i \in 1..(f - 1) : a[i] = b[i]
    <3>1. m \in Nat
      BY <1>1
    <3>2. \/ \A i \in 1..m : a[i] = b[i]
          \/ \E f \in 1..m : a[f] # b[f] /\ \A i \in 1..(f - 1) : a[i] = b[i]
      BY <3>1, FirstDifference
    <3> QED BY <1>3, <3>2
  <2>2. Memcmp(a, b, m) = IF a[f] < b[f] THEN -1 ELSE 1
    <3> QED BY <1>1, <2>1, MemcmpDiffers
  <2>3. Less(a, b) <=> a[f] < b[f]
    BY <2>2 DEF Less
  <2>4. a[f] \in Nat /\ b[f] \in Nat /\ f \in 1..Len(a) /\ f \in 1..Len(b)
    BY <1>1, <2>1
  <2>5. a[f] < b[f] => LessAt(a, b, f) /\ f \in Nat
    BY <2>1, <2>4 DEF LessAt
  <2>6. ASSUME NEW g \in Nat, LessAt(a, b, g) PROVE a[f] < b[f]
    <3>1. /\ g \in 1..Len(a) /\ g \in 1..Len(b) /\ a[g] < b[g] /\ a[g] \in Nat
          /\ b[g] \in Nat /\ \A i \in 1..(g - 1) : a[i] = b[i]
      BY <2>6 DEF LessAt
    <3>2. ~(f < g) /\ ~(g < f)
      BY <2>1, <2>4, <3>1
    <3>3. f = g
      BY <2>4, <3>1, <3>2
    <3> QED BY <3>1, <3>3
  <2>7. ~PrefixOf(a, b)
    BY <2>1, <2>4 DEF PrefixOf
  <2>8. a # b /\ (Equal(a, b) => Memcmp(a, b, m) = 0)
    BY <1>1, <2>1 DEF Equal
  <2>9. ~Equal(a, b)
    BY <2>2, <2>8
  <2>10. Less(a, b) <=> \E g \in Nat : LessAt(a, b, g)
    BY <2>3, <2>5, <2>6
  <2> QED BY <2>7, <2>8, <2>9, <2>10
<1> QED BY <1>2, <1>3

\* Of two addresses of any length exactly one is less, or they are the same
\* (Address.cc:50-65).
THEOREM OrderExact ==
    ASSUME NEW a \in Seq(Nat), NEW b \in Seq(Nat)
    PROVE  /\ Less(a, b) \/ Less(b, a) \/ Equal(a, b)
           /\ ~(Less(a, b) /\ Less(b, a)) /\ (Equal(a, b) <=> a = b)
           /\ ~(Equal(a, b) /\ (Less(a, b) \/ Less(b, a)))
<1>1. /\ Len(a) \in Nat /\ Len(b) \in Nat
      /\ \A i \in 1..Len(a) : a[i] \in Nat
      /\ \A i \in 1..Len(b) : b[i] \in Nat
  OBVIOUS
<1>2. /\ Less(a, b) <=> \/ \E f \in Nat : LessAt(a, b, f)
                        \/ PrefixOf(a, b) /\ Len(a) < Len(b)
      /\ Less(b, a) <=> \/ \E f \in Nat : LessAt(b, a, f)
                        \/ PrefixOf(b, a) /\ Len(b) < Len(a)
      /\ Equal(a, b) <=> a = b
  BY LessIsLexical
<1>3. Less(a, b) \/ Less(b, a) \/ a = b
  <2> PICK m \in Nat : m = IF Len(a) < Len(b) THEN Len(a) ELSE Len(b)
    BY <1>1
  <2>1. CASE \A i \in 1..m : a[i] = b[i]
    <3>1. Len(a) <= Len(b) => PrefixOf(a, b)
      BY <1>1, <2>1 DEF PrefixOf
    <3>2. Len(b) <= Len(a) => PrefixOf(b, a)
      BY <1>1, <2>1 DEF PrefixOf
    <3>3. Len(a) = Len(b) => a = b
      BY <1>1, <2>1, SeqEqual
    <3> QED BY <1>1, <1>2, <3>1, <3>2, <3>3
  <2>2. CASE \E f \in 1..m : a[f] # b[f] /\ \A i \in 1..(f - 1) : a[i] = b[i]
    <3>1. PICK f \in 1..m : a[f] # b[f] /\ \A i \in 1..(f - 1) : a[i] = b[i]
      BY <2>2
    <3>2. f \in 1..Len(a) /\ f \in 1..Len(b) /\ a[f] \in Nat /\ b[f] \in Nat /\ f \in Nat
      BY <1>1
    <3>3. LessAt(a, b, f) \/ LessAt(b, a, f)
      BY <3>1, <3>2 DEF LessAt
    <3> QED BY <1>2, <3>2, <3>3
  <2> QED BY <2>1, <2>2, FirstDifference
<1>4. ASSUME NEW f \in Nat, LessAt(a, b, f), NEW g \in Nat, LessAt(b, a, g)
      PROVE  FALSE
  <2>1. /\ f \in 1..Len(a) /\ f \in 1..Len(b) /\ a[f] < b[f] /\ a[f] \in Nat /\ b[f] \in Nat
        /\ g \in 1..Len(a) /\ g \in 1..Len(b) /\ b[g] < a[g] /\ a[g] \in Nat /\ b[g] \in Nat
        /\ \A i \in 1..(f - 1) : a[i] = b[i]
        /\ \A i \in 1..(g - 1) : a[i] = b[i]
    BY <1>1, <1>4 DEF LessAt
  <2>2. ~(f < g) /\ ~(g < f)
    BY <2>1
  <2>3. f = g
    BY <2>2
  <2> QED BY <2>1, <2>3
<1>5. ASSUME NEW f \in Nat, NEW x \in Seq(Nat), NEW y \in Seq(Nat), LessAt(x, y, f)
      PROVE  ~PrefixOf(y, x) /\ ~PrefixOf(x, y) /\ x # y
  <2>1. f \in 1..Len(x) /\ f \in 1..Len(y) /\ x[f] \in Nat /\ x[f] < y[f]
    BY <1>5 DEF LessAt
  <2> QED BY <2>1 DEF PrefixOf
<1>6. ~(Less(a, b) /\ Less(b, a))
  <2>1. ~(Len(a) < Len(b) /\ Len(b) < Len(a))
    BY <1>1
  <2> QED BY <1>2, <1>4, <1>5, <2>1
<1>7. ~(a = b /\ (Less(a, b) \/ Less(b, a)))
  <2>1. a = b => ~(Len(a) < Len(b) \/ Len(b) < Len(a))
    BY <1>1
  <2> QED BY <1>2, <1>5, <2>1
<1> QED BY <1>2, <1>3, <1>6, <1>7

\* The order of addresses of any length is transitive (Address.cc:50-65).
THEOREM OrderTransitive ==
    ASSUME NEW a \in Seq(Nat), NEW b \in Seq(Nat), NEW c \in Seq(Nat),
           Less(a, b), Less(b, c)
    PROVE  Less(a, c)
<1>1. /\ Len(a) \in Nat /\ Len(b) \in Nat /\ Len(c) \in Nat
      /\ \A i \in 1..Len(a) : a[i] \in Nat
      /\ \A i \in 1..Len(b) : b[i] \in Nat
      /\ \A i \in 1..Len(c) : c[i] \in Nat
  OBVIOUS
<1>2. ASSUME NEW f \in Nat, LessAt(a, b, f), NEW g \in Nat, LessAt(b, c, g)
      PROVE  \E h \in Nat : LessAt(a, c, h)
  <2>1. /\ f \in 1..Len(a) /\ f \in 1..Len(b) /\ a[f] < b[f] /\ a[f] \in Nat /\ b[f] \in Nat
        /\ \A i \in 1..(f - 1) : a[i] = b[i]
        /\ g \in 1..Len(b) /\ g \in 1..Len(c) /\ b[g] < c[g] /\ b[g] \in Nat /\ c[g] \in Nat
        /\ \A i \in 1..(g - 1) : b[i] = c[i]
    BY <1>1, <1>2 DEF LessAt
  <2>2. CASE f < g
    <3>1. LessAt(a, c, f)
      <4>1. b[f] = c[f] /\ f \in 1..Len(c)
        BY <1>1, <2>1, <2>2
      <4>2. \A i \in 1..(f - 1) : a[i] = c[i]
        BY <2>1, <2>2
      <4> QED BY <2>1, <4>1, <4>2 DEF LessAt
    <3> QED BY <3>1
  <2>3. CASE g < f
    <3>1. LessAt(a, c, g)
      <4>1. a[g] = b[g] /\ g \in 1..Len(a)
        BY <1>1, <2>1, <2>3
      <4>2. \A i \in 1..(g - 1) : a[i] = c[i]
        BY <2>1, <2>3
      <4> QED BY <2>1, <4>1, <4>2 DEF LessAt
    <3> QED BY <3>1
  <2>4. CASE f = g
    <3>1. LessAt(a, c, f)
      <4>1. a[f] < c[f]
        BY <2>1, <2>4
      <4>2. \A i \in 1..(f - 1) : a[i] = c[i]
        BY <2>1, <2>4
      <4> QED BY <2>1, <2>4, <4>1, <4>2 DEF LessAt
    <3> QED BY <3>1
  <2> QED BY <2>2, <2>3, <2>4
<1>3. ASSUME NEW f \in Nat, LessAt(a, b, f), PrefixOf(b, c)
      PROVE  LessAt(a, c, f)
  BY <1>1, <1>3 DEF LessAt, PrefixOf
<1>4. ASSUME PrefixOf(a, b), Len(a) < Len(b), NEW g \in Nat, LessAt(b, c, g)
      PROVE  LessAt(a, c, g) \/ (PrefixOf(a, c) /\ Len(a) < Len(c))
  <2>1. CASE g <= Len(a)
    BY <1>1, <1>4, <2>1 DEF LessAt, PrefixOf
  <2>2. CASE g > Len(a)
    BY <1>1, <1>4, <2>2 DEF LessAt, PrefixOf
  <2> QED BY <1>1, <2>1, <2>2
<1>5. ASSUME PrefixOf(a, b), Len(a) < Len(b), PrefixOf(b, c), Len(b) < Len(c)
      PROVE  PrefixOf(a, c) /\ Len(a) < Len(c)
  BY <1>1, <1>5 DEF PrefixOf
<1>6. \/ \E f \in Nat : LessAt(a, b, f)
      \/ PrefixOf(a, b) /\ Len(a) < Len(b)
  BY LessIsLexical
<1>7. \/ \E f \in Nat : LessAt(b, c, f)
      \/ PrefixOf(b, c) /\ Len(b) < Len(c)
  BY LessIsLexical
<1>8. \/ \E f \in Nat : LessAt(a, c, f)
      \/ PrefixOf(a, c) /\ Len(a) < Len(c)
  BY <1>2, <1>3, <1>4, <1>5, <1>6, <1>7
<1> QED BY <1>8, LessIsLexical

LEMMA OrderHolds == AddressesOrdered
<1> SUFFICES ASSUME NEW a \in SomeAddresses, NEW b \in SomeAddresses
             PROVE  /\ Cardinality({c \in {1, 2, 3} : \/ c = 1 /\ Less(a, b)
                                                      \/ c = 2 /\ Less(b, a)
                                                      \/ c = 3 /\ Equal(a, b)}) = 1
                    /\ Equal(a, b) <=> a = b
                    /\ \A c \in SomeAddresses : Less(a, b) /\ Less(b, c) => Less(a, c)
  BY Zenon DEF AddressesOrdered
<1>1. SomeAddresses \subseteq Seq(Nat)
  <2> SUFFICES ASSUME NEW x \in SomeAddresses PROVE x \in Seq(Nat)
    OBVIOUS
  <2>1. x \in UNION {[1..m -> 0..2] : m \in 0..3}
    BY DEF SomeAddresses, BoundedSeq, SeqOf
  <2>2. PICK m \in 0..3 : x \in [1..m -> 0..2]
    BY <2>1, Zenon
  <2> QED BY <2>2
<1>2. /\ Less(a, b) \/ Less(b, a) \/ Equal(a, b)
      /\ ~(Less(a, b) /\ Less(b, a)) /\ (Equal(a, b) <=> a = b)
      /\ ~(Equal(a, b) /\ (Less(a, b) \/ Less(b, a)))
  BY <1>1, OrderExact
<1> DEFINE S == {c \in {1, 2, 3} : \/ c = 1 /\ Less(a, b)
                                   \/ c = 2 /\ Less(b, a)
                                   \/ c = 3 /\ Equal(a, b)}
<1>3. S = {1} \/ S = {2} \/ S = {3}
  <2>1. CASE Less(a, b)
    <3>1. ~Less(b, a) /\ ~Equal(a, b)
      BY <1>2, <2>1
    <3> QED BY <2>1, <3>1
  <2>2. CASE Less(b, a)
    <3>1. ~Less(a, b) /\ ~Equal(a, b)
      BY <1>2, <2>2
    <3> QED BY <2>2, <3>1
  <2>3. CASE Equal(a, b)
    <3>1. ~Less(a, b) /\ ~Less(b, a)
      BY <1>2, <2>3
    <3> QED BY <2>3, <3>1
  <2> QED BY <1>2, <2>1, <2>2, <2>3
<1>4. Cardinality(S) = 1
  <2> HIDE DEF S
  <2> QED BY <1>3, FS_Singleton
<1> QED BY <1>1, <1>2, <1>4, OrderTransitive
-----------------------------------------------------------------------------
\* Masks.
LEMMA Quotients ==
    ASSUME NEW i \in Nat, NEW B \in Nat \ {0}
    PROVE  /\ i \div B \in Nat /\ i % B \in 0..(B - 1)
           /\ i = B * (i \div B) + (i % B)
OBVIOUS

\* A number is before another if its quotient is, or its remainder in the same one.
LEMMA QuotientOrder ==
    ASSUME NEW B \in Nat \ {0}, NEW q \in Nat, NEW r \in 0..(B - 1),
           NEW u \in Nat, NEW v \in 0..(B - 1)
    PROVE  /\ u < q => B * u + v < B * q + r
           /\ u > q => B * u + v > B * q + r
           /\ u = q => (B * u + v >= B * q + r <=> v >= r)
<1>1. u < q => B * (u + 1) <= B * q /\ B * (u + 1) = B * u + B
  OBVIOUS
<1>2. u > q => B * (q + 1) <= B * u /\ B * (q + 1) = B * q + B
  OBVIOUS
<1>3. B * u \in Nat /\ B * q \in Nat
  OBVIOUS
<1> QED BY <1>1, <1>2, <1>3

LEMMA V4Exact ==
    ASSUME NEW a, NEW p \in 2..(V4Bits - 1), NEW b \in V4Broadcast(a, p),
           NEW n \in V4Network(a, p), NEW m \in V4Subnet(p),
           NEW i \in 0..(V4Bits - 1)
    PROVE  /\ i \in b <=> i < V4Bits - p \/ i \in a
           /\ i \in n <=> i < V4Bits - p /\ i \in a
           /\ i \notin m
<1>1. ~(p <= 1) /\ ~(p >= V4Bits) /\ V4Bits \in Nat
  BY AddressAssumption
<1>2. /\ b = a \cup CreateMask(V4Bits, p)
      /\ n = a \cap CreateMask(V4Bits, p)
      /\ m = {} \ CreateMask(V4Bits, p)
  BY <1>1 DEF V4Broadcast, V4Network, V4Subnet, V4Masks
<1> QED BY <1>1, <1>2 DEF CreateMask

LEMMA V4Refused ==
    ASSUME NEW a
    PROVE  V4Broadcast(a, V4Bits) = {} /\ V4Network(a, V4Bits) = {}
<1>1. V4Bits >= V4Bits
  BY AddressAssumption
<1> QED BY <1>1 DEF V4Broadcast, V4Network

LEMMA V6Exact ==
    ASSUME NEW a \in [1..V6Bytes -> SUBSET V6Byte],
           NEW p \in 0..(V6Bytes * ByteSize - 1),
           NEW i \in 0..(V6Bytes * ByteSize - 1)
    PROVE  /\ V6Bit(V6Broadcast(a, p), i) <=> i >= p \/ V6Bit(a, i)
           /\ V6Bit(V6Subnet(p), i) <=> i < p
           /\ V6Bit(V6Network(a, p), i) <=>
                  /\ V6Bit(a, i) /\ i \div ByteSize <= p \div ByteSize
                  /\ i \div ByteSize = p \div ByteSize => i >= p
<1> PICK B \in Nat \ {0} : B = ByteSize
  BY AddressAssumption
<1>1. V6Bytes \in Nat \ {0} /\ V6Bytes * B \in Nat /\ i \in Nat /\ p \in Nat
  BY AddressAssumption
<1>2. PICK q \in Nat, r \in 0..(B - 1) :
          p = B * q + r /\ q = p \div B /\ r = p % B
  BY <1>1, Quotients
<1>3. PICK u \in Nat, v \in 0..(B - 1) :
          i = B * u + v /\ u = i \div B /\ v = i % B
  BY <1>1, Quotients
<1>4. u + 1 \in 1..V6Bytes
  <2>1. ~(u >= V6Bytes)
    <3> SUFFICES ASSUME u >= V6Bytes PROVE FALSE
      OBVIOUS
    <3>1. B * u >= V6Bytes * B
      BY <1>1
    <3>2. i < V6Bytes * B
      BY <1>1
    <3>3. B * u \in Nat
      OBVIOUS
    <3> PICK x \in Nat : x = B * u
      BY <3>3
    <3> PICK y \in Nat : y = V6Bytes * B
      BY <1>1
    <3>4. x >= y /\ i < y /\ i = x + v
      BY <1>3, <3>1, <3>2
    <3> QED BY <3>4
  <2> QED BY <1>1, <2>1
<1>5. /\ Split(p) = q + 1 /\ ByteMask(p) = 0..(B - r - 1) /\ V6Byte = 0..(B - 1)
  BY <1>2 DEF Split, ByteMask, CreateMask, V6Byte
<1> DEFINE bit == B - 1 - v
<1>6. bit \in 0..(B - 1) /\ (bit \in 0..(B - r - 1) <=> v >= r)
  OBVIOUS
<1>7. \A x : V6Bit(x, i) <=> bit \in x[u + 1]
  BY <1>3 DEF V6Bit
<1> HIDE DEF bit
<1>8. /\ u < q => i < p
      /\ u > q => ~(i < p)
      /\ u = q => (i < p <=> ~(v >= r))
      /\ i >= p <=> ~(i < p)
  <2>1. /\ u < q => B * u + v < B * q + r
        /\ u > q => B * u + v > B * q + r
        /\ u = q => (B * u + v >= B * q + r <=> v >= r)
    BY QuotientOrder
  <2>2. /\ u < q => i < p
        /\ u > q => i > p
        /\ u = q => (i >= p <=> v >= r)
    BY <1>2, <1>3, <2>1
  <2>3. /\ i > p => ~(i < p)
        /\ i >= p <=> ~(i < p)
    BY <1>1
  <2> QED BY <2>2, <2>3
<1>9. V6Broadcast(a, p)[u + 1] =
          IF u < q THEN a[u + 1]
          ELSE IF u = q THEN a[u + 1] \cup 0..(B - r - 1) ELSE 0..(B - 1)
  BY <1>4, <1>5 DEF V6Broadcast
<1>10. V6Subnet(p)[u + 1] =
          IF u < q THEN 0..(B - 1)
          ELSE IF u = q THEN (0..(B - 1)) \ (0..(B - r - 1)) ELSE {}
  BY <1>4, <1>5 DEF V6Subnet
<1>n. V6Network(a, p)[u + 1] =
          IF u < q THEN a[u + 1]
          ELSE IF u = q THEN a[u + 1] \cap 0..(B - r - 1) ELSE {}
  BY <1>4, <1>5 DEF V6Network
<1>d. i \div ByteSize = u /\ p \div ByteSize = q
  BY <1>2, <1>3
<1>11. /\ u < q \/ u > q \/ u = q
       /\ u < q => u <= q /\ u # q
       /\ u > q => ~(u <= q)
       /\ u = q => u <= q
  OBVIOUS
<1>12. CASE u < q
  BY <1>6, <1>7, <1>8, <1>9, <1>10, <1>n, <1>d, <1>11, <1>12
<1>13. CASE u > q
  BY <1>6, <1>7, <1>8, <1>9, <1>10, <1>n, <1>d, <1>11, <1>13
<1>14. CASE u = q
  BY <1>6, <1>7, <1>8, <1>9, <1>10, <1>n, <1>d, <1>11, <1>14
<1> QED BY <1>11, <1>12, <1>13, <1>14

LEMMA MasksHold == MasksExact
<1>1. \A a \in SUBSET (0..(V4Bits - 1)), p \in 2..(V4Bits - 1) :
          \A b \in V4Broadcast(a, p), n \in V4Network(a, p), m \in V4Subnet(p) :
              \A i \in 0..(V4Bits - 1) :
                  /\ i \in b <=> i < V4Bits - p \/ i \in a
                  /\ i \in n <=> i < V4Bits - p /\ i \in a
                  /\ i \notin m
  BY V4Exact
<1>2. \A a \in SUBSET (0..(V4Bits - 1)) :
          V4Broadcast(a, V4Bits) = {} /\ V4Network(a, V4Bits) = {}
  BY V4Refused
<1>3. \A a \in [1..V6Bytes -> SUBSET V6Byte], p \in 0..(V6Bytes * ByteSize - 1) :
          \A i \in 0..(V6Bytes * ByteSize - 1) :
              /\ V6Bit(V6Broadcast(a, p), i) <=> i >= p \/ V6Bit(a, i)
              /\ V6Bit(V6Subnet(p), i) <=> i < p
              /\ V6Bit(V6Network(a, p), i) <=>
                     /\ V6Bit(a, i) /\ i \div ByteSize <= p \div ByteSize
                     /\ i \div ByteSize = p \div ByteSize => i >= p
  BY V6Exact
<1> QED BY <1>1, <1>2, <1>3, Zenon DEF MasksExact

\* Hosts are taken apart, addresses are ordered, and a broadcast address and an IPv6
\* subnet mask have the bits of their prefix, for the prefixes the code defines
\* (Address.cc); networkAddress and IPv4's subnetMask are what MasksExact says.
THEOREM AddressesAreExact == TcpSpec => []AddressesExact
<1>1. AddressesExact
  BY HostsExact, OrderHolds, MasksHold DEF AddressesExact
<1> QED BY <1>1, PTL
=============================================================================
