-------------------------- MODULE HttpClientProof --------------------------
(***************************************************************************)
(* Proofs about module HttpClient, for any users, connections and bounds.  *)
(***************************************************************************)
EXTENDS HttpClientProps, SequenceTheorems, FiniteSetTheorems,
        WellFoundedInduction, TLAPS

LessThan == {ss \in Nat \X Nat : ss[1] < ss[2]}

LEMMA LessThanWellFounded == IsWellFoundedOn(LessThan, Nat)
<1>1. LessThan = OpToRel(<, Nat)
  BY DEF LessThan, OpToRel
<1> QED BY <1>1, NatLessThanWellFounded

\* A set of natural numbers that is not empty has a least element.
LEMMA LeastNat ==
    ASSUME NEW T \in SUBSET Nat, T # {}
    PROVE  \E x \in T : \A y \in T : x <= y
<1>1. PICK x \in T : \A y \in T : ~ (<<y, x>> \in LessThan)
  BY LessThanWellFounded, WFMin, Zenon
<1>2. \A y \in T : ~(y < x)
  BY <1>1 DEF LessThan
<1> QED BY <1>2

\* Induction over the natural numbers, for a set of them.
LEMMA InductionOnSet ==
    ASSUME NEW T \in SUBSET Nat, 0 \in T, \A n \in T : n + 1 \in T
    PROVE  T = Nat
<1> SUFFICES ASSUME Nat \ T # {} PROVE FALSE
  OBVIOUS
<1>1. PICK x \in Nat \ T : \A y \in Nat \ T : x <= y
  BY LeastNat
<1>2. x # 0 /\ x - 1 \in Nat
  BY <1>1
<1>3. x - 1 \in T
  BY <1>1, <1>2
<1> QED BY <1>1, <1>2, <1>3

-----------------------------------------------------------------------------
\* What Keep of module Lists leaves, for every sequence.
KeptBody(s, S, f, n) ==
    IF n = 0 THEN <<>> ELSE IF s[n] \in S THEN Append(f[n - 1], s[n]) ELSE f[n - 1]

\* The recursive function is defined.
LEMMA KeptOfDef ==
    ASSUME NEW T, NEW s \in Seq(T), NEW S
    PROVE  /\ KeptOf(s, S) \in [0..Len(s) -> Seq(T)]
           /\ \A n \in 0..Len(s) : KeptOf(s, S)[n] = KeptBody(s, S, KeptOf(s, S), n)
<1> DEFINE Good(m, g) == /\ g \in [0..m -> Seq(T)]
                         /\ \A n \in 0..m : g[n] = KeptBody(s, S, g, n)
           Starts(m) == m <= Len(s) => \E g : Good(m, g)
           M == {m \in Nat : Starts(m)}
<1>1. 0 \in M
  <2> DEFINE g == [n \in 0..0 |-> <<>>]
  <2>1. g \in [0..0 -> Seq(T)] /\ g[0] = <<>>
    OBVIOUS
  <2>2. Good(0, g)
    BY <2>1 DEF KeptBody
  <2> QED BY <2>2
<1>2. ASSUME NEW m \in M PROVE m + 1 \in M
  <2> SUFFICES ASSUME m + 1 <= Len(s) PROVE \E h : Good(m + 1, h)
    <3> HIDE DEF Good
    <3> QED OBVIOUS
  <2>1. m \in Nat /\ Len(s) \in Nat /\ m + 1 \in 1..Len(s) /\ s[m + 1] \in T
    BY LenProperties, ElementOfSeq
  <2>2. PICK g : Good(m, g)
    <3> HIDE DEF Good
    <3> QED BY <2>1
  <2> DEFINE last == IF s[m + 1] \in S THEN Append(g[m], s[m + 1]) ELSE g[m]
             h == [n \in 0..(m + 1) |-> IF n = m + 1 THEN last ELSE g[n]]
  <2>3. g[m] \in Seq(T)
    BY <2>1, <2>2
  <2>4. last \in Seq(T)
    BY <2>1, <2>3, AppendProperties
  <2>5. h \in [0..(m + 1) -> Seq(T)]
    BY <2>1, <2>2, <2>4
  <2>6. ASSUME NEW n \in 0..(m + 1) PROVE h[n] = KeptBody(s, S, h, n)
    <3>1. CASE n = m + 1
      BY <2>1, <3>1 DEF KeptBody
    <3>2. CASE n \in 0..m
      <4>1. h[n] = g[n] /\ (n # 0 => h[n - 1] = g[n - 1])
        BY <2>1, <3>2
      <4> QED BY <2>2, <3>2, <4>1 DEF KeptBody
    <3> QED BY <2>1, <3>1, <3>2
  <2>7. Good(m + 1, h)
    BY <2>5, <2>6
  <2> QED BY <2>7
<1>3. M = Nat
  BY <1>1, <1>2, InductionOnSet
<1>4. PICK g : Good(Len(s), g)
  <2>1. Len(s) \in Nat
    BY LenProperties
  <2> HIDE DEF Good
  <2> QED BY <1>3, <2>1
<1> DEFINE IsKept(f) == f = [n \in 0..Len(s) |->
                IF n = 0 THEN <<>>
                ELSE IF s[n] \in S THEN Append(f[n - 1], s[n]) ELSE f[n - 1]]
<1>5. IsKept(g)
  BY <1>4 DEF KeptBody
<1>6. KeptOf(s, S) = CHOOSE f : IsKept(f)
  BY DEF KeptOf
<1>7. IsKept(KeptOf(s, S))
  BY <1>5, <1>6
<1> DEFINE f == KeptOf(s, S)
           N == {m \in Nat : m <= Len(s) => f[m] \in Seq(T)}
<1>8. Len(s) \in Nat /\ \A n \in 0..Len(s) : f[n] = KeptBody(s, S, f, n)
  BY <1>7, LenProperties DEF KeptBody
<1>9. 0 \in N
  <2>1. f[0] = <<>>
    BY <1>8 DEF KeptBody
  <2>2. <<>> \in Seq(T)
    OBVIOUS
  <2> QED BY <2>1, <2>2
<1>10. ASSUME NEW m \in N PROVE m + 1 \in N
  <2> SUFFICES ASSUME m + 1 <= Len(s) PROVE f[m + 1] \in Seq(T)
    OBVIOUS
  <2>1. m + 1 \in 1..Len(s) /\ s[m + 1] \in T /\ f[m] \in Seq(T) /\ m \in Nat
    BY <1>8, ElementOfSeq
  <2>2. f[m + 1] = IF s[m + 1] \in S THEN Append(f[m], s[m + 1]) ELSE f[m]
    BY <1>8, <2>1 DEF KeptBody
  <2> QED BY <2>1, <2>2, AppendProperties
<1>11. N = Nat
  BY <1>9, <1>10, InductionOnSet
<1>12. f \in [0..Len(s) -> Seq(T)]
  <2>1. \A n \in 0..Len(s) : f[n] \in Seq(T)
    BY <1>8, <1>11
  <2> QED BY <1>7, <2>1
<1> QED BY <1>8, <1>12

\* What is kept of s are its elements in S, all of them and in their order: h
\* gives the place in s of each.
PlacesIn(s, S, n, t, h) ==
    /\ h \in [1..Len(t) -> 1..n]
    /\ \A k, l \in 1..Len(t) : k < l => h[k] < h[l]
    /\ \A k \in 1..Len(t) : t[k] = s[h[k]] /\ s[h[k]] \in S
    /\ \A i \in 1..n : s[i] \in S => \E k \in 1..Len(t) : h[k] = i

LEMMA AppendPlace ==
    ASSUME NEW T, NEW s, NEW S, NEW m \in Nat, NEW u \in Seq(T), NEW h,
           PlacesIn(s, S, m, u, h), s[m + 1] \in S, s[m + 1] \in T
    PROVE  \E g : PlacesIn(s, S, m + 1, Append(u, s[m + 1]), g)
<1>1. PICK L \in Nat : L = Len(u)
  BY LenProperties
<1> DEFINE g == [k \in 1..(L + 1) |-> IF k = L + 1 THEN m + 1 ELSE h[k]]
           t == Append(u, s[m + 1])
<1>2. Len(t) = L + 1 /\ t[L + 1] = s[m + 1] /\ \A k \in 1..L : t[k] = u[k]
  BY <1>1, AppendProperties
<1>3. h \in [1..L -> 1..m]
  BY <1>1 DEF PlacesIn
<1>4. \A k \in 1..L : k \in 1..(L + 1) /\ k # L + 1
  OBVIOUS
<1>5. g[L + 1] = m + 1 /\ \A k \in 1..L : g[k] = h[k] /\ h[k] \in 1..m
  BY <1>3, <1>4
<1>6. \A k \in 1..(L + 1) : k \in 1..L \/ k = L + 1
  OBVIOUS
<1>7. g \in [1..(L + 1) -> 1..(m + 1)]
  <2>1. ASSUME NEW k \in 1..(L + 1) PROVE g[k] \in 1..(m + 1)
    <3> HIDE DEF g
    <3>1. CASE k = L + 1
      BY <1>5, <3>1
    <3>2. CASE k \in 1..L
      <4>1. g[k] \in 1..m
        BY <1>5, <3>2
      <4> QED BY <4>1
    <3> QED BY <1>6, <3>1, <3>2
  <2> QED BY <2>1
<1> HIDE DEF g, t
<1>8. \A k, l \in 1..(L + 1) : k < l => g[k] < g[l]
  <2> SUFFICES ASSUME NEW k \in 1..(L + 1), NEW l \in 1..(L + 1), k < l PROVE g[k] < g[l]
    OBVIOUS
  <2>1. k \in 1..L
    OBVIOUS
  <2>2. CASE l = L + 1
    BY <1>5, <2>1, <2>2
  <2>3. CASE l \in 1..L
    BY <1>1, <1>5, <2>1, <2>3 DEF PlacesIn
  <2> QED BY <1>6, <2>2, <2>3
<1>9. \A k \in 1..(L + 1) : t[k] = s[g[k]] /\ s[g[k]] \in S
  BY <1>1, <1>2, <1>5, <1>6 DEF PlacesIn
<1>10. ASSUME NEW i \in 1..(m + 1), s[i] \in S PROVE \E k \in 1..(L + 1) : g[k] = i
  <2>1. CASE i = m + 1
    BY <1>5, <2>1
  <2>2. CASE i \in 1..m
    <3>1. PICK k \in 1..L : h[k] = i
      BY <1>1, <1>10, <2>2 DEF PlacesIn
    <3> QED BY <1>4, <1>5, <3>1
  <2> QED BY <2>1, <2>2
<1>11. PlacesIn(s, S, m + 1, t, g)
  BY <1>2, <1>7, <1>8, <1>9, <1>10 DEF PlacesIn
<1> QED BY <1>11 DEF t

LEMMA KeptOfPlaces ==
    ASSUME NEW T, NEW s \in Seq(T), NEW S
    PROVE  \A n \in 0..Len(s) : \E h : PlacesIn(s, S, n, KeptOf(s, S)[n], h)
<1> DEFINE f == KeptOf(s, S)
           N == {m \in Nat : m <= Len(s) => \E h : PlacesIn(s, S, m, f[m], h)}
<1>1. /\ Len(s) \in Nat /\ f \in [0..Len(s) -> Seq(T)]
      /\ \A n \in 0..Len(s) : f[n] = KeptBody(s, S, f, n)
  BY KeptOfDef, LenProperties
<1>2. 0 \in N
  <2>1. f[0] = <<>>
    BY <1>1 DEF KeptBody
  <2>2. PlacesIn(s, S, 0, <<>>, <<>>)
    BY DEF PlacesIn
  <2> QED BY <2>1, <2>2
<1>3. ASSUME NEW m \in N PROVE m + 1 \in N
  <2> SUFFICES ASSUME m + 1 <= Len(s) PROVE \E h : PlacesIn(s, S, m + 1, f[m + 1], h)
    OBVIOUS
  <2>1. /\ m \in Nat /\ m + 1 \in 1..Len(s) /\ s[m + 1] \in T
        /\ f[m] \in Seq(T) /\ Len(f[m]) \in Nat
    BY <1>1, ElementOfSeq, LenProperties
  <2>2. PICK h : PlacesIn(s, S, m, f[m], h)
    BY <2>1
  <2>3. f[m + 1] = IF s[m + 1] \in S THEN Append(f[m], s[m + 1]) ELSE f[m]
    <3>1. m + 1 \in 0..Len(s) /\ m + 1 # 0 /\ (m + 1) - 1 = m
      BY <2>1
    <3>2. f[m + 1] = KeptBody(s, S, f, m + 1)
      BY <1>1, <3>1
    <3> QED BY <3>1, <3>2 DEF KeptBody
  <2>4. CASE s[m + 1] \in S
    BY <2>1, <2>2, <2>3, <2>4, AppendPlace
  <2>5. CASE s[m + 1] \notin S
    <3>1. PlacesIn(s, S, m + 1, f[m], h)
      <4>1. h \in [1..Len(f[m]) -> 1..(m + 1)]
        BY <2>1, <2>2 DEF PlacesIn
      <4>2. ASSUME NEW i \in 1..(m + 1), s[i] \in S PROVE \E k \in 1..Len(f[m]) : h[k] = i
        <5>1. i \in 1..m
          BY <2>1, <2>5, <4>2
        <5> QED BY <2>2, <4>2, <5>1 DEF PlacesIn
      <4> QED BY <2>2, <4>1, <4>2 DEF PlacesIn
    <3> QED BY <2>3, <2>5, <3>1
  <2> QED BY <2>4, <2>5
<1>4. N = Nat
  BY <1>2, <1>3, InductionOnSet
<1> QED BY <1>1, <1>4

\* Erasing from a list keeps the rest, in its order.
THEOREM KeepProperties ==
    ASSUME NEW T, NEW s \in Seq(T), NEW S
    PROVE  /\ Keep(s, S) \in Seq(T)
           /\ \E h : PlacesIn(s, S, Len(s), Keep(s, S), h)
<1>1. Len(s) \in 0..Len(s)
  BY LenProperties
<1> QED BY <1>1, KeptOfDef, KeptOfPlaces DEF Keep

\* What is kept are the elements that were to be kept ...
THEOREM KeepRange ==
    ASSUME NEW T, NEW s \in Seq(T), NEW S
    PROVE  \A x : (\E k \in 1..Len(Keep(s, S)) : Keep(s, S)[k] = x)
                    <=> (x \in S /\ \E i \in 1..Len(s) : s[i] = x)
<1>1. PICK h : PlacesIn(s, S, Len(s), Keep(s, S), h)
  BY KeepProperties
<1> QED BY <1>1 DEF PlacesIn

\* ... none of them twice, if none was in the list twice.
THEOREM KeepOnce ==
    ASSUME NEW T, NEW s \in Seq(T), NEW S,
           \A i, j \in 1..Len(s) : s[i] = s[j] => i = j
    PROVE  \A k, l \in 1..Len(Keep(s, S)) : Keep(s, S)[k] = Keep(s, S)[l] => k = l
<1> DEFINE t == Keep(s, S)
<1>1. PICK h : PlacesIn(s, S, Len(s), t, h)
  BY KeepProperties
<1>2. PICK L \in Nat : L = Len(t)
  BY KeepProperties, LenProperties
<1> SUFFICES ASSUME NEW k \in 1..L, NEW l \in 1..L, t[k] = t[l] PROVE k = l
  BY <1>2
<1>3. h[k] \in 1..Len(s) /\ h[l] \in 1..Len(s)
  BY <1>1, <1>2 DEF PlacesIn
<1>4. h[k] = h[l]
  BY <1>1, <1>2, <1>3 DEF PlacesIn
<1>5. ~(k < l) /\ ~(l < k)
  BY <1>1, <1>2, <1>3, <1>4, LenProperties DEF PlacesIn
<1> QED BY <1>5

-----------------------------------------------------------------------------
Labels == {"idle", "purge", "connect", "send", "head", "body", "release"}

LEMMA ActorFacts == Users \subseteq Actors /\ Cleaner \in Actors /\ Cleaner \notin Users
BY ClientAssumption DEF Actors

LEMMA RequestType ==
    ASSUME TypeOK, NEW u \in Users
    PROVE  Request(u) \in Requests
<1>1. calls[u] \in 0..MaxCalls
  BY DEF TypeOK
<1> QED BY <1>1 DEF Request, Requests

\* Steps of the network and of a user with its connection leave the pool alone.
LEMMA PoolUntouched ==
    ASSUME PoolInv, UNCHANGED <<poolVars, conn>>, pc'[Cleaner] = pc[Cleaner]
    PROVE  Apart' /\ Kept' /\ Counted'
<1>1. UNCHANGED <<conns, total, exists, doomed, owner, conn>> /\ pc'[Cleaner] = pc[Cleaner]
  BY DEF poolVars
<1>2. Listed' = Listed
  BY <1>1 DEF Listed
<1>3. Apart'
  BY <1>1, <1>2 DEF PoolInv, Apart
<1>4. Kept'
  BY <1>1, <1>2 DEF PoolInv, Kept
<1>5. Counted'
  BY <1>1 DEF PoolInv, Counted, TotalExact, Alive
<1> QED BY <1>3, <1>4, <1>5

\* A user that does not move, and whose connection is left alone, stays in step.
Undisturbed(v) ==
    /\ conn'[v] = conn[v] /\ pc'[v] = pc[v] /\ need'[v] = need[v]
    /\ calls'[v] = calls[v] /\ got'[v] = got[v] /\ torn'[v] = torn[v]
    /\ body'[v] = body[v] /\ early'[v] = early[v]
    /\ \A c \in connected' : conn[v] = c =>
           /\ owed'[c] = owed[c] /\ stream'[c] = stream[c]
           /\ c \notin spoiled' => c \in connected /\ c \notin spoiled
    /\ conn[v] \in spoiled => conn[v] \in spoiled'

LEMMA UndisturbedInStep ==
    ASSUME StreamsInStep, NEW v \in Users, Undisturbed(v)
    PROVE  UserInStep(v)'
<1>1. UserInStep(v)
  BY DEF StreamsInStep
<1>2. ASSUME NEW c \in connected' \ spoiled', conn'[v] = c
      PROVE  InStep(v, c)'
  <2>1. InStep(v, c) /\ owed'[c] = owed[c] /\ stream'[c] = stream[c]
    BY <1>1, <1>2 DEF UserInStep, Undisturbed
  <2>2. Request(v)' = Request(v)
    BY DEF Request, Undisturbed
  <2>3. Answered(v, c) => Answered(v, c)'
    BY <2>1, <2>2 DEF Answered
  <2> QED BY <2>1, <2>2, <2>3 DEF InStep, Quiet, Undisturbed
<1>3. /\ pc'[v] \in {"idle", "purge", "connect", "send", "head"} =>
             got'[v] = None /\ body'[v] = <<>>
      /\ pc'[v] \in {"body", "release"} /\ got'[v] # None =>
             got'[v].req = Request(v)' \/ conn'[v] \in spoiled'
      /\ pc'[v] = "release" /\ got'[v] # None /\ conn'[v] \notin spoiled' =>
             body'[v] = BodyMade(got'[v], early'[v])
  BY <1>1 DEF UserInStep, Undisturbed, Request
<1> QED BY <1>2, <1>3 DEF UserInStep

\* The connection of a user who is at work with it.
LEMMA UsersConnection ==
    ASSUME PoolInv, NEW u \in Users, pc[u] \in {"send", "head", "body", "release"}
    PROVE  /\ conn[u] \in Conns /\ conn[u] \in exists /\ conn[u] \notin Listed
           /\ \A v \in Users \ {u} : conn[v] # conn[u]
           /\ \A a \in Actors : conn[u] \notin doomed[a]
           /\ pc[u] # "release" => conn[u] \in connected
<1>1. TypeOK /\ Apart /\ Kept /\ Stages
  BY DEF PoolInv
<1>2. conn[u] # None /\ conn[u] \in Conns
  BY <1>1 DEF Stages, TypeOK
<1> QED BY <1>1, <1>2 DEF Apart, Kept, Stages

\* A step that moves a user only within its request, with the connection it holds.
LEMMA UserStages ==
    ASSUME PoolInv, NEW u \in Users, pc[u] \in {"send", "head", "body", "release"},
           NEW label \in {"head", "body", "release"}, pc' = [pc EXCEPT ![u] = label],
           UNCHANGED <<conn, doomed, owner>>,
           \A c \in connected : c # conn[u] => c \in connected',
           label # "release" => conn[u] \in connected'
    PROVE  Stages' /\ pc' \in [Actors -> Labels] /\ pc'[Cleaner] = pc[Cleaner]
<1>1. pc \in [Actors -> Labels]
  BY DEF PoolInv, TypeOK, Labels
<1>2. /\ pc' \in [Actors -> Labels] /\ pc'[u] = label
      /\ \A a \in Actors \ {u} : pc'[a] = pc[a]
  BY <1>1, ActorFacts DEF Labels
<1>3. pc'[Cleaner] = pc[Cleaner]
  BY <1>2, ActorFacts
<1>4. /\ conn[u] # None /\ \A v \in Users \ {u} : conn[v] # conn[u]
      /\ \A a \in Actors : doomed[a] # {} => pc[a] = "purge"
  BY UsersConnection, ClientAssumption DEF PoolInv, Stages
<1>5. \A a \in Actors : doomed'[a] # {} => pc'[a] = "purge"
  BY <1>2, <1>4
<1>6. ASSUME NEW v \in Users
      PROVE  /\ pc'[v] \in {"purge", "connect"} => owner'
             /\ pc'[v] \in {"idle", "connect"} => conn'[v] = None
             /\ pc'[v] \in {"send", "head", "body", "release"} => conn'[v] # None
             /\ pc'[v] \in {"purge", "send", "head", "body"} /\ conn'[v] # None
                    => conn'[v] \in connected'
  <2>1. CASE v = u
    BY <1>2, <1>4, <2>1
  <2>2. CASE v # u
    BY <1>2, <1>4, <2>2, ActorFacts DEF PoolInv, Stages
  <2> QED BY <2>1, <2>2
<1>7. pc'[Cleaner] \in {"idle", "purge"}
  BY <1>3 DEF PoolInv, Stages
<1> QED BY <1>2, <1>3, <1>5, <1>6, <1>7 DEF Stages

\* What a user does with its connection concerns only itself and that connection:
\* what is left to prove is that the user is in step afterwards.
Works(u, label) ==
    /\ pc' = [pc EXCEPT ![u] = label]
    /\ UNCHANGED <<conns, total, exists, doomed, owner, hungUp, expired, served, spoiled,
                   conn, calls>>
    /\ connected' = connected \/ (label = "release" /\ connected' = connected \ {conn[u]})
    /\ owed' \in [Conns -> Seq(Requests)] /\ stream' \in [Conns -> Seq(Pieces)]
    /\ \A d \in Conns \ {conn[u]} : owed'[d] = owed[d] /\ stream'[d] = stream[d]
    /\ torn' \in [Users -> Nat] /\ got' \in [Users -> Pieces \cup {None}]
    /\ need' \in [Users -> Nat] /\ body' \in [Users -> Seq(Pieces)]
    /\ early' \in [Users -> Nat] /\ wild' = wild
    /\ \A v \in Users \ {u} : /\ need'[v] = need[v] /\ got'[v] = got[v]
                              /\ torn'[v] = torn[v] /\ body'[v] = body[v]
                              /\ early'[v] = early[v]

LEMMA WorkKeeps ==
    ASSUME ClientInv, NEW u \in Users, pc[u] \in {"send", "head", "body"},
           NEW label \in {"head", "body", "release"}, Works(u, label), UserInStep(u)'
    PROVE  ClientInv'
<1> DEFINE c == conn[u]
<1>1. PoolInv /\ StreamsInStep /\ TypeOK
  BY DEF ClientInv, PoolInv
<1>2. /\ c \in Conns /\ c \in exists /\ c \notin Listed
      /\ \A v \in Users \ {u} : conn[v] # c
  BY <1>1, UsersConnection
<1>3. Stages' /\ pc' \in [Actors -> Labels] /\ pc'[Cleaner] = pc[Cleaner]
  <2>1. \A d \in connected : d # c => d \in connected'
    BY DEF Works
  <2>2. label # "release" => c \in connected'
    BY <1>1, UsersConnection DEF Works, PoolInv, Stages
  <2> QED BY <1>1, <2>1, <2>2, UserStages DEF Works
<1>4. TypeOK'
  BY <1>1, <1>3 DEF TypeOK, Labels, Works
<1>5. Apart' /\ Kept' /\ Counted'
  BY <1>1, <1>3, PoolUntouched DEF poolVars, Works
<1>6. \A d \in Listed : d \in Conns /\ d # c
  <2>1. \A i \in 1..Len(conns) : conns[i] \in Conns
    BY <1>1, LenProperties DEF TypeOK
  <2> QED BY <1>2, <2>1 DEF Listed
<1>7. Listed' = Listed
  BY DEF Listed, Works
<1>8. Fresh'
  BY <1>1, <1>2 DEF PoolInv, Fresh, Quiet, Works
<1>9. IdleUsable'
  <2>1. \A d \in ToSet(conns) : d \in Listed
    BY <1>1, LenProperties DEF ToSet, Listed, TypeOK
  <2> QED BY <1>1, <1>6, <2>1 DEF PoolInv, IdleUsable, Works
<1>10. \A d \in Listed' : d \notin spoiled' => Quiet(d)'
  BY <1>1, <1>6, <1>7 DEF StreamsInStep, Quiet, Works
<1>11. ASSUME NEW v \in Users \ {u} PROVE UserInStep(v)'
  <2>1. pc'[v] = pc[v]
    BY <1>1, ActorFacts DEF TypeOK, Works
  <2>2. \A d \in connected' : conn[v] = d => d \in Conns \ {c} /\ d \in connected
    BY <1>1, <1>2 DEF TypeOK, Works
  <2>3. Undisturbed(v)
    BY <2>1, <2>2 DEF Undisturbed, Works
  <2> QED BY <1>1, <2>3, UndisturbedInStep
<1>12. StreamsInStep'
  BY <1>10, <1>11 DEF StreamsInStep
<1> QED BY <1>3, <1>4, <1>5, <1>8, <1>9, <1>12 DEF ClientInv, PoolInv

\* sendRequest, and how it fails.
LEMMA SendRequestKeeps ==
    ASSUME ClientInv, NEW u \in Users, SendRequest(u)
    PROVE  ClientInv'
<1> DEFINE c == conn[u]
<1>1. PoolInv /\ pc[u] = "send" /\ TypeOK /\ UserInStep(u)
  BY DEF ClientInv, PoolInv, SendRequest, StreamsInStep
<1>2. /\ owed' = [owed EXCEPT ![c] = IF c \in hungUp THEN @ ELSE Append(@, Request(u))]
      /\ pc' = [pc EXCEPT ![u] = "head"]
      /\ UNCHANGED <<conns, total, exists, doomed, owner, connected, hungUp, expired, served,
                     stream, spoiled, conn, calls, torn, need, got, body, early, wild>>
  BY DEF SendRequest, poolVars, connVars, bufVars, Goto
<1>3. c \in Conns /\ c \in connected
  BY <1>1, UsersConnection
<1>4. Request(u) \in Requests /\ owed[c] \in Seq(Requests)
  BY <1>1, <1>3, RequestType DEF TypeOK
<1>5. Append(owed[c], Request(u)) \in Seq(Requests)
  BY <1>4, AppendProperties
<1>6. /\ owed' \in [Conns -> Seq(Requests)]
      /\ owed'[c] = IF c \in hungUp THEN owed[c] ELSE Append(owed[c], Request(u))
      /\ \A d \in Conns \ {c} : owed'[d] = owed[d]
  BY <1>1, <1>2, <1>3, <1>4, <1>5 DEF TypeOK
<1>7. Works(u, "head")
  BY <1>1, <1>2, <1>6 DEF Works, TypeOK
<1>8. /\ pc'[u] = "head" /\ Request(u)' = Request(u) /\ conn'[u] = c
      /\ spoiled' = spoiled /\ connected' = connected /\ stream' = stream /\ got' = got
      /\ body' = body
  BY <1>1, <1>2, ActorFacts DEF TypeOK, Request
<1>9. got'[u] = None /\ body'[u] = <<>>
  BY <1>1, <1>8 DEF UserInStep
<1>10. ASSUME c \notin spoiled PROVE InStep(u, c)'
  <2>1. Quiet(c)
    BY <1>1, <1>3, <1>10 DEF UserInStep, InStep
  <2>2. Append(<<>>, Request(u)) = <<Request(u)>>
    OBVIOUS
  <2> QED BY <1>6, <1>8, <2>1, <2>2 DEF InStep, Quiet
<1>11. UserInStep(u)'
  BY <1>8, <1>9, <1>10 DEF UserInStep
<1> QED BY <1>1, <1>7, <1>11, WorkKeeps

LEMMA SendFailsKeeps ==
    ASSUME ClientInv, NEW u \in Users, SendFails(u)
    PROVE  ClientInv'
<1>1. PoolInv /\ pc[u] = "send" /\ TypeOK /\ UserInStep(u)
  BY DEF ClientInv, PoolInv, SendFails, StreamsInStep
<1>2. pc' = [pc EXCEPT ![u] = "release"]
      /\ UNCHANGED <<conns, total, exists, doomed, owner, connected, hungUp, expired, served,
                     owed, stream, spoiled, conn, calls, torn, need, got, body, early, wild>>
  BY DEF SendFails, poolVars, connVars, netVars, Goto, bufVars
<1>3. Works(u, "release")
  BY <1>1, <1>2 DEF Works, TypeOK
<1>4. pc'[u] = "release"
  BY <1>1, <1>2, ActorFacts DEF TypeOK
<1>5. UserInStep(u)'
  BY <1>1, <1>2, <1>4 DEF UserInStep, InStep, Quiet
<1> QED BY <1>1, <1>3, <1>5, WorkKeeps

\* read() fails: the connection is closed and there is no response.
LEMMA ReadFailsKeeps ==
    ASSUME ClientInv, NEW u \in Users, ReadFails(u)
    PROVE  ClientInv'
<1>1. PoolInv /\ pc[u] \in {"head", "body"} /\ TypeOK
  BY DEF ClientInv, PoolInv, ReadFails
<1>2. /\ connected' = connected \ {conn[u]} /\ pc' = [pc EXCEPT ![u] = "release"]
      /\ got' = [got EXCEPT ![u] = None]
      /\ UNCHANGED <<conns, total, exists, doomed, owner, hungUp, expired, served,
                     owed, stream, spoiled, conn, calls, torn, need, body, early, wild>>
  BY DEF ReadFails, Fail, poolVars, netVars, Goto, bufVars
<1>3. Works(u, "release")
  BY <1>1, <1>2 DEF Works, TypeOK
<1>4. pc'[u] = "release" /\ got'[u] = None
  BY <1>1, <1>2, ActorFacts DEF TypeOK
<1>5. UserInStep(u)'
  BY <1>1, <1>2, <1>4 DEF UserInStep
<1> QED BY <1>1, <1>3, <1>5, WorkKeeps

-----------------------------------------------------------------------------
LEMMA MinOfTwo ==
    ASSUME NEW a \in Int, NEW b \in Int
    PROVE  \A n \in 1..Min({a, b}) : n <= a /\ n <= b
<1>1. \E x \in {a, b} : \A y \in {a, b} : x <= y
  OBVIOUS
<1>2. Min({a, b}) \in {a, b} /\ \A y \in {a, b} : Min({a, b}) <= y
  BY <1>1 DEF Min
<1>3. Min({a, b}) \in Int /\ Min({a, b}) <= a /\ Min({a, b}) <= b
  BY <1>2
<1> QED BY <1>3

\* A response: the pieces of its header and of its body, each with its number.
LEMMA ResponseIs ==
    ASSUME NEW req \in Requests, NEW framing \in Framings, NEW hl \in HeadLens,
           NEW len \in BodyLens
    PROVE  /\ Response(req, framing, hl, len) \in Seq(Pieces)
           /\ Len(Response(req, framing, hl, len)) = hl + len
           /\ Response(req, framing, hl, len)[1] = Piece(req, 1, framing, hl, len)
<1> DEFINE hs == [i \in 1..hl |-> Piece(req, i, framing, hl, len)]
           bs == [i \in 1..len |-> Piece(req, hl + i, framing, hl, len)]
<1>1. hl \in Nat \ {0} /\ len \in Nat
  BY ClientAssumption
<1>2. \A i \in Nat : Piece(req, i, framing, hl, len) \in Pieces
  BY DEF Piece, Pieces
<1>3. hs \in Seq(Pieces) /\ Len(hs) = hl
  BY <1>1, <1>2
<1>4. bs \in Seq(Pieces) /\ Len(bs) = len
  <2>1. \A i \in 1..len : hl + i \in Nat
    BY <1>1
  <2> QED BY <1>1, <1>2, <2>1
<1>5. 1 \in 1..(hl + len) /\ 1 <= hl /\ hs[1] = Piece(req, 1, framing, hl, len)
  BY <1>1
<1> HIDE DEF hs, bs
<1>6. /\ hs \o bs \in Seq(Pieces) /\ Len(hs \o bs) = hl + len
      /\ (hs \o bs)[1] = hs[1]
  BY <1>1, <1>3, <1>4, <1>5, ConcatProperties
<1> QED BY <1>5, <1>6 DEF Response, hs, bs

\* A read takes n pieces from the stream.
LEMMA ReadTakes ==
    ASSUME NEW s \in Seq(Pieces), NEW n \in 1..Len(s)
    PROVE  /\ SubSeq(s, n + 1, Len(s)) \in Seq(Pieces)
           /\ Len(SubSeq(s, n + 1, Len(s))) = Len(s) - n
           /\ SubSeq(s, 1, n)[1] = s[1] /\ s[1] \in Pieces
           /\ SubSeq(s, 1, n) \in Seq(Pieces) /\ Len(SubSeq(s, 1, n)) = n
           /\ SubSeq(s, 1, n) \o SubSeq(s, n + 1, Len(s)) = s
<1>1. Len(s) \in Nat /\ n \in Nat /\ 1 \in 1..Len(s) /\ \A i \in 1..Len(s) : s[i] \in Pieces
  BY LenProperties, ElementOfSeq
<1>2. /\ SubSeq(s, n + 1, Len(s)) \in Seq(Pieces)
      /\ Len(SubSeq(s, n + 1, Len(s))) = IF n + 1 <= Len(s) THEN Len(s) - (n + 1) + 1 ELSE 0
  BY <1>1, SubSeqProperties
<1>3. /\ SubSeq(s, 1, n)[1] = s[1 + 1 - 1] /\ SubSeq(s, 1, n) \in Seq(Pieces)
      /\ Len(SubSeq(s, 1, n)) = n
  <2>1. \A i \in 1..n : s[i] \in Pieces
    BY <1>1
  <2>2. 1 \in 1..(n - 1 + 1) /\ 1 <= n /\ n - 1 + 1 = n
    BY <1>1
  <2> QED BY <1>1, <2>1, <2>2, SubSeqProperties
<1>4. SubSeq(s, 1, n) \o SubSeq(s, n + 1, Len(s)) = s
  <2>1. 1 \in 1..(Len(s) + 1) /\ n \in 0..Len(s) /\ Len(s) \in n..Len(s)
    BY <1>1
  <2>2. 0 = 1 - 1
    OBVIOUS
  <2>3. SubSeq(s, 1, n) \o SubSeq(s, n + 1, Len(s)) = SubSeq(s, 1, Len(s))
    BY <2>1, <2>2, ConcatAdjacentSubSeq
  <2> QED BY <2>3, SubSeqFull
<1> QED BY <1>1, <1>2, <1>3, <1>4

\* The front of what a read took is the front of the stream.
LEMMA FrontOfRead ==
    ASSUME NEW s \in Seq(Pieces), NEW n \in 1..Len(s), NEW k \in 0..n
    PROVE  /\ SubSeq(SubSeq(s, 1, n), 1, k) = SubSeq(s, 1, k)
           /\ SubSeq(SubSeq(s, 1, n), 1, k) \in Seq(Pieces)
<1>1. Len(s) \in Nat /\ n \in Nat /\ k \in Nat /\ \A i \in 1..Len(s) : s[i] \in Pieces
  BY LenProperties, ElementOfSeq
<1>2. SubSeq(s, 1, k) \in Seq(Pieces)
  BY <1>1, SubSeqProperties
<1>3. CASE k = 0
  BY <1>3, SubSeqEmpty
<1>4. CASE k # 0
  <2>1. 1 \in 1..Len(s) /\ n \in 1..Len(s) /\ 1 \in 1..(n - 1 + 1) /\ k \in 1..(n - 1 + 1)
    BY <1>1, <1>4
  <2>2. SubSeq(SubSeq(s, 1, n), 1, k) = SubSeq(s, 1 + 1 - 1, 1 + k - 1)
    BY <2>1, SubSeqOfSubSeq
  <2>3. 1 + 1 - 1 = 1 /\ 1 + k - 1 = k
    BY <1>1
  <2> QED BY <1>2, <2>2, <2>3
<1> QED BY <1>2, <1>3, <1>4, SubSeqEmpty

\* recvResponse reads the header: it fails, the header is not complete, or it is.
LEMMA ReadHeadKeeps ==
    ASSUME ClientInv, NEW u \in Users, NEW n \in 1..BufLen, ReadHead(u, n)
    PROVE  ClientInv'
<1> DEFINE c == conn[u]
           in == SubSeq(stream[c], 1, n)
           h == in[1]
           wrong == \E i \in 1..Min({n, h.head}) : in[i].part # i
           beyond == n - h.head
           rest == SubSeq(stream[c], n + 1, Len(stream[c]))
           copied == SubSeq(in, 1, Min({h.len, beyond}))
<1>1. PoolInv /\ pc[u] = "head" /\ torn[u] = 0 /\ TypeOK /\ UserInStep(u)
  BY DEF ClientInv, PoolInv, ReadHead, StreamsInStep
<1>2. /\ n \in 1..Min({BufLen, Len(stream[c])})
      /\ stream' = [stream EXCEPT ![c] = rest]
      /\ \/ /\ Fail(u)
            /\ UNCHANGED <<torn, need, got, body, early>>
         \/ /\ torn' = [torn EXCEPT ![u] = n]
            /\ UNCHANGED <<connected, need, got, body, early, pc>>
         \/ /\ ~wrong /\ beyond >= 0
            /\ got' = [got EXCEPT ![u] = h]
            /\ early' = [early EXCEPT ![u] = beyond]
            /\ UNCHANGED torn
            /\ connected' = IF h.framing = "chunked" THEN connected \ {c} ELSE connected
            /\ body' = IF h.framing = "length" THEN [body EXCEPT ![u] = copied] ELSE body
            /\ IF h.framing = "length" /\ h.len > beyond
               THEN need' = [need EXCEPT ![u] = h.len - beyond] /\ Goto(u, "body")
               ELSE need' = [need EXCEPT ![u] = 0] /\ Goto(u, "release")
      /\ UNCHANGED <<conns, total, exists, doomed, owner, hungUp, expired, served,
                     owed, spoiled, conn, calls, wild>>
  BY DEF ReadHead, poolVars, bufVars
<1>3. /\ c \in Conns /\ c \in connected /\ stream[c] \in Seq(Pieces)
      /\ pc \in [Actors -> Labels] /\ u \in Actors
  BY <1>1, UsersConnection, ActorFacts DEF TypeOK, Labels
<1>4. n \in 1..Len(stream[c])
  <2>1. BufLen \in Int /\ Len(stream[c]) \in Nat
    BY <1>3, LenProperties, ClientAssumption
  <2>2. \A k \in 1..Min({BufLen, Len(stream[c])}) : k <= Len(stream[c])
    BY <2>1, MinOfTwo
  <2>3. n <= Len(stream[c])
    BY <1>2, <2>2
  <2>4. n \in Nat /\ 1 <= n
    BY <2>1
  <2> QED BY <2>1, <2>3, <2>4
<1>5. /\ rest \in Seq(Pieces) /\ Len(rest) = Len(stream[c]) - n
      /\ h = stream[c][1] /\ h \in Pieces
  BY <1>3, <1>4, ReadTakes
<1>6. /\ stream' \in [Conns -> Seq(Pieces)] /\ stream'[c] = rest
      /\ \A d \in Conns \ {c} : stream'[d] = stream[d]
  BY <1>1, <1>2, <1>3, <1>5 DEF TypeOK
<1>7. /\ Request(u)' = Request(u) /\ conn'[u] = c /\ spoiled' = spoiled
      /\ got[u] = None /\ body[u] = <<>>
  BY <1>1, <1>2 DEF Request, UserInStep
<1>8. CASE Fail(u) /\ UNCHANGED <<torn, need, got, body, early>>
  <2>1. connected' = connected \ {c} /\ pc' = [pc EXCEPT ![u] = "release"]
    BY <1>8 DEF Fail, Goto
  <2>2. Works(u, "release")
    BY <1>1, <1>2, <1>6, <1>8, <2>1 DEF Works, TypeOK
  <2>3. pc'[u] = "release"
    BY <1>3, <2>1
  <2>4. UserInStep(u)'
    BY <1>7, <1>8, <2>1, <2>3 DEF UserInStep
  <2> QED BY <1>1, <2>2, <2>4, WorkKeeps
<1>9. CASE torn' = [torn EXCEPT ![u] = n] /\ UNCHANGED <<connected, need, got, body, early, pc>>
  <2>1. pc' = [pc EXCEPT ![u] = "head"] /\ pc'[u] = "head"
    BY <1>1, <1>3, <1>9
  <2>2. n \in Nat \ {0} /\ torn' \in [Users -> Nat] /\ torn'[u] = n
        /\ \A v \in Users \ {u} : torn'[v] = torn[v]
    BY <1>1, <1>4, <1>9 DEF TypeOK
  <2>3. Works(u, "head")
    BY <1>1, <1>2, <1>6, <1>9, <2>1, <2>2 DEF Works, TypeOK
  <2>4. UserInStep(u)'
    BY <1>1, <1>7, <1>9, <2>1, <2>2 DEF UserInStep, InStep
  <2> QED BY <1>1, <2>3, <2>4, WorkKeeps
<1>10. ASSUME beyond >= 0, got' = [got EXCEPT ![u] = h], early' = [early EXCEPT ![u] = beyond],
              UNCHANGED torn,
              connected' = IF h.framing = "chunked" THEN connected \ {c} ELSE connected,
              body' = IF h.framing = "length" THEN [body EXCEPT ![u] = copied] ELSE body,
              IF h.framing = "length" /\ h.len > beyond
              THEN need' = [need EXCEPT ![u] = h.len - beyond] /\ Goto(u, "body")
              ELSE need' = [need EXCEPT ![u] = 0] /\ Goto(u, "release")
       PROVE  ClientInv'
  <2>1. /\ h.head \in Nat \ {0} /\ h.len \in Nat /\ n \in Nat /\ beyond \in Nat /\ beyond <= n
        /\ h.req \in Requests /\ h.framing \in Framings
    <3>1. h.head \in HeadLens /\ h.len \in BodyLens /\ h.req \in Requests
          /\ h.framing \in Framings
      BY <1>5 DEF Pieces
    <3> HIDE DEF h
    <3>2. h.head \in Nat \ {0} /\ h.len \in Nat
      BY <3>1, ClientAssumption, Zenon
    <3>3. n \in Nat
      BY ClientAssumption
    <3> QED BY <1>10, <3>1, <3>2, <3>3
  <2>2. /\ got'[u] = h /\ got' \in [Users -> Pieces \cup {None}]
        /\ early'[u] = beyond /\ early' \in [Users -> Nat]
        /\ \A v \in Users \ {u} : got'[v] = got[v] /\ early'[v] = early[v]
    BY <1>1, <1>5, <1>10, <2>1 DEF TypeOK
  <2>3. PICK k \in 0..n : k = Min({h.len, beyond}) /\ (h.len >= beyond => k = beyond)
    <3>1. \E x \in {h.len, beyond} : \A y \in {h.len, beyond} : x <= y
      BY <2>1
    <3>2. /\ Min({h.len, beyond}) \in {h.len, beyond}
          /\ \A y \in {h.len, beyond} : Min({h.len, beyond}) <= y
      BY <3>1 DEF Min
    <3>3. beyond \in 0..n /\ h.len \in Nat
      BY <2>1
    <3> DEFINE m == Min({h.len, beyond})
    <3>4. m \in {h.len, beyond} /\ m <= h.len /\ m <= beyond
      BY <3>2
    <3> HIDE DEF m, h, beyond
    <3>5. m \in 0..n /\ (h.len >= beyond => m = beyond)
      BY <3>3, <3>4
    <3> QED BY <3>5 DEF m
  <2>4. copied = SubSeq(stream[c], 1, k) /\ copied \in Seq(Pieces)
    BY <1>3, <1>4, <2>3, FrontOfRead
  <2>5. /\ body' \in [Users -> Seq(Pieces)] /\ \A v \in Users \ {u} : body'[v] = body[v]
        /\ body'[u] = IF h.framing = "length" THEN copied ELSE <<>>
    <3>1. body \in [Users -> Seq(Pieces)]
      BY <1>1 DEF TypeOK
    <3> HIDE DEF copied
    <3> QED BY <1>7, <1>10, <2>4, <3>1
  <2>6. ASSUME c \notin spoiled
        PROVE  /\ h.req = Request(u) /\ owed[c] = <<>>
               /\ Len(rest) = h.len - beyond /\ h.len >= beyond
               /\ h.framing = "none" => h.len = 0
               /\ stream[c] = Response(h.req, h.framing, h.head, h.len)
    <3>1. stream[c] # <<>>
      BY <1>3, <1>4
    <3>2. owed[c] = <<>> /\ Answered(u, c)
      BY <1>1, <1>3, <2>6, <3>1 DEF UserInStep, InStep, Quiet
    <3>3. PICK framing \in Framings, hl \in HeadLens, len \in BodyLens :
              /\ stream[c] = Response(Request(u), framing, hl, len)
              /\ framing = "none" => len = 0
      BY <3>2 DEF Answered
    <3>4. Len(stream[c]) = hl + len /\ h = Piece(Request(u), 1, framing, hl, len)
      BY <1>1, <1>5, <3>3, RequestType, ResponseIs
    <3>5. h.req = Request(u) /\ h.framing = framing /\ h.head = hl /\ h.len = len
      BY <3>4 DEF Piece
    <3>6. Len(rest) = Len(stream[c]) - n /\ Len(rest) \in Nat
      BY <1>5, LenProperties
    <3>7. Len(rest) = h.len - beyond /\ h.len >= beyond
      <4>1. Len(stream[c]) = h.head + h.len
        BY <3>4, <3>5
      <4> DEFINE r == Len(rest)
      <4>2. r = (h.head + h.len) - n /\ r \in Nat
        BY <3>6, <4>1
      <4> HIDE DEF r, h
      <4>3. r = h.len - (n - h.head) /\ h.len >= n - h.head
        BY <2>1, <4>2
      <4> QED BY <4>3 DEF r
    <3>8. stream[c] = Response(h.req, h.framing, h.head, h.len) /\ (h.framing = "none" => h.len = 0)
      BY <3>3, <3>5
    <3> HIDE DEF h, rest, beyond
    <3> QED BY <3>2, <3>5, <3>7, <3>8
  <2>7. c \notin spoiled /\ h.framing = "length" => copied \o rest = BodyMade(h, beyond)
    <3> SUFFICES ASSUME c \notin spoiled, h.framing = "length"
                 PROVE  copied \o rest = BodyMade(h, beyond)
      OBVIOUS
    <3>1. k = beyond /\ h.head + beyond + 1 = n + 1
      BY <2>1, <2>3, <2>6
    <3>2. BodyMade(h, beyond) = SubSeq(stream[c], 1, beyond)
                                    \o SubSeq(stream[c], h.head + beyond + 1, Len(stream[c]))
      BY <2>6 DEF BodyMade
    <3> QED BY <2>4, <3>1, <3>2
  <2>8. c \notin spoiled /\ h.framing # "length" => <<>> = BodyMade(h, beyond)
    BY DEF BodyMade
  <2> HIDE DEF copied, rest, beyond, h
  <2>9. CASE h.framing = "length" /\ h.len > beyond
    <3>1. /\ need' = [need EXCEPT ![u] = h.len - beyond]
          /\ pc' = [pc EXCEPT ![u] = "body"] /\ connected' = connected
      BY <1>10, <2>9 DEF Goto
    <3>2. h.len - beyond \in Nat
      BY <2>1, <2>9
    <3>3. Works(u, "body")
      BY <1>1, <1>2, <1>6, <1>10, <2>2, <2>5, <3>1, <3>2 DEF Works, TypeOK
    <3>4. pc'[u] = "body" /\ need'[u] = h.len - beyond
      BY <1>1, <1>3, <3>1 DEF TypeOK
    <3>5. c \notin spoiled => /\ owed'[c] = <<>> /\ Len(stream'[c]) = need'[u]
                              /\ body'[u] \o stream'[c] = BodyMade(got'[u], early'[u])
      BY <1>2, <1>6, <2>2, <2>5, <2>6, <2>7, <2>9, <3>4
    <3>6. UserInStep(u)'
      BY <1>7, <2>2, <2>6, <3>4, <3>5 DEF UserInStep, InStep
    <3> QED BY <1>1, <3>3, <3>6, WorkKeeps
  <2>10. CASE ~(h.framing = "length" /\ h.len > beyond)
    <3>1. /\ need' = [need EXCEPT ![u] = 0] /\ pc' = [pc EXCEPT ![u] = "release"]
      BY <1>10, <2>10 DEF Goto
    <3>2. Works(u, "release")
      BY <1>1, <1>2, <1>6, <1>10, <2>2, <2>5, <3>1 DEF Works, TypeOK
    <3>3. pc'[u] = "release"
      BY <1>3, <3>1
    <3>4. c \notin spoiled /\ h.framing # "chunked" => owed'[c] = <<>> /\ rest = <<>>
      <4> SUFFICES ASSUME c \notin spoiled, h.framing # "chunked"
                   PROVE  owed'[c] = <<>> /\ rest = <<>>
        OBVIOUS
      <4>1. h.framing \in {"length", "none"}
        BY <2>1 DEF Framings
      <4>2. h.len <= beyond
        BY <2>1, <2>6, <2>10, <4>1
      <4>3. Len(rest) = 0
        BY <2>1, <2>6, <4>2
      <4> QED BY <1>2, <1>5, <2>6, <4>3, EmptySeq
    <3>5. c \notin spoiled => body'[u] = BodyMade(got'[u], early'[u])
      <4>1. h.framing = "length" /\ c \notin spoiled => copied \o <<>> = copied
        BY <2>4, ConcatEmptySeq
      <4> QED BY <2>2, <2>5, <2>7, <2>8, <3>4, <4>1
    <3>6. c \in connected' => h.framing # "chunked"
      BY <1>10
    <3>7. UserInStep(u)'
      BY <1>6, <1>7, <2>2, <2>6, <3>3, <3>4, <3>5, <3>6 DEF UserInStep, InStep, Quiet
    <3> QED BY <1>1, <3>2, <3>7, WorkKeeps
  <2> QED BY <2>9, <2>10
<1> QED BY <1>2, <1>8, <1>9, <1>10

\* The read after an incomplete header ends the connection ...
LEMMA ReadTornKeeps ==
    ASSUME ClientInv, NEW u \in Users, NEW n \in 1..BufLen, ReadTorn(u, n)
    PROVE  ClientInv'
<1> DEFINE c == conn[u]
           rest == SubSeq(stream[c], n + 1, Len(stream[c]))
<1>1. PoolInv /\ pc[u] = "head" /\ TypeOK /\ UserInStep(u)
  BY DEF ClientInv, PoolInv, ReadTorn, StreamsInStep
<1>2. /\ n \in 1..Min({BufLen - torn[u] - 2, Len(stream[c])})
      /\ stream' = [stream EXCEPT ![c] = rest]
      /\ connected' = connected \ {c} /\ pc' = [pc EXCEPT ![u] = "release"]
      /\ UNCHANGED <<conns, total, exists, doomed, owner, hungUp, expired, served,
                     owed, spoiled, conn, calls, torn, need, got, body, early, wild>>
  BY DEF ReadTorn, Fail, Goto, poolVars, bufVars
<1>3. /\ c \in Conns /\ stream[c] \in Seq(Pieces) /\ Len(stream[c]) \in Nat
      /\ pc \in [Actors -> Labels] /\ u \in Actors
  BY <1>1, UsersConnection, ActorFacts, LenProperties DEF TypeOK, Labels
<1>4. n \in 1..Len(stream[c])
  <2>1. BufLen - torn[u] - 2 \in Int /\ Len(stream[c]) \in Int /\ BufLen \in Nat
    BY <1>1, <1>3, ClientAssumption DEF TypeOK
  <2>2. \A k \in 1..Min({BufLen - torn[u] - 2, Len(stream[c])}) : k <= Len(stream[c])
    BY <2>1, MinOfTwo
  <2>3. n <= Len(stream[c])
    BY <1>2, <2>2
  <2>4. n \in Nat /\ 1 <= n
    BY <2>1
  <2> QED BY <1>3, <2>3, <2>4
<1>5. rest \in Seq(Pieces)
  BY <1>3, <1>4, ReadTakes
<1>6. /\ stream' \in [Conns -> Seq(Pieces)]
      /\ \A d \in Conns \ {c} : stream'[d] = stream[d]
  BY <1>1, <1>2, <1>3, <1>5 DEF TypeOK
<1>7. Works(u, "release")
  BY <1>1, <1>2, <1>6 DEF Works, TypeOK
<1>8. pc'[u] = "release" /\ got'[u] = None /\ conn'[u] = c
  BY <1>1, <1>2, <1>3 DEF UserInStep
<1>9. UserInStep(u)'
  BY <1>2, <1>8 DEF UserInStep
<1> QED BY <1>1, <1>7, <1>9, WorkKeeps

\* ... and then what is left of the body.
LEMMA ReadBodyKeeps ==
    ASSUME ClientInv, NEW u \in Users, NEW n \in 1..BufLen, ReadBody(u, n)
    PROVE  ClientInv'
<1> DEFINE c == conn[u]
           in == SubSeq(stream[c], 1, n)
           rest == SubSeq(stream[c], n + 1, Len(stream[c]))
           label == IF n = need[u] THEN "release" ELSE "body"
<1>1. PoolInv /\ pc[u] = "body" /\ TypeOK /\ UserInStep(u)
  BY DEF ClientInv, PoolInv, ReadBody, StreamsInStep
<1>2. /\ n \in 1..Min({need[u], Len(stream[c])})
      /\ stream' = [stream EXCEPT ![c] = rest] /\ need' = [need EXCEPT ![u] = @ - n]
      /\ body' = [body EXCEPT ![u] = @ \o in] /\ pc' = [pc EXCEPT ![u] = label]
      /\ UNCHANGED <<conns, total, exists, doomed, owner, connected, hungUp, expired, served,
                     owed, spoiled, conn, calls, torn, got, early, wild>>
  BY DEF ReadBody, poolVars, connVars, Goto
<1>3. /\ c \in Conns /\ c \in connected /\ stream[c] \in Seq(Pieces) /\ need[u] \in Nat
      /\ body[u] \in Seq(Pieces)
      /\ pc \in [Actors -> Labels] /\ u \in Actors /\ Len(stream[c]) \in Nat
  BY <1>1, UsersConnection, ActorFacts, LenProperties DEF TypeOK, Labels
<1>4. n \in 1..Len(stream[c]) /\ n <= need[u]
  <2>1. need[u] \in Int /\ Len(stream[c]) \in Int
    BY <1>3
  <2>2. \A k \in 1..Min({need[u], Len(stream[c])}) : k <= need[u] /\ k <= Len(stream[c])
    BY <2>1, MinOfTwo
  <2>3. n <= need[u] /\ n <= Len(stream[c])
    BY <1>2, <2>2
  <2>4. n \in Nat /\ 1 <= n
    BY ClientAssumption
  <2> QED BY <1>3, <2>3, <2>4
<1>5. /\ rest \in Seq(Pieces) /\ Len(rest) = Len(stream[c]) - n
      /\ in \in Seq(Pieces) /\ in \o rest = stream[c]
  BY <1>3, <1>4, ReadTakes
<1> HIDE DEF in, rest
<1>6. /\ stream' \in [Conns -> Seq(Pieces)] /\ stream'[c] = rest
      /\ \A d \in Conns \ {c} : stream'[d] = stream[d]
  BY <1>1, <1>2, <1>3, <1>5 DEF TypeOK
<1>7. /\ need' \in [Users -> Nat] /\ need'[u] = need[u] - n
      /\ \A v \in Users \ {u} : need'[v] = need[v]
  BY <1>1, <1>2, <1>3, <1>4 DEF TypeOK
<1>8. /\ body' \in [Users -> Seq(Pieces)] /\ body'[u] = body[u] \o in
      /\ \A v \in Users \ {u} : body'[v] = body[v]
  <2>1. body[u] \o in \in Seq(Pieces)
    BY <1>3, <1>5, ConcatProperties
  <2> QED BY <1>1, <1>2, <2>1 DEF TypeOK
<1>9. Works(u, label) /\ label \in {"head", "body", "release"}
  BY <1>1, <1>2, <1>6, <1>7, <1>8 DEF Works, TypeOK
<1>10. pc'[u] = label /\ Request(u)' = Request(u) /\ conn'[u] = c
  BY <1>2, <1>3 DEF Request
<1>11. c \notin spoiled => /\ owed'[c] = <<>> /\ Len(stream'[c]) = need'[u]
                           /\ label = "release" => stream'[c] = <<>>
                           /\ body'[u] \o stream'[c] = BodyMade(got[u], early[u])
  <2> SUFFICES ASSUME c \notin spoiled
               PROVE  /\ owed'[c] = <<>> /\ Len(stream'[c]) = need'[u]
                      /\ label = "release" => stream'[c] = <<>>
                      /\ body'[u] \o stream'[c] = BodyMade(got[u], early[u])
    OBVIOUS
  <2>1. /\ owed[c] = <<>> /\ Len(stream[c]) = need[u]
        /\ body[u] \o stream[c] = BodyMade(got[u], early[u])
    BY <1>1, <1>3 DEF UserInStep, InStep
  <2>2. Len(rest) = need[u] - n
    BY <1>5, <2>1
  <2>3. label = "release" => Len(rest) = 0
    BY <1>3, <2>2
  <2>4. (body[u] \o in) \o rest = body[u] \o (in \o rest)
    <3>1. \A r, s, t \in Seq(Pieces) : (r \o s) \o t = r \o (s \o t)
      BY ConcatAssociative
    <3> QED BY <1>3, <1>5, <3>1
  <2>5. label = "release" => rest = <<>>
    BY <1>5, <2>3, EmptySeq
  <2> QED BY <1>2, <1>5, <1>6, <1>7, <1>8, <2>1, <2>2, <2>4, <2>5
<1>12. c \notin spoiled /\ label = "release" => body'[u] = BodyMade(got[u], early[u])
  <2>1. body'[u] \o <<>> = body'[u]
    BY <1>8, <1>1, ConcatEmptySeq
  <2> QED BY <1>11, <2>1
<1>13. UserInStep(u)'
  <2>1. /\ label \in {"body", "release"} /\ got' = got /\ early' = early /\ spoiled' = spoiled
        /\ got[u] # None => got[u].req = Request(u) \/ c \in spoiled
    BY <1>1, <1>2 DEF UserInStep
  <2>2. ASSUME c \notin spoiled PROVE InStep(u, c)'
    BY <1>10, <1>11, <2>1, <2>2 DEF InStep, Quiet
  <2> HIDE DEF label
  <2> QED BY <1>10, <1>12, <2>1, <2>2 DEF UserInStep
<1> QED BY <1>1, <1>9, <1>13, WorkKeeps

\* A read past the buffer: nothing is claimed of what comes after.
LEMMA OverrunKeeps ==
    ASSUME ClientInv, NEW u \in Users, Overrun(u)
    PROVE  ClientInv'
<1>1. /\ PoolInv /\ StreamsInStep /\ TypeOK /\ Apart /\ Kept /\ Stages /\ Counted /\ Fresh
      /\ IdleUsable
  BY DEF ClientInv, PoolInv
<1>2. /\ wild' = TRUE
      /\ UNCHANGED <<conns, total, exists, doomed, owner, connected, hungUp, expired, served,
                     owed, stream, spoiled, pc, conn, calls, torn, need, got, body, early>>
  BY DEF Overrun, poolVars, connVars, netVars, bufVars
<1>3. Listed' = Listed
  BY <1>2 DEF Listed
<1>4. TypeOK' /\ Stages' /\ Fresh' /\ IdleUsable'
  BY <1>1, <1>2 DEF TypeOK, Stages, Fresh, Quiet, IdleUsable
<1>5. Apart' /\ Kept' /\ Counted'
  BY <1>1, <1>2, PoolUntouched DEF poolVars
<1>6. \A d \in Listed' : d \notin spoiled' => Quiet(d)'
  BY <1>1, <1>2, <1>3 DEF StreamsInStep, Quiet
<1>7. ASSUME NEW v \in Users PROVE UserInStep(v)'
  <2>1. Undisturbed(v)
    BY <1>2 DEF Undisturbed
  <2> QED BY <1>1, <2>1, UndisturbedInStep
<1> QED BY <1>4, <1>5, <1>6, <1>7 DEF ClientInv, PoolInv, StreamsInStep

-----------------------------------------------------------------------------
\* What happens to a connection on the other side, or to its age.
Disturbs(c) ==
    /\ UNCHANGED <<poolVars, connected, served, userVars>>
    /\ hungUp' \subseteq hungUp \cup {c} /\ expired' \subseteq expired \cup {c}
    /\ spoiled \subseteq spoiled' /\ spoiled' \subseteq spoiled \cup {c}
    /\ owed' \in [Conns -> Seq(Requests)] /\ stream' \in [Conns -> Seq(Pieces)]
    /\ \A d \in Conns \ {c} : owed'[d] = owed[d] /\ stream'[d] = stream[d]

LEMMA DisturbanceKeeps ==
    ASSUME ClientInv, NEW c \in exists, Disturbs(c),
           c \in Listed /\ c \notin spoiled' => Quiet(c)',
           \A u \in Users : conn[u] = c /\ c \in connected /\ c \notin spoiled' => InStep(u, c)'
    PROVE  ClientInv'
<1>1. PoolInv /\ StreamsInStep /\ TypeOK
  BY DEF ClientInv, PoolInv
<1>2. UNCHANGED <<conns, total, exists, doomed, owner, connected, served, pc, conn, calls, torn,
                 need, got, body, early, wild>> /\ c \in Conns
  BY <1>1 DEF Disturbs, poolVars, userVars, bufVars, TypeOK
<1>3. Apart' /\ Kept' /\ Counted'
  BY <1>1, <1>2, PoolUntouched DEF poolVars
<1>4. TypeOK'
  BY <1>1, <1>2 DEF TypeOK, Disturbs
<1>5. Stages'
  BY <1>1, <1>2 DEF PoolInv, Stages
<1>6. Fresh'
  BY <1>1, <1>2 DEF PoolInv, Fresh, Quiet, Disturbs
<1>7. IdleUsable'
  BY <1>1, <1>2 DEF PoolInv, IdleUsable
<1>8. Listed' = Listed /\ \A d \in Listed : d \in Conns
  BY <1>1, <1>2, LenProperties DEF Listed, TypeOK
<1>9. \A d \in Listed' : d \notin spoiled' => Quiet(d)'
  BY <1>1, <1>8 DEF StreamsInStep, Quiet, Disturbs
<1>10. ASSUME NEW u \in Users PROVE UserInStep(u)'
  <2>1. CASE conn[u] = c
    <3>1. UserInStep(u)
      BY <1>1 DEF StreamsInStep
    <3>2. Request(u)' = Request(u)
      BY <1>2 DEF Request
    <3> QED BY <1>2, <2>1, <3>1, <3>2 DEF UserInStep, Disturbs
  <2>2. CASE conn[u] # c
    <3>1. Undisturbed(u)
      BY <1>1, <1>2, <2>2 DEF Undisturbed, Disturbs, TypeOK
    <3> QED BY <1>1, <3>1, UndisturbedInStep
  <2> QED BY <2>1, <2>2
<1> QED BY <1>3, <1>4, <1>5, <1>6, <1>7, <1>9, <1>10 DEF ClientInv, PoolInv, StreamsInStep

\* The server answers the oldest request.
LEMMA AnswerKeeps ==
    ASSUME ClientInv, NEW c \in Conns, NEW framing \in Framings, NEW hl \in HeadLens,
           NEW len \in BodyLens, Answer(c, framing, hl, len)
    PROVE  ClientInv'
<1> DEFINE reply == Response(Head(owed[c]), framing, hl, len)
<1>1. PoolInv /\ StreamsInStep /\ TypeOK
  BY DEF ClientInv, PoolInv
<1>2. /\ c \in exists /\ owed[c] # <<>>
      /\ stream' = [stream EXCEPT ![c] = @ \o reply]
      /\ owed' = [owed EXCEPT ![c] = Tail(@)]
      /\ spoiled' = IF framing = "none" /\ len > 0 THEN spoiled \cup {c} ELSE spoiled
      /\ UNCHANGED <<poolVars, connected, hungUp, expired, served, userVars>>
  BY DEF Answer, connVars
<1>3. owed[c] \in Seq(Requests) /\ stream[c] \in Seq(Pieces)
  BY <1>1 DEF TypeOK
<1>4. Head(owed[c]) \in Requests /\ Tail(owed[c]) \in Seq(Requests)
  BY <1>2, <1>3, HeadTailProperties
<1>5. reply \in Seq(Pieces)
  BY <1>4, ResponseIs
<1>6. stream[c] \o reply \in Seq(Pieces) /\ <<>> \o reply = reply
  BY <1>3, <1>5, ConcatProperties, ConcatEmptySeq
<1>7. /\ owed' \in [Conns -> Seq(Requests)] /\ stream' \in [Conns -> Seq(Pieces)]
      /\ owed'[c] = Tail(owed[c]) /\ stream'[c] = stream[c] \o reply
      /\ \A d \in Conns \ {c} : owed'[d] = owed[d] /\ stream'[d] = stream[d]
  BY <1>1, <1>2, <1>4, <1>6 DEF TypeOK
<1>8. Disturbs(c)
  BY <1>2, <1>7 DEF Disturbs
<1>9. c \in Listed => c \in spoiled
  BY <1>1, <1>2 DEF StreamsInStep, Quiet
<1>10. ASSUME NEW u \in Users, conn[u] = c, c \in connected, c \notin spoiled'
       PROVE  InStep(u, c)'
  <2>1. c \notin spoiled /\ (framing = "none" => len = 0)
    <3>1. len \in Nat
      BY ClientAssumption
    <3> QED BY <1>2, <1>10, <3>1
  <2>2. InStep(u, c)
    BY <1>1, <1>10, <2>1 DEF StreamsInStep, UserInStep
  <2>3. UNCHANGED <<pc, torn, calls>> /\ Request(u)' = Request(u)
    BY <1>2 DEF userVars, bufVars, Request
  <2>4. pc[u] \notin {"purge", "send", "release", "body"}
    BY <1>2, <2>2 DEF InStep, Quiet
  <2>5. ASSUME pc[u] = "head", torn[u] = 0 PROVE owed'[c] = <<>> /\ Answered(u, c)'
    <3>1. owed[c] = <<Request(u)>> /\ stream[c] = <<>>
      BY <1>2, <2>2, <2>5 DEF InStep, Quiet
    <3>2. Head(owed[c]) = Request(u) /\ Tail(owed[c]) = <<>>
      BY <3>1
    <3>3. stream'[c] = Response(Request(u), framing, hl, len)
      BY <1>6, <1>7, <3>1, <3>2
    <3> QED BY <1>7, <2>1, <2>3, <3>2, <3>3 DEF Answered
  <2> QED BY <2>3, <2>4, <2>5 DEF InStep
<1>11. c \in spoiled => c \in spoiled'
  BY <1>2
<1> QED BY <1>2, <1>8, <1>9, <1>10, <1>11, DisturbanceKeeps

LEMMA PeerClosesKeeps ==
    ASSUME ClientInv, NEW c \in Conns, PeerCloses(c)
    PROVE  ClientInv'
<1>1. PoolInv /\ StreamsInStep /\ TypeOK
  BY DEF ClientInv, PoolInv
<1>2. /\ c \in exists /\ hungUp' = hungUp \cup {c} /\ owed' = [owed EXCEPT ![c] = <<>>]
      /\ UNCHANGED <<poolVars, connected, expired, served, stream, spoiled, userVars>>
  BY DEF PeerCloses
<1>3. /\ owed' \in [Conns -> Seq(Requests)] /\ owed'[c] = <<>>
      /\ \A d \in Conns \ {c} : owed'[d] = owed[d]
  BY <1>1, <1>2 DEF TypeOK
<1>4. Disturbs(c)
  BY <1>1, <1>2, <1>3 DEF Disturbs, TypeOK
<1>5. c \in Listed /\ c \notin spoiled' => Quiet(c)'
  BY <1>1, <1>2, <1>3 DEF StreamsInStep, Quiet
<1>6. ASSUME NEW u \in Users, conn[u] = c, c \in connected, c \notin spoiled'
      PROVE  InStep(u, c)'
  <2>1. InStep(u, c)
    BY <1>1, <1>2, <1>6 DEF StreamsInStep, UserInStep
  <2>2. UNCHANGED <<pc, torn, need, calls, got, body, early>> /\ Request(u)' = Request(u)
        /\ stream'[c] = stream[c]
    BY <1>2 DEF userVars, bufVars, Request
  <2>3. Answered(u, c) => Answered(u, c)'
    BY <2>2 DEF Answered
  <2> QED BY <1>3, <2>1, <2>2, <2>3 DEF InStep, Quiet
<1> QED BY <1>2, <1>4, <1>5, <1>6, DisturbanceKeeps

LEMMA ExpiresKeeps ==
    ASSUME ClientInv, NEW c \in Conns, Expires(c)
    PROVE  ClientInv'
<1>1. PoolInv /\ StreamsInStep /\ TypeOK
  BY DEF ClientInv, PoolInv
<1>2. /\ c \in exists /\ expired' = expired \cup {c}
      /\ UNCHANGED <<poolVars, connected, hungUp, served, owed, stream, spoiled, userVars>>
  BY DEF Expires, netVars
<1>3. Disturbs(c)
  BY <1>1, <1>2 DEF Disturbs, TypeOK
<1>4. c \in Listed /\ c \notin spoiled' => Quiet(c)'
  BY <1>1, <1>2 DEF StreamsInStep, Quiet
<1>5. ASSUME NEW u \in Users, conn[u] = c, c \in connected, c \notin spoiled'
      PROVE  InStep(u, c)'
  <2>1. InStep(u, c)
    BY <1>1, <1>2, <1>5 DEF StreamsInStep, UserInStep
  <2>2. UNCHANGED <<pc, torn, need, calls, got, body, early>> /\ Request(u)' = Request(u)
    BY <1>2 DEF userVars, bufVars, Request
  <2>3. Answered(u, c) => Answered(u, c)'
    BY <1>2, <2>2 DEF Answered
  <2> QED BY <1>2, <2>1, <2>2, <2>3 DEF InStep, Quiet
<1> QED BY <1>2, <1>3, <1>4, <1>5, DisturbanceKeeps

-----------------------------------------------------------------------------
LEMMA ListedFacts ==
    ASSUME TypeOK, Kept
    PROVE  ToSet(conns) = Listed /\ Listed \subseteq exists /\ exists \subseteq Conns
<1>1. DOMAIN conns = 1..Len(conns) /\ \A i \in 1..Len(conns) : conns[i] \in Conns
  BY LenProperties, ElementOfSeq DEF TypeOK
<1>2. ToSet(conns) = Listed
  BY <1>1 DEF ToSet, Listed
<1>3. Listed \subseteq exists
  BY <1>1 DEF Kept, Listed
<1> QED BY <1>2, <1>3 DEF TypeOK

\* The pool is there when somebody is about to delete, or holds a connection.
LEMMA AliveWhenUsed ==
    ASSUME TypeOK, Stages
    PROVE  /\ \A a \in Actors : pc[a] = "purge" => Alive
           /\ \A u \in Users : conn[u] # None \/ pc[u] = "connect" => Alive
BY ActorFacts DEF Stages, Alive, Actors

\* Deleting connections.
LEMMA DeleteFacts ==
    ASSUME TypeOK, Fresh, IsFiniteSet(exists), NEW cs \in SUBSET exists, Delete(cs)
    PROVE  /\ exists' = exists \ cs /\ connected' = connected \ cs /\ spoiled' = spoiled \ cs
           /\ hungUp' \subseteq Conns /\ expired' \subseteq Conns
           /\ IsFiniteSet(exists') /\ Cardinality(exists') \in Nat
           /\ Cardinality(exists') = Cardinality(exists) - Cardinality(cs)
           /\ served' \in [Conns -> 0..MaxRequest]
           /\ owed' \in [Conns -> Seq(Requests)] /\ stream' \in [Conns -> Seq(Pieces)]
           /\ \A d \in Conns \ cs : /\ served'[d] = served[d] /\ owed'[d] = owed[d]
                                     /\ stream'[d] = stream[d]
           /\ Fresh'
<1>1. /\ exists' = exists \ cs /\ connected' = connected \ cs /\ spoiled' = spoiled \ cs
      /\ hungUp' = hungUp \ cs /\ expired' = expired \ cs
      /\ served' = [c \in Conns |-> IF c \in cs THEN 0 ELSE served[c]]
      /\ owed' = [c \in Conns |-> IF c \in cs THEN <<>> ELSE owed[c]]
      /\ stream' = [c \in Conns |-> IF c \in cs THEN <<>> ELSE stream[c]]
  BY DEF Delete
<1>2. /\ hungUp' \subseteq Conns /\ expired' \subseteq Conns
      /\ served' \in [Conns -> 0..MaxRequest]
  BY <1>1, ClientAssumption DEF TypeOK
<1>3. <<>> \in Seq(Requests) /\ <<>> \in Seq(Pieces)
  OBVIOUS
<1>4. owed' \in [Conns -> Seq(Requests)] /\ stream' \in [Conns -> Seq(Pieces)]
  BY <1>1, <1>3 DEF TypeOK
<1>5. \A d \in Conns \ cs : served'[d] = served[d] /\ owed'[d] = owed[d] /\ stream'[d] = stream[d]
  BY <1>1
<1>6. exists \cap cs = cs
  OBVIOUS
<1>7. /\ IsFiniteSet(exists') /\ Cardinality(exists') \in Nat
      /\ Cardinality(exists') = Cardinality(exists) - Cardinality(cs)
  <2>1. /\ IsFiniteSet(exists \ cs)
        /\ Cardinality(exists \ cs) = Cardinality(exists) - Cardinality(exists \cap cs)
    BY FS_Difference
  <2>2. Cardinality(exists \ cs) \in Nat
    BY <2>1, FS_CardinalityType
  <2> QED BY <1>1, <1>6, <2>1, <2>2
<1>8. Fresh'
  BY <1>1, <1>4 DEF Fresh, Quiet, TypeOK
<1> QED BY <1>1, <1>2, <1>4, <1>5, <1>7, <1>8

\* What was set aside is deleted.
LEMMA PurgeKeeps ==
    ASSUME ClientInv, NEW a \in Actors, Purge(a)
    PROVE  ClientInv'
<1> DEFINE cs == doomed[a]
           label == IF a = Cleaner THEN "idle" ELSE IF conn[a] = None THEN "connect" ELSE "send"
<1>1. /\ PoolInv /\ StreamsInStep /\ TypeOK /\ Apart /\ Kept /\ Stages /\ Counted /\ Fresh
      /\ IdleUsable
  BY DEF ClientInv, PoolInv
<1>2. /\ pc[a] = "purge" /\ Delete(cs) /\ total' = total - Cardinality(cs)
      /\ doomed' = [doomed EXCEPT ![a] = {}] /\ pc' = [pc EXCEPT ![a] = label]
      /\ UNCHANGED <<conns, owner, conn, calls, torn, need, got, body, early, wild>>
  BY DEF Purge, Goto, bufVars
<1>3. cs \in SUBSET exists /\ IsFiniteSet(exists)
  BY <1>1 DEF Kept, TypeOK, Counted
<1>4. /\ exists' = exists \ cs /\ connected' = connected \ cs /\ spoiled' = spoiled \ cs
      /\ hungUp' \subseteq Conns /\ expired' \subseteq Conns
      /\ IsFiniteSet(exists') /\ Cardinality(exists') \in Nat
      /\ Cardinality(exists') = Cardinality(exists) - Cardinality(cs)
      /\ served' \in [Conns -> 0..MaxRequest]
      /\ owed' \in [Conns -> Seq(Requests)] /\ stream' \in [Conns -> Seq(Pieces)]
      /\ \A d \in Conns \ cs : /\ served'[d] = served[d] /\ owed'[d] = owed[d]
                                /\ stream'[d] = stream[d]
      /\ Fresh'
  BY <1>1, <1>2, <1>3, DeleteFacts
<1>5. Alive /\ total = Cardinality(exists)
  BY <1>1, <1>2, AliveWhenUsed DEF Counted, TotalExact
<1>6. total' = Cardinality(exists')
  BY <1>2, <1>4, <1>5
<1>7. /\ doomed' \in [Actors -> SUBSET Conns] /\ doomed'[a] = {}
      /\ pc' \in [Actors -> Labels] /\ pc'[a] = label
      /\ \A b \in Actors \ {a} : doomed'[b] = doomed[b] /\ pc'[b] = pc[b]
  BY <1>1, <1>2 DEF TypeOK, Labels
<1>8. TypeOK'
  BY <1>1, <1>2, <1>4, <1>6, <1>7 DEF TypeOK, Labels
<1>9. Listed' = Listed /\ Listed \cap cs = {} /\ Listed \subseteq Conns
  BY <1>1, <1>2, ListedFacts DEF Listed, Apart
<1>10. Apart'
  BY <1>1, <1>2, <1>7, <1>9 DEF Apart
<1>11. Kept'
  <2>1. \A u \in Users : conn[u] \notin cs
    BY <1>1 DEF Apart
  <2>2. \A b \in Actors \ {a} : doomed[b] \cap cs = {}
    BY <1>1 DEF Apart
  <2>3. \A c \in Conns : (\E b \in Actors : c \in doomed'[b])
                            <=> (\E b \in Actors : c \in doomed[b]) /\ c \notin cs
    BY <1>7, <2>2
  <2> QED BY <1>1, <1>2, <1>4, <1>9, <2>1, <2>3 DEF Kept
<1>12. Stages'
  <2>1. pc'[Cleaner] \in {"idle", "purge"}
    BY <1>1, <1>7, ActorFacts DEF Stages
  <2>2. \A b \in Actors : doomed'[b] # {} => pc'[b] = "purge"
    BY <1>1, <1>7 DEF Stages
  <2>3. ASSUME NEW u \in Users
        PROVE  /\ pc'[u] \in {"purge", "connect"} => owner'
               /\ pc'[u] \in {"idle", "connect"} => conn'[u] = None
               /\ pc'[u] \in {"send", "head", "body", "release"} => conn'[u] # None
               /\ pc'[u] \in {"purge", "send", "head", "body"} /\ conn'[u] # None
                      => conn'[u] \in connected'
    <3>1. u \in Actors /\ u # Cleaner /\ conn[u] \notin cs
      BY <1>1, ActorFacts DEF Apart
    <3>2. CASE u = a
      BY <1>1, <1>2, <1>4, <1>7, <3>1, <3>2 DEF Stages
    <3>3. CASE u # a
      BY <1>1, <1>2, <1>4, <1>7, <3>1, <3>3 DEF Stages
    <3> QED BY <3>2, <3>3
  <2> QED BY <2>1, <2>2, <2>3 DEF Stages
<1>13. Counted'
  BY <1>4, <1>6 DEF Counted, TotalExact
<1>14. IdleUsable'
  <2>1. ToSet(conns) = Listed
    BY <1>1, ListedFacts
  <2> QED BY <1>1, <1>2, <1>4, <1>9, <2>1 DEF IdleUsable
<1>15. \A d \in Listed' : d \notin spoiled' => Quiet(d)'
  BY <1>1, <1>4, <1>9 DEF StreamsInStep, Quiet
<1>16. ASSUME NEW u \in Users PROVE UserInStep(u)'
  <2>1. u \in Actors /\ u # Cleaner /\ conn[u] \notin cs
    BY <1>1, ActorFacts DEF Apart
  <2>2. CASE u = a
    <3>1. UserInStep(u)
      BY <1>1 DEF StreamsInStep
    <3>2. \A c \in connected' \ spoiled' : conn[u] = c => Quiet(c)'
      BY <1>1, <1>2, <1>4, <2>1, <2>2, <3>1 DEF UserInStep, InStep, Quiet, TypeOK
    <3> QED BY <1>2, <1>7, <2>1, <2>2, <3>1, <3>2 DEF UserInStep, InStep
  <2>3. CASE u # a
    <3>1. Undisturbed(u)
      BY <1>1, <1>2, <1>4, <1>7, <2>1, <2>3 DEF Undisturbed, TypeOK
    <3> QED BY <1>1, <3>1, UndisturbedInStep
  <2> QED BY <2>2, <2>3
<1> QED BY <1>4, <1>8, <1>10, <1>11, <1>12, <1>13, <1>14, <1>15, <1>16
        DEF ClientInv, PoolInv, StreamsInStep

\* A new connection is made in the pool's name, or it is not.
LEMMA ConnectKeeps ==
    ASSUME ClientInv, NEW u \in Users, NEW c \in Conns, Connect(u, c)
    PROVE  ClientInv'
<1>1. /\ PoolInv /\ StreamsInStep /\ TypeOK /\ Apart /\ Kept /\ Stages /\ Counted /\ Fresh
      /\ IdleUsable
  BY DEF ClientInv, PoolInv
<1>2. /\ pc[u] = "connect" /\ c \notin exists
      /\ exists' = exists \cup {c} /\ connected' = connected \cup {c} /\ total' = total + 1
      /\ conn' = [conn EXCEPT ![u] = c] /\ pc' = [pc EXCEPT ![u] = "send"]
      /\ UNCHANGED <<conns, doomed, owner, hungUp, expired, served, owed, stream, spoiled, calls,
                     torn, need, got, body, early, wild>>
  BY DEF Connect, netVars, Goto, bufVars
<1>3. /\ c \notin Listed /\ \A v \in Users : conn[v] # c
      /\ \A a \in Actors : c \notin doomed[a]
      /\ c \notin spoiled /\ Quiet(c)
  BY <1>1, <1>2 DEF Kept, Fresh
<1>4. /\ conn' \in [Users -> Conns \cup {None}] /\ conn'[u] = c /\ conn[u] = None
      /\ \A v \in Users \ {u} : conn'[v] = conn[v]
      /\ pc' \in [Actors -> Labels] /\ pc'[u] = "send"
      /\ \A a \in Actors \ {u} : pc'[a] = pc[a]
      /\ c # None /\ u \in Actors /\ u # Cleaner
  BY <1>1, <1>2, ActorFacts, ClientAssumption DEF TypeOK, Labels, Stages
<1>5. total' \in Nat
  BY <1>1, <1>2 DEF TypeOK
<1>6. TypeOK'
  BY <1>1, <1>2, <1>4, <1>5 DEF TypeOK, Labels
<1>7. Listed' = Listed /\ None \notin Listed /\ \A a \in Actors : None \notin doomed[a]
  <2>1. Listed' = Listed
    BY <1>2 DEF Listed
  <2>2. None \notin Listed
    BY <1>1, ListedFacts, ClientAssumption
  <2>3. \A a \in Actors : None \notin doomed[a]
    BY <1>1, ClientAssumption DEF TypeOK
  <2> QED BY <2>1, <2>2, <2>3
<1>8. Apart'
  BY <1>1, <1>2, <1>3, <1>4, <1>7 DEF Apart
<1>9. Kept'
  <2> SUFFICES ASSUME NEW d \in Conns
               PROVE  d \in exists' <=> \/ d \in Listed' \/ \E v \in Users : conn'[v] = d
                                       \/ \E a \in Actors : d \in doomed'[a]
    BY DEF Kept
  <2>1. CASE d = c
    BY <1>2, <1>4, <2>1
  <2>2. CASE d # c
    <3>1. (\E v \in Users : conn'[v] = d) <=> (\E v \in Users : conn[v] = d)
      BY <1>4, <2>2, ClientAssumption
    <3> QED BY <1>1, <1>2, <1>7, <2>2, <3>1 DEF Kept
  <2> QED BY <2>1, <2>2
<1>10. Stages'
  <2>1. pc'[Cleaner] \in {"idle", "purge"} /\ \A a \in Actors : doomed'[a] # {} => pc'[a] = "purge"
    BY <1>1, <1>2, <1>4, ActorFacts DEF Stages
  <2>2. \A v \in Users : v \in Actors
    BY ActorFacts
  <2> QED BY <1>1, <1>2, <1>4, <2>1, <2>2 DEF Stages
<1>11. Counted'
  <2>1. Alive
    BY <1>1, <1>2, AliveWhenUsed
  <2>2. IsFiniteSet(exists') /\ Cardinality(exists') = Cardinality(exists) + 1
    BY <1>1, <1>2, FS_AddElement DEF Counted
  <2> QED BY <1>1, <1>2, <2>1, <2>2 DEF Counted, TotalExact
<1>12. Fresh'
  BY <1>1, <1>2 DEF Fresh, Quiet
<1>13. IdleUsable'
  BY <1>1, <1>2 DEF IdleUsable
<1>14. \A d \in Listed' : d \notin spoiled' => Quiet(d)'
  BY <1>1, <1>2, <1>7 DEF StreamsInStep, Quiet
<1>15. ASSUME NEW v \in Users PROVE UserInStep(v)'
  <2>1. CASE v = u
    <3>1. got[u] = None /\ body[u] = <<>> /\ got'[u] = None /\ body'[u] = <<>>
      BY <1>1, <1>2 DEF StreamsInStep, UserInStep
    <3>2. Quiet(c)'
      BY <1>2, <1>3 DEF Quiet
    <3> QED BY <1>2, <1>4, <2>1, <3>1, <3>2 DEF UserInStep, InStep
  <2>2. CASE v # u
    <3>1. Undisturbed(v)
      BY <1>2, <1>3, <1>4, <2>2, ActorFacts DEF Undisturbed
    <3> QED BY <1>1, <3>1, UndisturbedInStep
  <2> QED BY <2>1, <2>2
<1> QED BY <1>6, <1>8, <1>9, <1>10, <1>11, <1>12, <1>13, <1>14, <1>15
        DEF ClientInv, PoolInv, StreamsInStep

LEMMA ConnectFailsKeeps ==
    ASSUME ClientInv, NEW u \in Users, ConnectFails(u)
    PROVE  ClientInv'
<1>1. PoolInv /\ StreamsInStep /\ TypeOK /\ Stages /\ Fresh /\ IdleUsable
  BY DEF ClientInv, PoolInv
<1>2. /\ pc[u] = "connect" /\ pc' = [pc EXCEPT ![u] = "idle"]
      /\ UNCHANGED <<conns, total, exists, doomed, owner, connected, hungUp, expired, served, owed,
                     stream, spoiled, conn, calls, torn, need, got, body, early, wild>>
  BY DEF ConnectFails, poolVars, connVars, netVars, Goto, bufVars
<1>3. /\ pc' \in [Actors -> Labels] /\ pc'[u] = "idle" /\ conn[u] = None
      /\ \A a \in Actors \ {u} : pc'[a] = pc[a]
      /\ u \in Actors /\ u # Cleaner
  BY <1>1, <1>2, ActorFacts DEF TypeOK, Labels, Stages
<1>4. TypeOK'
  BY <1>1, <1>2, <1>3 DEF TypeOK, Labels
<1>5. Apart' /\ Kept' /\ Counted'
  BY <1>1, <1>2, <1>3, ActorFacts, PoolUntouched DEF poolVars
<1>6. Stages'
  <2>1. pc'[Cleaner] \in {"idle", "purge"} /\ \A a \in Actors : doomed'[a] # {} => pc'[a] = "purge"
    BY <1>1, <1>2, <1>3, ActorFacts DEF Stages
  <2>2. \A v \in Users : v \in Actors
    BY ActorFacts
  <2> QED BY <1>1, <1>2, <1>3, <2>1, <2>2 DEF Stages
<1>7. Fresh' /\ IdleUsable'
  BY <1>1, <1>2 DEF Fresh, Quiet, IdleUsable
<1>8. \A d \in Listed' : d \notin spoiled' => Quiet(d)'
  BY <1>1, <1>2 DEF StreamsInStep, Quiet, Listed
<1>9. ASSUME NEW v \in Users PROVE UserInStep(v)'
  <2>1. CASE v = u
    <3>1. got'[u] = None /\ body'[u] = <<>>
      BY <1>1, <1>2 DEF StreamsInStep, UserInStep
    <3> QED BY <1>1, <1>2, <1>3, <2>1, <3>1, ClientAssumption DEF UserInStep, TypeOK
  <2>2. CASE v # u
    <3>1. Undisturbed(v)
      BY <1>2, <1>3, <2>2, ActorFacts DEF Undisturbed
    <3> QED BY <1>1, <3>1, UndisturbedInStep
  <2> QED BY <2>1, <2>2
<1> QED BY <1>4, <1>5, <1>6, <1>7, <1>8, <1>9 DEF ClientInv, PoolInv, StreamsInStep

-----------------------------------------------------------------------------
\* getConnection takes the list apart: what it deletes, what it returns, and the rest.
UsablePlaces == {i \in DOMAIN conns : Usable(conns[i])}
TakenAt(n) == n = IF UsablePlaces = {} THEN Len(conns) + 1 ELSE Min(UsablePlaces)
After(n) == SubSeq(conns, n + 1, Len(conns))

Taken(n) ==
    /\ n \in 1..(Len(conns) + 1) /\ After(n) \in Seq(Conns)
    /\ {After(n)[i] : i \in 1..Len(After(n))} = {conns[i] : i \in (n + 1)..Len(conns)}
    /\ \A i, j \in 1..Len(After(n)) : After(n)[i] = After(n)[j] => i = j
    /\ UsablePlaces # {} => n \in 1..Len(conns) /\ Usable(conns[n])
    /\ UsablePlaces = {} => n = Len(conns) + 1

LEMMA TakenApart ==
    ASSUME TypeOK, Apart, NEW n, TakenAt(n)
    PROVE  Taken(n)
<1> DEFINE good == UsablePlaces
           rest == After(n)
<1>1. /\ DOMAIN conns = 1..Len(conns) /\ \A i \in 1..Len(conns) : conns[i] \in Conns
  BY LenProperties, ElementOfSeq DEF TypeOK
<1>2. PICK L \in Nat : L = Len(conns)
  BY LenProperties DEF TypeOK
<1>3. /\ good # {} => n \in good
      /\ good = {} => n = L + 1
  <2>1. CASE good # {}
    <3>1. \E x \in good : \A y \in good : x <= y
      <4>1. good \in SUBSET Nat
        BY <1>1, <1>2 DEF UsablePlaces
      <4> QED BY <2>1, <4>1, LeastNat
    <3>2. Min(good) \in good
      BY <3>1 DEF Min
    <3> QED BY <2>1, <3>2 DEF TakenAt
  <2>2. CASE good = {}
    BY <1>2, <2>2 DEF TakenAt
  <2> QED BY <2>1, <2>2
<1>4. n \in 1..(L + 1) /\ (good # {} => n \in 1..L /\ Usable(conns[n]))
  BY <1>1, <1>2, <1>3 DEF UsablePlaces
<1>5. /\ rest \in Seq(Conns)
      /\ Len(rest) = IF n + 1 <= L THEN L - (n + 1) + 1 ELSE 0
      /\ \A i \in 1..(L - (n + 1) + 1) : rest[i] = conns[(n + 1) + i - 1]
  <2>1. \A i \in (n + 1)..L : conns[i] \in Conns
    BY <1>1, <1>2, <1>4
  <2> QED BY <1>2, <1>4, <2>1, SubSeqProperties DEF After
<1> HIDE DEF rest, good
<1>6. /\ Len(rest) \in Nat /\ (n + 1 <= L => Len(rest) = L - n)
      /\ n + 1 > L => Len(rest) = 0
  <2>1. n \in Nat /\ (n + 1 <= L => L - (n + 1) + 1 = L - n) /\ (n + 1 > L => ~(n + 1 <= L))
    BY <1>4
  <2>2. Len(rest) \in Nat
    BY <1>5, LenProperties
  <2>3. (n + 1 <= L => Len(rest) = L - (n + 1) + 1) /\ (~(n + 1 <= L) => Len(rest) = 0)
    BY <1>5
  <2> QED BY <2>1, <2>2, <2>3
<1> DEFINE K == Len(rest)
<1> HIDE DEF K
<1>7. \A i \in 1..K : rest[i] = conns[n + i] /\ n + i \in (n + 1)..L
  <2>1. \A i \in 1..K : /\ i \in 1..(L - (n + 1) + 1) /\ (n + 1) + i - 1 = n + i
                        /\ n + i \in (n + 1)..L
    BY <1>2, <1>4, <1>6 DEF K
  <2> QED BY <1>5, <2>1
<1>8. \A k \in (n + 1)..L : k - n \in 1..K /\ n + (k - n) = k
  BY <1>2, <1>4, <1>6 DEF K
<1>9. {rest[i] : i \in 1..K} = {conns[i] : i \in (n + 1)..L}
  <2>1. \A i \in 1..K : \E k \in (n + 1)..L : rest[i] = conns[k]
    BY <1>7
  <2>2. \A k \in (n + 1)..L : \E i \in 1..K : conns[k] = rest[i]
    BY <1>7, <1>8
  <2> QED BY <2>1, <2>2
<1>10. \A i, j \in 1..K : rest[i] = rest[j] => i = j
  <2> SUFFICES ASSUME NEW i \in 1..K, NEW j \in 1..K, rest[i] = rest[j] PROVE i = j
    OBVIOUS
  <2>1. conns[n + i] = conns[n + j] /\ n + i \in 1..L /\ n + j \in 1..L
    BY <1>2, <1>4, <1>7
  <2>2. n + i = n + j
    BY <1>2, <2>1 DEF Apart
  <2> QED BY <1>4, <2>2
<1> QED BY <1>2, <1>3, <1>4, <1>5, <1>6, <1>9, <1>10 DEF rest, good, K, Taken

\* getConnection: from the list to its user, and to what the user is to delete.
LEMMA GetConnectionKeeps ==
    ASSUME ClientInv, NEW u \in Users, GetConnection(u)
    PROVE  ClientInv'
<1> DEFINE good == UsablePlaces
           A == doomed'[u]
           x == conn'[u]
<1>1. /\ PoolInv /\ StreamsInStep /\ TypeOK /\ Apart /\ Kept /\ Stages /\ Counted /\ Fresh
      /\ IdleUsable
  BY DEF ClientInv, PoolInv
<1>2. PICK n : TakenAt(n) /\ n = IF UsablePlaces = {} THEN Len(conns) + 1 ELSE Min(UsablePlaces)
  BY DEF TakenAt
<1>3. /\ pc[u] = "idle" /\ owner /\ calls[u] < MaxCalls
      /\ calls' = [calls EXCEPT ![u] = @ + 1]
      /\ conns' = SubSeq(conns, n + 1, Len(conns))
      /\ doomed' = [doomed EXCEPT ![u] = {conns[i] : i \in 1..(n - 1)}]
      /\ conn' = [conn EXCEPT ![u] = IF good = {} THEN None ELSE conns[n]]
      /\ pc' = [pc EXCEPT ![u] = "purge"]
      /\ UNCHANGED <<total, exists, owner, connected, hungUp, expired, served, owed, stream,
                     spoiled, torn, need, got, body, early, wild>>
  BY <1>2 DEF GetConnection, Goto, connVars, netVars, bufVars, UsablePlaces
<1>4. /\ n \in 1..(Len(conns) + 1) /\ conns' \in Seq(Conns)
      /\ Listed' = {conns[i] : i \in (n + 1)..Len(conns)}
      /\ \A i, j \in 1..Len(conns') : conns'[i] = conns'[j] => i = j
      /\ good # {} => n \in 1..Len(conns) /\ Usable(conns[n])
      /\ good = {} => n = Len(conns) + 1
  <2>1. conns' = After(n)
    BY <1>3 DEF After
  <2>2. Listed' = {After(n)[i] : i \in 1..Len(After(n))}
    BY <2>1 DEF Listed
  <2>3. Taken(n)
    BY <1>1, <1>2, TakenApart
  <2> QED BY <2>1, <2>2, <2>3 DEF Taken
<1>5. PICK L \in Nat : L = Len(conns)
  BY <1>1, LenProperties DEF TypeOK
<1>6. /\ Listed \subseteq exists /\ exists \subseteq Conns /\ ToSet(conns) = Listed
      /\ None \notin Listed /\ \A a \in Actors : None \notin doomed[a]
  BY <1>1, ListedFacts, ClientAssumption DEF TypeOK
<1>7. /\ u \in Actors /\ u # Cleaner /\ conn[u] = None /\ doomed[u] = {}
      /\ A = {conns[i] : i \in 1..(n - 1)}
      /\ \A a \in Actors \ {u} : doomed'[a] = doomed[a] /\ pc'[a] = pc[a]
      /\ pc' \in [Actors -> Labels] /\ pc'[u] = "purge"
      /\ x = (IF good = {} THEN None ELSE conns[n])
      /\ \A v \in Users \ {u} : conn'[v] = conn[v] /\ calls'[v] = calls[v]
      /\ got'[u] = None /\ body'[u] = <<>>
  BY <1>1, <1>3, ActorFacts DEF TypeOK, Labels, Stages, StreamsInStep, UserInStep
<1>8. /\ A \subseteq Listed /\ Listed' \subseteq Listed /\ A \cap Listed' = {}
      /\ x = None \/ (x \in Listed /\ x \notin A /\ x \notin Listed' /\ Usable(x))
      /\ \A c \in Listed : c = x \/ c \in A \/ c \in Listed'
  <2>1. Listed = {conns[i] : i \in 1..L} /\ \A i, j \in 1..L : conns[i] = conns[j] => i = j
    BY <1>1, <1>5 DEF Listed, Apart
  <2>2. /\ \A i \in 1..(n - 1) : i \in 1..L /\ i # n
        /\ \A i \in (n + 1)..L : i \in 1..L /\ i # n
        /\ \A i \in 1..(n - 1) : \A j \in (n + 1)..L : i # j
        /\ \A i \in 1..L : i = n \/ i \in 1..(n - 1) \/ i \in (n + 1)..L
    BY <1>4, <1>5
  <2>3. A \subseteq Listed /\ Listed' \subseteq Listed
    BY <1>4, <1>5, <1>7, <2>1, <2>2
  <2>4. A \cap Listed' = {}
    BY <1>4, <1>5, <1>7, <2>1, <2>2
  <2>5. good # {} => n \in 1..L /\ x = conns[n] /\ Usable(x)
    BY <1>4, <1>5, <1>7
  <2>6. good # {} => x \in Listed /\ x \notin A /\ x \notin Listed'
    BY <1>4, <1>5, <1>7, <2>1, <2>2, <2>5
  <2>7. \A i \in 1..L : i = n => good # {}
    BY <1>4, <1>5
  <2>8. \A c \in Listed : c = x \/ c \in A \/ c \in Listed'
    BY <1>4, <1>5, <1>7, <2>1, <2>2, <2>5, <2>7
  <2> QED BY <1>7, <2>3, <2>4, <2>5, <2>6, <2>8
<1> HIDE DEF A, x, good
<1>9. TypeOK'
  <2>1. calls' \in [Users -> 0..MaxCalls]
    <3>1. calls[u] \in 0..MaxCalls /\ calls[u] < MaxCalls /\ MaxCalls \in Nat
      BY <1>1, <1>3, ClientAssumption DEF TypeOK
    <3>2. calls[u] + 1 \in 0..MaxCalls
      BY <3>1
    <3> QED BY <1>1, <1>3, <3>2 DEF TypeOK
  <2>2. doomed' \in [Actors -> SUBSET Conns]
    <3>1. {conns[i] : i \in 1..(n - 1)} \in SUBSET Conns
      BY <1>6, <1>7, <1>8 DEF A
    <3> QED BY <1>1, <1>3, <3>1 DEF TypeOK
  <2>3. conn' \in [Users -> Conns \cup {None}]
    <3>1. x \in Conns \cup {None}
      BY <1>6, <1>8
    <3>2. conn' = [conn EXCEPT ![u] = x]
      BY <1>3, <1>7
    <3> QED BY <1>1, <3>1, <3>2 DEF TypeOK
  <2> QED BY <1>1, <1>3, <1>4, <1>7, <2>1, <2>2, <2>3 DEF TypeOK, Labels
<1>10. Apart'
  <2>1. \A v, w \in Users : conn'[v] = conn'[w] /\ conn'[v] # None => v = w
    BY <1>1, <1>7, <1>8 DEF Apart, x
  <2>2. \A a, b \in Actors : \A c \in doomed'[a] \cap doomed'[b] : a = b
    BY <1>1, <1>7, <1>8 DEF Apart, A
  <2>3. \A v \in Users : conn'[v] \notin Listed'
    BY <1>1, <1>6, <1>7, <1>8 DEF Apart, x
  <2>4. \A a \in Actors : doomed'[a] \cap Listed' = {}
    BY <1>1, <1>7, <1>8 DEF Apart, A
  <2>5. ASSUME NEW v \in Users, NEW a \in Actors PROVE conn'[v] \notin doomed'[a]
    <3>1. conn'[v] = x \/ conn'[v] = conn[v]
      BY <1>7 DEF x
    <3>2. doomed'[a] = doomed[a] \/ doomed'[a] = A
      BY <1>7 DEF A
    <3>3. conn[v] \notin doomed[a] /\ conn[v] \notin Listed /\ doomed[a] \cap Listed = {}
      BY <1>1 DEF Apart
    <3> QED BY <1>6, <1>8, <3>1, <3>2, <3>3
  <2> QED BY <1>4, <2>1, <2>2, <2>3, <2>4, <2>5 DEF Apart
<1>11. Kept'
  <2> SUFFICES ASSUME NEW d \in Conns
               PROVE  d \in exists <=> \/ d \in Listed' \/ \E v \in Users : conn'[v] = d
                                      \/ \E a \in Actors : d \in doomed'[a]
    BY <1>3 DEF Kept
  <2>1. d # None
    BY ClientAssumption
  <2>2. (\E v \in Users : conn'[v] = d) <=> (d = x \/ \E v \in Users : conn[v] = d)
    BY <1>7, <2>1 DEF x
  <2>3. (\E a \in Actors : d \in doomed'[a]) <=> (d \in A \/ \E a \in Actors : d \in doomed[a])
    BY <1>7 DEF A
  <2>4. d \in Listed <=> d = x \/ d \in A \/ d \in Listed'
    BY <1>6, <1>8, <2>1
  <2> QED BY <1>1, <2>2, <2>3, <2>4 DEF Kept
<1>12. Stages'
  <2>1. pc'[Cleaner] \in {"idle", "purge"} /\ \A a \in Actors : doomed'[a] # {} => pc'[a] = "purge"
    BY <1>1, <1>7, ActorFacts DEF Stages
  <2>2. ASSUME NEW v \in Users
        PROVE  /\ pc'[v] \in {"purge", "connect"} => owner'
               /\ pc'[v] \in {"idle", "connect"} => conn'[v] = None
               /\ pc'[v] \in {"send", "head", "body", "release"} => conn'[v] # None
               /\ pc'[v] \in {"purge", "send", "head", "body"} /\ conn'[v] # None
                      => conn'[v] \in connected'
    <3>1. CASE v = u
      BY <1>3, <1>7, <1>8, <3>1 DEF Usable, x
    <3>2. CASE v # u
      BY <1>1, <1>3, <1>7, <3>2, ActorFacts DEF Stages
    <3> QED BY <3>1, <3>2
  <2> QED BY <2>1, <2>2 DEF Stages
<1>13. Counted'
  BY <1>1, <1>3 DEF Counted, TotalExact, Alive
<1>14. Fresh'
  BY <1>1, <1>3 DEF Fresh, Quiet
<1>15. IdleUsable'
  <2>1. ToSet(conns') = Listed'
    BY <1>4, LenProperties DEF ToSet, Listed
  <2> QED BY <1>1, <1>3, <1>6, <1>8, <2>1 DEF IdleUsable
<1>16. \A d \in Listed' : d \notin spoiled' => Quiet(d)'
  BY <1>1, <1>3, <1>8 DEF StreamsInStep, Quiet
<1>17. ASSUME NEW v \in Users PROVE UserInStep(v)'
  <2>1. CASE v = u
    <3>1. \A c \in connected' \ spoiled' : conn'[u] = c => Quiet(c)'
      BY <1>1, <1>3, <1>8, ClientAssumption DEF StreamsInStep, Quiet, TypeOK, x
    <3> QED BY <1>7, <2>1, <3>1 DEF UserInStep, InStep
  <2>2. CASE v # u
    <3>1. Undisturbed(v)
      BY <1>3, <1>7, <2>2, ActorFacts DEF Undisturbed
    <3> QED BY <1>1, <3>1, UndisturbedInStep
  <2> QED BY <2>1, <2>2
<1> QED BY <1>9, <1>10, <1>11, <1>12, <1>13, <1>14, <1>15, <1>16, <1>17
        DEF ClientInv, PoolInv, StreamsInStep

\* The timer takes the connections out of the list that are not usable any more.
LEMMA CleanExpiredKeeps ==
    ASSUME ClientInv, CleanExpired
    PROVE  ClientInv'
<1> DEFINE S == {c \in Conns : Usable(c)}
           bad == {c \in ToSet(conns) : ~Usable(c)}
<1>1. /\ PoolInv /\ StreamsInStep /\ TypeOK /\ Apart /\ Kept /\ Stages /\ Counted /\ Fresh
      /\ IdleUsable
  BY DEF ClientInv, PoolInv
<1>2. /\ pc[Cleaner] = "idle" /\ Alive /\ conns' = Keep(conns, S)
      /\ doomed' = [doomed EXCEPT ![Cleaner] = bad] /\ pc' = [pc EXCEPT ![Cleaner] = "purge"]
      /\ UNCHANGED <<total, exists, owner, connected, hungUp, expired, served, owed, stream,
                     spoiled, conn, calls, torn, need, got, body, early, wild>>
  BY DEF CleanExpired, Goto, connVars, netVars, bufVars
<1>3. /\ Listed \subseteq exists /\ exists \subseteq Conns /\ ToSet(conns) = Listed
  BY <1>1, ListedFacts
<1>4. /\ conns' \in Seq(Conns)
      /\ \A i, j \in 1..Len(conns') : conns'[i] = conns'[j] => i = j
      /\ \A c : c \in Listed' <=> c \in S /\ c \in Listed
  <2>1. conns \in Seq(Conns) /\ \A i, j \in 1..Len(conns) : conns[i] = conns[j] => i = j
    BY <1>1 DEF TypeOK, Apart
  <2> HIDE DEF S
  <2>2. Keep(conns, S) \in Seq(Conns)
    BY <2>1, KeepProperties
  <2>3. \A i, j \in 1..Len(Keep(conns, S)) :
            Keep(conns, S)[i] = Keep(conns, S)[j] => i = j
    BY <2>1, KeepOnce
  <2>4. \A c : (\E k \in 1..Len(Keep(conns, S)) : Keep(conns, S)[k] = c)
                   <=> (c \in S /\ \E i \in 1..Len(conns) : conns[i] = c)
    BY <2>1, KeepRange
  <2>5. \A c : c \in Listed' <=> \E k \in 1..Len(conns') : conns'[k] = c
    BY DEF Listed
  <2>6. \A c : c \in Listed <=> \E k \in 1..Len(conns) : conns[k] = c
    BY DEF Listed
  <2> QED BY <1>2, <2>2, <2>3, <2>4, <2>5, <2>6
<1>5. /\ Cleaner \in Actors /\ doomed[Cleaner] = {} /\ doomed'[Cleaner] = bad
      /\ \A a \in Actors \ {Cleaner} : doomed'[a] = doomed[a] /\ pc'[a] = pc[a]
      /\ pc' \in [Actors -> Labels] /\ pc'[Cleaner] = "purge"
      /\ \A u \in Users : u \in Actors \ {Cleaner}
  BY <1>1, <1>2, ActorFacts DEF TypeOK, Labels, Stages
<1>6. bad = {c \in Listed : ~Usable(c)} /\ bad \subseteq Listed /\ bad \cap Listed' = {}
  BY <1>3, <1>4
<1>7. Listed' \subseteq Listed /\ \A c \in Listed : c \in bad \/ c \in Listed'
  BY <1>3, <1>4, <1>6
<1> HIDE DEF S, bad
<1>8. TypeOK'
  <2>1. doomed' \in [Actors -> SUBSET Conns]
    BY <1>1, <1>2, <1>3, <1>6 DEF TypeOK
  <2> QED BY <1>1, <1>2, <1>4, <1>5, <2>1 DEF TypeOK, Labels
<1>9. Apart'
  <2>1. \A a, b \in Actors : \A c \in doomed'[a] \cap doomed'[b] : a = b
    BY <1>1, <1>5, <1>6 DEF Apart
  <2>2. \A a \in Actors : doomed'[a] \cap Listed' = {}
    BY <1>1, <1>5, <1>6, <1>7 DEF Apart
  <2>3. \A u \in Users, a \in Actors : conn'[u] \notin doomed'[a]
    BY <1>1, <1>2, <1>5, <1>6 DEF Apart
  <2> QED BY <1>1, <1>2, <1>4, <1>7, <2>1, <2>2, <2>3 DEF Apart
<1>10. Kept'
  <2>1. \A d : (\E a \in Actors : d \in doomed'[a])
                   <=> (d \in bad \/ \E a \in Actors : d \in doomed[a])
    BY <1>5
  <2> QED BY <1>1, <1>2, <1>6, <1>7, <2>1 DEF Kept
<1>11. Stages'
  BY <1>1, <1>2, <1>5 DEF Stages
<1>12. Counted' /\ Fresh'
  BY <1>1, <1>2 DEF Counted, TotalExact, Fresh, Quiet
<1>13. IdleUsable'
  <2>1. ToSet(conns') = Listed'
    BY <1>4, LenProperties DEF ToSet, Listed
  <2> QED BY <1>1, <1>2, <1>3, <1>7, <2>1 DEF IdleUsable
<1>14. \A d \in Listed' : d \notin spoiled' => Quiet(d)'
  BY <1>1, <1>2, <1>7 DEF StreamsInStep, Quiet
<1>15. ASSUME NEW u \in Users PROVE UserInStep(u)'
  <2>1. Undisturbed(u)
    BY <1>2, <1>5 DEF Undisturbed
  <2> QED BY <1>1, <2>1, UndisturbedInStep
<1> QED BY <1>8, <1>9, <1>10, <1>11, <1>12, <1>13, <1>14, <1>15
        DEF ClientInv, PoolInv, StreamsInStep

\* ReleasePtr: the connection is deleted, or put back at the end of the list.
LEMMA ReleasePtrKeeps ==
    ASSUME ClientInv, NEW u \in Users, ReleasePtr(u)
    PROVE  ClientInv'
<1> DEFINE c == conn[u]
<1>1. /\ PoolInv /\ StreamsInStep /\ TypeOK /\ Apart /\ Kept /\ Stages /\ Counted /\ Fresh
      /\ IdleUsable
  BY DEF ClientInv, PoolInv
<1>2. /\ pc[u] = "release" /\ conn' = [conn EXCEPT ![u] = None]
      /\ pc' = [pc EXCEPT ![u] = "idle"]
      /\ torn' = [torn EXCEPT ![u] = 0] /\ need' = [need EXCEPT ![u] = 0]
      /\ got' = [got EXCEPT ![u] = None] /\ body' = [body EXCEPT ![u] = <<>>]
      /\ early' = [early EXCEPT ![u] = 0]
      /\ UNCHANGED <<doomed, owner, calls, wild>>
      /\ IF Over(c)
         THEN Delete({c}) /\ total' = total - 1 /\ UNCHANGED conns
         ELSE PutBack(c)
  BY DEF ReleasePtr, Released, Goto
<1>3. /\ c \in Conns /\ c \in exists /\ c \notin Listed /\ c # None
      /\ \A v \in Users \ {u} : conn[v] # c
      /\ \A a \in Actors : c \notin doomed[a]
  BY <1>1, <1>2, UsersConnection, ClientAssumption
<1>4. /\ conn' \in [Users -> Conns \cup {None}] /\ conn'[u] = None
      /\ \A v \in Users \ {u} : conn'[v] = conn[v]
      /\ pc' \in [Actors -> Labels] /\ pc'[u] = "idle"
      /\ \A a \in Actors \ {u} : pc'[a] = pc[a]
      /\ u \in Actors /\ u # Cleaner /\ \A v \in Users : v \in Actors
  BY <1>1, <1>2, ActorFacts DEF TypeOK, Labels
<1>5. /\ ToSet(conns) = Listed /\ Listed \subseteq exists /\ exists \subseteq Conns
      /\ None \notin Listed /\ \A a \in Actors : None \notin doomed[a]
  BY <1>1, ListedFacts, ClientAssumption DEF TypeOK
<1>6. Alive /\ total = Cardinality(exists) /\ IsFiniteSet(exists)
  BY <1>1, <1>3, AliveWhenUsed DEF Counted, TotalExact
<1>7. \A d \in Conns : (\E v \in Users : conn[v] = d)
                            <=> (d = c \/ \E v \in Users : conn'[v] = d)
  BY <1>4, ClientAssumption
<1>8. ASSUME \A v \in Users \ {u} : conn[v] \in connected => conn[v] \in connected'
      PROVE  Stages'
  <2>1. pc'[Cleaner] \in {"idle", "purge"} /\ \A a \in Actors : doomed'[a] # {} => pc'[a] = "purge"
    BY <1>1, <1>2, <1>4, ActorFacts DEF Stages
  <2> QED BY <1>1, <1>2, <1>4, <1>8, <2>1 DEF Stages
<1>9. ASSUME connected' \subseteq Conns PROVE UserInStep(u)'
  <2>1. got'[u] = None /\ body'[u] = <<>>
    BY <1>1, <1>2 DEF TypeOK
  <2> QED BY <1>4, <1>9, <2>1, ClientAssumption DEF UserInStep
<1>t. /\ torn' \in [Users -> Nat] /\ need' \in [Users -> Nat]
      /\ got' \in [Users -> Pieces \cup {None}] /\ body' \in [Users -> Seq(Pieces)]
      /\ early' \in [Users -> Nat]
  <2>1. 0 \in Nat /\ <<>> \in Seq(Pieces)
    OBVIOUS
  <2>2. torn' \in [Users -> Nat] /\ need' \in [Users -> Nat] /\ early' \in [Users -> Nat]
    BY <1>1, <1>2, <2>1 DEF TypeOK
  <2>3. got' \in [Users -> Pieces \cup {None}]
    BY <1>1, <1>2 DEF TypeOK
  <2>4. body' \in [Users -> Seq(Pieces)]
    BY <1>1, <1>2, <2>1 DEF TypeOK
  <2> QED BY <2>2, <2>3, <2>4
<1>o. /\ doomed' \in [Actors -> SUBSET Conns] /\ calls' \in [Users -> 0..MaxCalls]
      /\ owner' \in BOOLEAN /\ wild' \in BOOLEAN
      /\ conn' \in [Users -> Conns \cup {None}]
      /\ pc' \in [Actors -> {"idle", "purge", "connect", "send", "head", "body", "release"}]
  BY <1>1, <1>2, <1>4 DEF TypeOK, Labels
<1>10. CASE Over(c)
  <2>1. {c} \in SUBSET exists /\ Delete({c}) /\ total' = total - 1 /\ conns' = conns
    BY <1>2, <1>3, <1>10
  <2>2. /\ exists' = exists \ {c} /\ connected' = connected \ {c} /\ spoiled' = spoiled \ {c}
        /\ hungUp' \subseteq Conns /\ expired' \subseteq Conns
        /\ IsFiniteSet(exists') /\ Cardinality(exists') \in Nat
        /\ Cardinality(exists') = Cardinality(exists) - Cardinality({c})
        /\ served' \in [Conns -> 0..MaxRequest]
        /\ owed' \in [Conns -> Seq(Requests)] /\ stream' \in [Conns -> Seq(Pieces)]
        /\ \A d \in Conns \ {c} : /\ served'[d] = served[d] /\ owed'[d] = owed[d]
                                   /\ stream'[d] = stream[d]
        /\ Fresh'
    BY <1>1, <1>6, <2>1, DeleteFacts
  <2>3. total' = Cardinality(exists')
    BY <1>6, <2>1, <2>2, FS_Singleton
  <2>4. TypeOK'
    <3>1. conns' \in Seq(Conns) /\ total' \in Nat
      BY <1>1, <2>1, <2>2, <2>3 DEF TypeOK
    <3>2. exists' \subseteq Conns /\ connected' \subseteq Conns /\ spoiled' \subseteq Conns
      BY <1>1, <2>2 DEF TypeOK
    <3> QED BY <1>t, <1>o, <2>2, <3>1, <3>2 DEF TypeOK
  <2>5. Listed' = Listed
    BY <2>1 DEF Listed
  <2>6. Apart'
    BY <1>1, <1>2, <1>4, <1>5, <2>1, <2>5 DEF Apart
  <2>7. Kept'
    <3> SUFFICES ASSUME NEW d \in Conns
                 PROVE  d \in exists' <=> \/ d \in Listed' \/ \E v \in Users : conn'[v] = d
                                         \/ \E a \in Actors : d \in doomed'[a]
      BY DEF Kept
    <3>1. CASE d = c
      BY <1>2, <1>3, <1>4, <2>2, <2>5, <3>1
    <3>2. CASE d # c
      BY <1>1, <1>2, <1>7, <2>2, <2>5, <3>2 DEF Kept
    <3> QED BY <3>1, <3>2
  <2>8. Stages'
    BY <1>3, <1>8, <2>2
  <2>9. Counted'
    BY <2>2, <2>3 DEF Counted, TotalExact
  <2>10. IdleUsable'
    BY <1>1, <1>3, <1>5, <2>1, <2>2 DEF IdleUsable
  <2>11. \A d \in Listed' : d \notin spoiled' => Quiet(d)'
    BY <1>1, <1>3, <1>5, <2>2, <2>5 DEF StreamsInStep, Quiet
  <2>12. ASSUME NEW v \in Users PROVE UserInStep(v)'
    <3>1. CASE v = u
      BY <1>1, <1>9, <2>2, <3>1 DEF TypeOK
    <3>2. CASE v # u
      <4>1. \A d \in connected' : conn[v] = d => d \in Conns \ {c}
        BY <1>1, <2>2 DEF TypeOK
      <4>2. Undisturbed(v)
        BY <1>2, <1>3, <1>4, <2>2, <3>2, <4>1 DEF Undisturbed
      <4> QED BY <1>1, <4>2, UndisturbedInStep
    <3> QED BY <3>1, <3>2
  <2> QED BY <2>2, <2>4, <2>6, <2>7, <2>8, <2>9, <2>10, <2>11, <2>12
          DEF ClientInv, PoolInv, StreamsInStep
<1>11. CASE ~Over(c)
  <2>1. /\ conns' = Append(conns, c) /\ served' = [served EXCEPT ![c] = @ + 1]
        /\ UNCHANGED <<total, exists, connected, hungUp, expired, owed, stream, spoiled>>
    BY <1>2, <1>11 DEF PutBack, netVars
  <2>2. /\ served[c] \in 0..MaxRequest /\ c \in connected /\ served[c] + 1 < MaxRequest
        /\ MaxRequest \in Nat
    BY <1>1, <1>3, <1>11, ClientAssumption DEF Over, TypeOK
  <2>3. served' \in [Conns -> 0..MaxRequest] /\ served'[c] < MaxRequest
        /\ \A d \in Conns \ {c} : served'[d] = served[d]
    BY <1>1, <1>3, <2>1, <2>2 DEF TypeOK
  <2>4. /\ conns' \in Seq(Conns) /\ Listed' = Listed \cup {c}
        /\ \A i, j \in 1..Len(conns') : conns'[i] = conns'[j] => i = j
    <3>1. PICK L \in Nat : L = Len(conns)
      BY <1>1, LenProperties DEF TypeOK
    <3>2. /\ conns' \in Seq(Conns) /\ Len(conns') = L + 1 /\ conns'[L + 1] = c
          /\ \A i \in 1..L : conns'[i] = conns[i]
      BY <1>1, <1>3, <2>1, <3>1, AppendProperties DEF TypeOK
    <3>3. Listed = {conns[i] : i \in 1..L} /\ \A i, j \in 1..L : conns[i] = conns[j] => i = j
      BY <1>1, <3>1 DEF Listed, Apart
    <3>4. \A i \in 1..(L + 1) : i = L + 1 \/ i \in 1..L
      BY <3>1
    <3>5. \A i \in 1..L : conns[i] # c
      BY <1>3, <3>3
    <3>6. \A i, j \in 1..(L + 1) : conns'[i] = conns'[j] => i = j
      BY <3>2, <3>3, <3>4, <3>5
    <3>7. {conns'[i] : i \in 1..(L + 1)} = Listed \cup {c}
      <4>1. L + 1 \in 1..(L + 1) /\ \A i \in 1..L : i \in 1..(L + 1)
        BY <3>1
      <4> QED BY <3>2, <3>3, <3>4, <4>1
    <3> QED BY <3>2, <3>6, <3>7 DEF Listed
  <2>5. TypeOK'
    <3>1. /\ total' \in Nat /\ exists' \subseteq Conns /\ connected' \subseteq Conns
          /\ hungUp' \subseteq Conns /\ expired' \subseteq Conns /\ spoiled' \subseteq Conns
          /\ owed' \in [Conns -> Seq(Requests)] /\ stream' \in [Conns -> Seq(Pieces)]
      BY <1>1, <2>1 DEF TypeOK
    <3> QED BY <1>t, <1>o, <2>3, <2>4, <3>1 DEF TypeOK
  <2>6. Apart'
    BY <1>1, <1>2, <1>3, <1>4, <1>5, <2>4 DEF Apart
  <2>7. Kept'
    BY <1>1, <1>2, <1>7, <2>1, <2>4 DEF Kept
  <2>8. Stages'
    BY <1>8, <2>1
  <2>9. Counted' /\ Fresh'
    BY <1>1, <1>6, <2>1 DEF Counted, TotalExact, Fresh, Quiet
  <2>10. IdleUsable'
    <3>1. ToSet(conns') = Listed'
      BY <2>4, LenProperties DEF ToSet, Listed
    <3> QED BY <1>1, <1>3, <1>5, <2>1, <2>2, <2>3, <2>4, <3>1 DEF IdleUsable
  <2>11. \A d \in Listed' : d \notin spoiled' => Quiet(d)'
    <3>1. c \notin spoiled => Quiet(c)
      BY <1>1, <1>2, <2>2 DEF StreamsInStep, UserInStep, InStep
    <3> QED BY <1>1, <2>1, <2>4, <3>1 DEF StreamsInStep, Quiet
  <2>12. ASSUME NEW v \in Users PROVE UserInStep(v)'
    <3>1. CASE v = u
      BY <1>1, <1>9, <2>1, <3>1 DEF TypeOK
    <3>2. CASE v # u
      <4>1. Undisturbed(v)
        BY <1>2, <1>4, <2>1, <3>2 DEF Undisturbed
      <4> QED BY <1>1, <4>1, UndisturbedInStep
    <3> QED BY <3>1, <3>2
  <2> QED BY <2>5, <2>6, <2>7, <2>8, <2>9, <2>10, <2>11, <2>12
          DEF ClientInv, PoolInv, StreamsInStep
<1> QED BY <1>10, <1>11

\* The owner lets go of the pool; when nobody has it the pool is destroyed.
LEMMA DropPoolKeeps ==
    ASSUME ClientInv, DropPool
    PROVE  ClientInv'
<1>1. /\ PoolInv /\ StreamsInStep /\ TypeOK /\ Apart /\ Kept /\ Stages /\ Counted /\ Fresh
      /\ IdleUsable
  BY DEF ClientInv, PoolInv
<1>2. /\ owner /\ owner' = FALSE /\ \A u \in Users : pc[u] \notin {"purge", "connect"}
      /\ UNCHANGED <<conns, total, exists, doomed, connected, hungUp, expired, served, owed,
                     stream, spoiled, pc, conn, calls, torn, need, got, body, early, wild>>
  BY DEF DropPool, connVars, netVars, userVars, bufVars
<1>3. Listed' = Listed
  BY <1>2 DEF Listed
<1>4. TypeOK'
  BY <1>1, <1>2 DEF TypeOK
<1>5. Apart' /\ Kept'
  BY <1>1, <1>2, <1>3 DEF Apart, Kept
<1>6. Stages'
  BY <1>1, <1>2 DEF Stages
<1>7. Counted' /\ Fresh' /\ IdleUsable'
  BY <1>1, <1>2 DEF Counted, TotalExact, Alive, Fresh, Quiet, IdleUsable
<1>8. \A d \in Listed' : d \notin spoiled' => Quiet(d)'
  BY <1>1, <1>2, <1>3 DEF StreamsInStep, Quiet
<1>9. ASSUME NEW u \in Users PROVE UserInStep(u)'
  <2>1. Undisturbed(u)
    BY <1>2 DEF Undisturbed
  <2> QED BY <1>1, <2>1, UndisturbedInStep
<1> QED BY <1>4, <1>5, <1>6, <1>7, <1>8, <1>9 DEF ClientInv, PoolInv, StreamsInStep

LEMMA DestroyPoolKeeps ==
    ASSUME ClientInv, DestroyPool
    PROVE  ClientInv'
<1>1. /\ PoolInv /\ StreamsInStep /\ TypeOK /\ Apart /\ Kept /\ Stages /\ Counted /\ Fresh
      /\ IdleUsable
  BY DEF ClientInv, PoolInv
<1>2. /\ ~Alive /\ Delete(ToSet(conns)) /\ conns' = <<>>
      /\ UNCHANGED <<total, doomed, owner, pc, conn, calls, torn, need, got, body, early, wild>>
  BY DEF DestroyPool, userVars, bufVars
<1>3. /\ ToSet(conns) = Listed /\ Listed \subseteq exists /\ exists \subseteq Conns
      /\ IsFiniteSet(exists)
  BY <1>1, ListedFacts DEF Counted
<1>4. /\ \A u \in Users : conn[u] = None
      /\ \A a \in Actors : doomed[a] = {}
      /\ ~Alive'
  BY <1>1, <1>2, AliveWhenUsed DEF Alive, Stages
<1>5. exists = Listed
  BY <1>1, <1>3, <1>4, ClientAssumption DEF Kept
<1>6. /\ exists' = exists \ Listed /\ connected' = connected \ Listed
      /\ spoiled' = spoiled \ Listed
      /\ hungUp' \subseteq Conns /\ expired' \subseteq Conns
      /\ IsFiniteSet(exists')
      /\ served' \in [Conns -> 0..MaxRequest]
      /\ owed' \in [Conns -> Seq(Requests)] /\ stream' \in [Conns -> Seq(Pieces)]
      /\ Fresh'
  BY <1>1, <1>2, <1>3, DeleteFacts
<1>7. conns' \in Seq(Conns) /\ Len(conns') = 0 /\ Listed' = {} /\ ToSet(conns') = {}
  <2>1. <<>> \in Seq(Conns) /\ Len(<<>>) = 0 /\ DOMAIN <<>> = {} /\ 1..0 = {}
    OBVIOUS
  <2> QED BY <1>2, <2>1 DEF Listed, ToSet
<1>8. TypeOK'
  BY <1>1, <1>2, <1>3, <1>6, <1>7 DEF TypeOK
<1>9. Apart' /\ Kept'
  BY <1>2, <1>4, <1>5, <1>6, <1>7, ClientAssumption DEF Apart, Kept
<1>10. Stages'
  BY <1>1, <1>2, <1>4 DEF Stages
<1>11. Counted' /\ IdleUsable'
  BY <1>2, <1>4, <1>6, <1>7 DEF Counted, TotalExact, IdleUsable
<1>12. ASSUME NEW u \in Users PROVE UserInStep(u)'
  <2>1. conn[u] \notin spoiled /\ conn[u] \notin connected'
    BY <1>1, <1>4, <1>6, ClientAssumption DEF TypeOK
  <2>2. Undisturbed(u)
    BY <1>2, <2>1 DEF Undisturbed
  <2> QED BY <1>1, <2>2, UndisturbedInStep
<1> QED BY <1>6, <1>7, <1>8, <1>9, <1>10, <1>11, <1>12 DEF ClientInv, PoolInv, StreamsInStep

-----------------------------------------------------------------------------
LEMMA InitClientInv == Init => ClientInv
<1> SUFFICES ASSUME Init PROVE ClientInv
  OBVIOUS
<1>1. /\ Len(conns) = 0 /\ conns \in Seq(Conns) /\ Listed = {} /\ ToSet(conns) = {}
  <2>1. <<>> \in Seq(Conns) /\ Len(<<>>) = 0 /\ DOMAIN <<>> = {} /\ 1..0 = {}
    OBVIOUS
  <2> QED BY <2>1 DEF Init, Listed, ToSet
<1>2. IsFiniteSet(exists) /\ total = Cardinality(exists) /\ total = 0
  BY FS_EmptySet DEF Init
<1>3. <<>> \in Seq(Requests) /\ <<>> \in Seq(Pieces)
  OBVIOUS
<1>4. TypeOK
  <2>1. served \in [Conns -> 0..MaxRequest] /\ calls \in [Users -> 0..MaxCalls]
    BY ClientAssumption DEF Init
  <2>2. owed \in [Conns -> Seq(Requests)] /\ stream \in [Conns -> Seq(Pieces)]
    BY <1>3 DEF Init
  <2>3. body \in [Users -> Seq(Pieces)]
    BY <1>3 DEF Init
  <2> QED BY <1>1, <2>1, <2>2, <2>3 DEF Init, TypeOK
<1>5. Apart /\ Kept
  BY <1>1, ClientAssumption DEF Init, Apart, Kept
<1>6. Stages
  BY ActorFacts DEF Init, Stages
<1>7. Counted /\ IdleUsable
  BY <1>1, <1>2 DEF Counted, TotalExact, IdleUsable
<1>8. Fresh
  BY DEF Init, Fresh, Quiet
<1>9. StreamsInStep
  BY <1>1, ActorFacts DEF Init, StreamsInStep, UserInStep
<1> QED BY <1>4, <1>5, <1>6, <1>7, <1>8, <1>9 DEF ClientInv, PoolInv

LEMMA StutterKeeps ==
    ASSUME ClientInv, UNCHANGED vars
    PROVE  ClientInv'
<1>1. /\ PoolInv /\ StreamsInStep /\ TypeOK /\ Apart /\ Kept /\ Stages /\ Counted /\ Fresh
      /\ IdleUsable
  BY DEF ClientInv, PoolInv
<1>2. UNCHANGED <<conns, total, exists, doomed, owner, connected, hungUp, expired, served, owed,
                  stream, spoiled, pc, conn, calls, torn, need, got, body, early, wild>>
  BY DEF vars, poolVars, connVars, netVars, userVars, bufVars
<1>3. Listed' = Listed
  BY <1>2 DEF Listed
<1>4. TypeOK' /\ Stages' /\ Fresh' /\ IdleUsable'
  BY <1>1, <1>2 DEF TypeOK, Stages, Fresh, Quiet, IdleUsable
<1>5. Apart' /\ Kept' /\ Counted'
  BY <1>1, <1>2, PoolUntouched DEF poolVars
<1>6. \A d \in Listed' : d \notin spoiled' => Quiet(d)'
  BY <1>1, <1>2, <1>3 DEF StreamsInStep, Quiet
<1>7. ASSUME NEW u \in Users PROVE UserInStep(u)'
  <2>1. Undisturbed(u)
    BY <1>2 DEF Undisturbed
  <2> QED BY <1>1, <2>1, UndisturbedInStep
<1> QED BY <1>4, <1>5, <1>6, <1>7 DEF ClientInv, PoolInv, StreamsInStep

LEMMA NextKeeps ==
    ASSUME ClientInv, [Next]_vars
    PROVE  ClientInv'
<1>1. ASSUME NEW u \in Users, Step(u) PROVE ClientInv'
  <2>1. ASSUME NEW n \in 1..BufLen, ReadHead(u, n) \/ ReadTorn(u, n) \/ ReadBody(u, n)
        PROVE  ClientInv'
    BY <2>1, ReadHeadKeeps, ReadTornKeeps, ReadBodyKeeps
  <2> QED BY <1>1, <2>1, ActorFacts, GetConnectionKeeps, PurgeKeeps, ConnectFailsKeeps,
             ConnectKeeps, SendRequestKeeps, SendFailsKeeps, ReadFailsKeeps, OverrunKeeps,
             ReleasePtrKeeps
          DEF Step
<1>2. ASSUME NEW c \in Conns, Network(c) PROVE ClientInv'
  BY <1>2, AnswerKeeps, PeerClosesKeeps, ExpiresKeeps DEF Network, Framings
<1>3. CASE CleanExpired \/ Purge(Cleaner) \/ DropPool \/ DestroyPool
  BY <1>3, ActorFacts, CleanExpiredKeeps, PurgeKeeps, DropPoolKeeps, DestroyPoolKeeps
<1>4. CASE UNCHANGED vars
  BY <1>4, StutterKeeps
<1> QED BY <1>1, <1>2, <1>3, <1>4 DEF Next

\* The invariant of the client: where each connection is, and how far its stream
\* and its user have got (HttpConnection.cc:62-151, 230-350).
THEOREM ClientInvariant == Spec => []ClientInv
<1>1. Init => ClientInv
  BY InitClientInv
<1>2. ClientInv /\ [Next]_vars => ClientInv'
  BY NextKeeps
<1> QED BY <1>1, <1>2, PTL DEF Spec

-----------------------------------------------------------------------------
\* How many there are of what there is one of at most.
LEMMA OneAtMost ==
    ASSUME NEW T, \A x, y \in T : x = y
    PROVE  Cardinality(T) = IF T = {} THEN 0 ELSE 1
<1>1. CASE T = {}
  BY <1>1, FS_EmptySet
<1>2. CASE T # {}
  <2>1. PICK x : T = {x}
    BY <1>2
  <2> QED BY <1>2, <2>1, FS_Singleton
<1> QED BY <1>1, <1>2

LEMMA ApartMeansOneOwner ==
    ASSUME TypeOK, Apart, Kept
    PROVE  OneOwner
<1> SUFFICES ASSUME NEW c \in Conns
             PROVE  Places(c) = IF c \in exists THEN 1 ELSE 0
  BY DEF OneOwner
<1> DEFINE P == {i \in DOMAIN conns : conns[i] = c}
           H == Holders(c)
           D == {a \in Actors : c \in doomed[a]}
<1>1. c # None /\ DOMAIN conns = 1..Len(conns)
  BY ClientAssumption, LenProperties DEF TypeOK
<1>2. /\ Cardinality(P) = IF P = {} THEN 0 ELSE 1
      /\ P # {} <=> c \in Listed
  <2>1. \A i, j \in P : i = j
    BY <1>1 DEF Apart
  <2>2. P # {} <=> c \in Listed
    BY <1>1 DEF Listed
  <2> HIDE DEF P
  <2> QED BY <2>1, <2>2, OneAtMost
<1>3. /\ Cardinality(H) = IF H = {} THEN 0 ELSE 1
      /\ H # {} <=> \E u \in Users : conn[u] = c
  <2>1. \A u, v \in H : u = v
    BY <1>1 DEF Apart, Holders
  <2>2. H # {} <=> \E u \in Users : conn[u] = c
    BY DEF Holders
  <2> HIDE DEF H
  <2> QED BY <2>1, <2>2, OneAtMost
<1>4. /\ Cardinality(D) = IF D = {} THEN 0 ELSE 1
      /\ D # {} <=> \E a \in Actors : c \in doomed[a]
  <2>1. \A a, b \in D : a = b
    BY DEF Apart
  <2>2. D # {} <=> \E a \in Actors : c \in doomed[a]
    OBVIOUS
  <2> HIDE DEF D
  <2> QED BY <2>1, <2>2, OneAtMost
<1>5. Places(c) = Cardinality(P) + Cardinality(H) + Cardinality(D)
  BY DEF Places
<1> HIDE DEF P, H, D
<1>6. /\ P # {} => H = {} /\ D = {}
      /\ H # {} => D = {}
  BY <1>2, <1>3, <1>4 DEF Apart
<1>7. c \in exists <=> P # {} \/ H # {} \/ D # {}
  BY <1>2, <1>3, <1>4 DEF Kept
<1> QED BY <1>2, <1>3, <1>4, <1>5, <1>6, <1>7

\* The pool's accounts are right whoever takes, deletes and gives back connections
\* at the same time: each connection has one owner, m_total counts them, and the
\* idle ones can be used (HttpConnection.cc:230-350).
THEOREM PoolIsExact == Spec => []PoolExact
<1>1. ClientInv => PoolExact
  BY ApartMeansOneOwner DEF ClientInv, PoolInv, Counted, PoolExact
<1> QED BY <1>1, ClientInvariant, PTL

\* When the last reference to the pool is gone so are the connections, also those
\* given back after the owner had dropped it (HttpConnection.cc:235-244, 309-312).
THEOREM ThePoolTakesAllWithIt == Spec => []NothingOutlivesPool
<1>1. ASSUME ClientInv PROVE NothingOutlivesPool
  <2> SUFFICES ASSUME ~Alive, conns = <<>> PROVE exists = {} /\ connected = {}
    BY DEF NothingOutlivesPool
  <2>1. TypeOK /\ Kept /\ Stages /\ Fresh
    BY <1>1 DEF ClientInv, PoolInv
  <2>2. \A u \in Users : conn[u] = None
    BY DEF Alive
  <2>3. \A a \in Actors : doomed[a] = {}
    BY <2>1, AliveWhenUsed DEF Stages
  <2>4. Listed = {}
    <3>1. Len(<<>>) = 0 /\ 1..0 = {}
      OBVIOUS
    <3> QED BY <3>1 DEF Listed
  <2>5. exists = {}
    <3>1. exists \subseteq Conns
      BY <2>1 DEF TypeOK
    <3>2. ASSUME NEW c \in Conns PROVE c \notin exists
      <4>1. c # None
        BY ClientAssumption
      <4>2. c \notin Listed
        BY <2>4
      <4>3. ~(\E u \in Users : conn[u] = c)
        BY <2>2, <4>1
      <4>4. ~(\E a \in Actors : c \in doomed[a])
        BY <2>3
      <4> QED BY <2>1, <4>2, <4>3, <4>4 DEF Kept
    <3> QED BY <3>1, <3>2
  <2>6. connected = {}
    BY <2>1, <2>5 DEF Fresh, TypeOK
  <2> QED BY <2>5, <2>6
<1> QED BY <1>1, ClientInvariant, PTL

\* A user gets the response to its own request and consumes it to its last byte,
\* and the body has the server's pieces in their order, but for those that came in
\* one read with the end of the header, unless the server sends a body without a
\* length or a read has run past the buffer (HttpConnection.cc:70-148, 309-345).
THEOREM ResponsesAreExact == Spec => []ResponsesExact
<1>1. ASSUME ClientInv PROVE ResponsesExact
  <2>1. \A u \in Users : UserInStep(u)
    BY <1>1 DEF ClientInv, StreamsInStep
  <2>2. ResponseIsMine
    BY <2>1 DEF UserInStep, ResponseIsMine
  <2>3. ConsumedExactly
    BY <2>1 DEF UserInStep, InStep, Quiet, ConsumedExactly
  <2>4. BodyAsMade
    BY <2>1 DEF UserInStep, BodyAsMade
  <2> QED BY <2>2, <2>3, <2>4 DEF ResponsesExact
<1> QED BY <1>1, ClientInvariant, PTL
=============================================================================
