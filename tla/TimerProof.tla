----------------------------- MODULE TimerProof -----------------------------
(***************************************************************************)
(* Proofs about module TimerManager: the set of timers is exact, no timer  *)
(* that does not repeat is handed over twice, and no wait of the idle      *)
(* threads outlasts the earliest timer, for every number of timers,        *)
(* threads, periods and calls.                                             *)
(***************************************************************************)
EXTENDS TimerProps, SequenceTheorems, FiniteSetTheorems,
        WellFoundedInduction, TLAPS

LessThan == {ss \in Nat \X Nat : ss[1] < ss[2]}

LEMMA LessThanWellFounded == IsWellFoundedOn(LessThan, Nat)
<1>1. LessThan = OpToRel(<, Nat)
  BY DEF LessThan, OpToRel
<1> QED BY <1>1, NatLessThanWellFounded

\* A set of natural numbers that is not empty has a least element.
LEMMA LeastNat ==
    ASSUME NEW T \in SUBSET Nat, T # {}
    PROVE  \E x \in T : \A y \in T : x <= y
<1>1. PICK x \in T : \A y \in T : ~ (<<y, x>> \in LessThan)
  BY LessThanWellFounded, WFMin, Zenon
<1>2. \A y \in T : ~(y < x)
  BY <1>1 DEF LessThan
<1> QED BY <1>2

\* Induction over the natural numbers, for a set of them.
LEMMA InductionOnSet ==
    ASSUME NEW T \in SUBSET Nat, 0 \in T, \A n \in T : n + 1 \in T
    PROVE  T = Nat
<1> SUFFICES ASSUME Nat \ T # {} PROVE FALSE
  OBVIOUS
<1>1. PICK x \in Nat \ T : \A y \in Nat \ T : x <= y
  BY LeastNat
<1>2. x # 0 /\ x - 1 \in Nat
  BY <1>1
<1>3. x - 1 \in T
  BY <1>1, <1>2
<1> QED BY <1>1, <1>2, <1>3

-----------------------------------------------------------------------------
-----------------------------------------------------------------------------
\* What the operations of a std::set do to a sequence that is in its order.

Sorted(s, d) == \A i, k \in 1..Len(s) : i < k => Before(s[i], s[k], d)
Elems(s) == {s[i] : i \in 1..Len(s)}

\* An element is put behind the first n.
InsertedAt(s, n, t, q) ==
    /\ q \in Seq(Timers) /\ Len(q) = Len(s) + 1
    /\ \A i \in 1..n : q[i] = s[i]
    /\ q[n + 1] = t
    /\ \A i \in (n + 2)..(Len(s) + 1) : q[i] = s[i - 1]

LEMMA InsertAtPlaces ==
    ASSUME NEW s \in Seq(Timers), NEW t \in Timers, NEW n \in 0..Len(s)
    PROVE  InsertedAt(s, n, t, InsertAt(s, n + 1, t))
<1> DEFINE a == SubSeq(s, 1, n)
           b == SubSeq(s, n + 1, Len(s))
           c == a \o <<t>>
           r == c \o b
<1>0. PICK L \in Nat : L = Len(s)
  BY LenProperties
<1>1. /\ a \in Seq(Timers) /\ Len(a) = n /\ \A i \in 1..n : a[i] = s[i]
      /\ b \in Seq(Timers) /\ Len(b) = L - n /\ \A i \in 1..(L - n) : b[i] = s[n + i]
  BY <1>0, SubSeqProperties
<1>2. InsertAt(s, n + 1, t) = r
  <2>1. (n + 1) - 1 = n
    BY <1>0
  <2> QED BY <2>1 DEF InsertAt
<1> HIDE DEF a, b
<1>3. <<t>> \in Seq(Timers) /\ Len(<<t>>) = 1 /\ <<t>>[1] = t
  OBVIOUS
<1>4. /\ c \in Seq(Timers) /\ Len(c) = n + 1 /\ c[n + 1] = t
      /\ \A i \in 1..n : c[i] = s[i]
  <2>1. /\ c \in Seq(Timers) /\ Len(c) = n + 1
        /\ \A i \in 1..(n + 1) : c[i] = IF i <= n THEN a[i] ELSE <<t>>[i - n]
    BY <1>0, <1>1, <1>3, ConcatProperties
  <2>2. n + 1 \in 1..(n + 1) /\ ~(n + 1 <= n) /\ (n + 1) - n = 1
        /\ \A i \in 1..n : i \in 1..(n + 1) /\ i <= n
    BY <1>0
  <2> HIDE DEF c
  <2> QED BY <1>1, <1>3, <2>1, <2>2
<1> HIDE DEF c
<1>5. /\ r \in Seq(Timers) /\ Len(r) = L + 1
      /\ \A i \in 1..(L + 1) : r[i] = IF i <= n + 1 THEN c[i] ELSE b[i - (n + 1)]
  <2>1. (n + 1) + (L - n) = L + 1
    BY <1>0
  <2>2. Len(c) + Len(b) = L + 1
    BY <1>1, <1>4, <2>1
  <2>3. /\ r \in Seq(Timers) /\ Len(r) = Len(c) + Len(b)
        /\ \A i \in 1..(Len(c) + Len(b)) :
               r[i] = IF i <= Len(c) THEN c[i] ELSE b[i - Len(c)]
    BY <1>1, <1>4, ConcatProperties
  <2> HIDE DEF r
  <2> QED BY <1>1, <1>4, <2>2, <2>3
<1> HIDE DEF r
<1>6. ASSUME NEW i \in (n + 2)..(L + 1) PROVE r[i] = s[i - 1]
  <2>1. i \in 1..(L + 1) /\ ~(i <= n + 1) /\ i - (n + 1) \in 1..(L - n)
        /\ n + (i - (n + 1)) = i - 1
    BY <1>0
  <2> QED BY <1>1, <1>5, <2>1
<1>7. \A i \in 1..(n + 1) : i \in 1..(L + 1) /\ i <= n + 1
  BY <1>0
<1>8. \A i \in 1..n : i \in 1..(n + 1)
  BY <1>0
<1>9. n + 1 \in 1..(n + 1)
  BY <1>0
<1> QED BY <1>0, <1>2, <1>4, <1>5, <1>6, <1>7, <1>8, <1>9 DEF InsertedAt

LEMMA RemoveAtPlaces ==
    ASSUME NEW s \in Seq(Timers), NEW n \in 1..Len(s),
           NEW q, q = RemoveAt(s, n)
    PROVE  /\ q \in Seq(Timers) /\ Len(q) = Len(s) - 1
           /\ \A i \in 1..(n - 1) : q[i] = s[i]
           /\ \A i \in n..(Len(s) - 1) : q[i] = s[i + 1]
<1> DEFINE a == SubSeq(s, 1, n - 1)
           b == SubSeq(s, n + 1, Len(s))
           r == a \o b
<1>0. PICK L \in Nat : L = Len(s) /\ n \in 1..L /\ n - 1 \in Nat
  BY LenProperties
<1>1. /\ a \in Seq(Timers) /\ Len(a) = n - 1 /\ \A i \in 1..(n - 1) : a[i] = s[i]
      /\ b \in Seq(Timers) /\ Len(b) = L - n /\ \A i \in 1..(L - n) : b[i] = s[n + i]
  <2>1. /\ a \in Seq(Timers) /\ Len(a) = n - 1 /\ \A i \in 1..(n - 1) : a[i] = s[i]
    BY <1>0, SubSeqProperties
  <2>2. /\ b \in Seq(Timers) /\ Len(b) = L - n /\ \A i \in 1..(L - n) : b[i] = s[n + i]
    BY <1>0, SubSeqProperties
  <2> QED BY <2>1, <2>2
<1>2. q = r
  BY DEF RemoveAt
<1> HIDE DEF a, b
<1>3. /\ r \in Seq(Timers) /\ Len(r) = L - 1
      /\ \A i \in 1..(L - 1) : r[i] = IF i <= n - 1 THEN a[i] ELSE b[i - (n - 1)]
  <2>1. (n - 1) + (L - n) = L - 1
    BY <1>0
  <2>2. Len(a) + Len(b) = L - 1
    BY <1>1, <2>1
  <2>3. /\ r \in Seq(Timers) /\ Len(r) = Len(a) + Len(b)
        /\ \A i \in 1..(Len(a) + Len(b)) :
               r[i] = IF i <= Len(a) THEN a[i] ELSE b[i - Len(a)]
    BY <1>1, ConcatProperties
  <2> HIDE DEF r
  <2> QED BY <1>1, <2>2, <2>3
<1> HIDE DEF r
<1>4. ASSUME NEW i \in n..(L - 1) PROVE r[i] = s[i + 1]
  <2>1. i \in 1..(L - 1) /\ ~(i <= n - 1) /\ i - (n - 1) \in 1..(L - n)
        /\ n + (i - (n - 1)) = i + 1
    BY <1>0
  <2> QED BY <1>1, <1>3, <2>1
<1>5. \A i \in 1..(n - 1) : i \in 1..(L - 1) /\ i <= n - 1
  BY <1>0
<1> QED BY <1>0, <1>1, <1>2, <1>3, <1>4, <1>5

\* Before is the order of the addresses among timers that are due at once.
LEMMA BeforeOrders ==
    ASSUME NEW d \in [Timers -> Int], NEW t \in Timers, NEW u \in Timers,
           NEW v \in Timers
    PROVE  /\ Before(t, u, d) /\ Before(u, v, d) => Before(t, v, d)
           /\ t # u => Before(t, u, d) \/ Before(u, t, d)
           /\ ~(Before(t, u, d) /\ Before(u, t, d))
BY TimerAssumption DEF Before

\* A timer that is not in the set comes to its place.
LEMMA InsertSorts ==
    ASSUME NEW s \in Seq(Timers), NEW d \in [Timers -> Int], Sorted(s, d),
           NEW t \in Timers, t \notin Elems(s)
    PROVE  /\ Insert(s, t, d) \in Seq(Timers)
           /\ Sorted(Insert(s, t, d), d)
           /\ Elems(Insert(s, t, d)) = Elems(s) \cup {t}
           /\ Len(Insert(s, t, d)) # 0
<1> DEFINE B == {i \in DOMAIN s : Before(s[i], t, d)}
           N == {i \in 1..(Len(s) + 1) : i \notin B}
           r == Insert(s, t, d)
<1>0. PICK L \in Nat : L = Len(s) /\ DOMAIN s = 1..L
  BY LenProperties
<1>1. \A i \in 1..L : s[i] \in Timers /\ s[i] # t
  BY <1>0, ElementOfSeq DEF Elems
<1>2. PICK m \in N : \A i \in N : m <= i
  <2>1. L + 1 \in N
    BY <1>0
  <2>2. N \in SUBSET Nat
    BY <1>0
  <2> HIDE DEF N
  <2> QED BY <2>1, <2>2, LeastNat
<1> DEFINE n == m - 1
<1>3. n \in 0..L /\ \A i \in 1..n : i \in B
  BY <1>0, <1>2
<1>4. \A i \in B : i \in 1..n
  <2> SUFFICES ASSUME NEW i \in 1..L, Before(s[i], t, d), ~(i <= n) PROVE FALSE
    BY <1>0, <1>3
  <2>1. m \in 1..L /\ ~Before(s[m], t, d) /\ (m < i \/ m = i)
    BY <1>0, <1>2
  <2>2. m < i => Before(s[m], s[i], d)
    BY <1>0, <2>1 DEF Sorted
  <2> QED BY <1>1, <2>1, <2>2, BeforeOrders
<1>5. B = 1..n
  BY <1>3, <1>4
<1>6. Cardinality(B) = n
  <2>1. Cardinality(1..n) = n
    BY <1>3, FS_Interval
  <2> QED BY <1>5, <2>1
<1>7. r = InsertAt(s, n + 1, t)
  BY <1>6 DEF Insert
<1>b. \A i \in 1..L : i > n => Before(t, s[i], d)
  BY <1>0, <1>1, <1>3, <1>5, BeforeOrders
<1>a. \A i \in 1..n : Before(s[i], t, d)
  BY <1>5
<1> HIDE DEF n, r, B, N
<1>8. /\ r \in Seq(Timers) /\ Len(r) = L + 1
      /\ \A i \in 1..n : r[i] = s[i]
      /\ r[n + 1] = t
      /\ \A i \in (n + 2)..(L + 1) : r[i] = s[i - 1]
  <2>1. n \in 0..Len(s)
    BY <1>0, <1>3
  <2>2. InsertedAt(s, n, t, r)
    BY <1>7, <2>1, InsertAtPlaces
  <2> QED BY <1>0, <2>2 DEF InsertedAt
<1>9. \A i \in 1..(L + 1) : i \in 1..n \/ i = n + 1 \/ i \in (n + 2)..(L + 1)
  BY <1>3
<1>10. ASSUME NEW i \in 1..(L + 1), NEW k \in 1..(L + 1), i < k
       PROVE  Before(r[i], r[k], d)
  <2>1. CASE i \in 1..n /\ k \in 1..n
    <3>1. r[i] = s[i] /\ r[k] = s[k] /\ i \in 1..L /\ k \in 1..L
      BY <1>3, <1>8, <2>1
    <3> QED BY <1>0, <1>10, <3>1 DEF Sorted
  <2>2. CASE i \in 1..n /\ k = n + 1
    BY <1>a, <1>8, <2>2
  <2>3. CASE i \in 1..n /\ k \in (n + 2)..(L + 1)
    <3>1. r[i] = s[i] /\ r[k] = s[k - 1]
      BY <1>8, <2>3
    <3>2. i \in 1..L /\ k - 1 \in 1..L /\ i < k - 1
      BY <1>3, <2>3
    <3> QED BY <1>0, <3>1, <3>2 DEF Sorted
  <2>4. CASE i = n + 1 /\ k \in (n + 2)..(L + 1)
    <3>1. r[i] = t /\ r[k] = s[k - 1] /\ k - 1 \in 1..L /\ k - 1 > n
      BY <1>3, <1>8, <2>4
    <3> QED BY <1>b, <3>1
  <2>5. CASE i \in (n + 2)..(L + 1) /\ k \in (n + 2)..(L + 1)
    <3>1. r[i] = s[i - 1] /\ r[k] = s[k - 1]
      BY <1>8, <2>5
    <3>2. i - 1 \in 1..L /\ k - 1 \in 1..L /\ i - 1 < k - 1
      BY <1>3, <1>10, <2>5
    <3> QED BY <1>0, <3>1, <3>2 DEF Sorted
  <2> QED BY <1>3, <1>9, <1>10, <2>1, <2>2, <2>3, <2>4, <2>5
<1>11. Elems(r) = Elems(s) \cup {t}
  <2>1. \A x \in Elems(r) : x \in Elems(s) \cup {t}
    <3> SUFFICES ASSUME NEW i \in 1..(L + 1), r[i] # t PROVE r[i] \in Elems(s)
      BY <1>8 DEF Elems
    <3>1. \E k \in 1..L : r[i] = s[k]
      <4>1. CASE i \in 1..n
        <5>1. i \in 1..L
          BY <1>3, <4>1
        <5> QED BY <1>8, <4>1, <5>1
      <4>2. CASE i \in (n + 2)..(L + 1)
        <5>1. i - 1 \in 1..L /\ r[i] = s[i - 1]
          BY <1>3, <1>8, <4>2
        <5> QED BY <5>1
      <4> QED BY <1>8, <1>9, <4>1, <4>2
    <3> QED BY <1>0, <3>1 DEF Elems
  <2>2. t \in Elems(r)
    <3>1. n + 1 \in 1..(L + 1)
      BY <1>3
    <3> QED BY <1>8, <3>1 DEF Elems
  <2>3. ASSUME NEW k \in 1..L PROVE s[k] \in Elems(r)
    <3>1. CASE k <= n
      <4>1. k \in 1..n /\ k \in 1..(L + 1)
        BY <1>3, <3>1
      <4> QED BY <1>8, <4>1 DEF Elems
    <3>2. CASE k > n
      <4>1. k + 1 \in (n + 2)..(L + 1) /\ k + 1 \in 1..(L + 1) /\ (k + 1) - 1 = k
        BY <1>3, <3>2
      <4>2. r[k + 1] = s[k]
        BY <1>8, <4>1
      <4> QED BY <1>8, <4>1, <4>2 DEF Elems
    <3> QED BY <1>3, <3>1, <3>2
  <2> QED BY <1>0, <2>1, <2>2, <2>3 DEF Elems
<1> QED BY <1>8, <1>10, <1>11 DEF Sorted, r

LEMMA FirstIsLeast ==
    ASSUME NEW s \in Seq(Timers), NEW d \in [Timers -> Int], Sorted(s, d),
           NEW x \in Elems(s)
    PROVE  s # <<>> /\ s[1] \in Elems(s) /\ d[s[1]] <= d[x]
<1>1. PICK L \in Nat : L = Len(s)
  BY LenProperties
<1>2. PICK i \in 1..L : x = s[i]
  BY <1>1 DEF Elems
<1>3. 1 \in 1..L /\ s[1] \in Timers /\ s[i] \in Timers
  BY <1>1, <1>2, ElementOfSeq
<1>4. s[1] \in Elems(s)
  BY <1>1, <1>3 DEF Elems
<1>5. s # <<>>
  BY <1>1, <1>3, EmptySeq
<1>6. i = 1 \/ Before(s[1], s[i], d)
  BY <1>1, <1>3 DEF Sorted
<1> QED BY <1>2, <1>3, <1>4, <1>5, <1>6 DEF Before

\* The order depends on the deadlines of the timers in the set only.
LEMMA SortedStays ==
    ASSUME NEW s \in Seq(Timers), NEW d, NEW e, Sorted(s, d),
           \A t \in Elems(s) : d[t] = e[t]
    PROVE  Sorted(s, e)
<1>1. \A i \in 1..Len(s) : s[i] \in Elems(s)
  BY DEF Elems
<1> QED BY <1>1 DEF Sorted, Before

\* Erasing leaves the others, in their order.
LEMMA EraseSorts ==
    ASSUME NEW s \in Seq(Timers), NEW d \in [Timers -> Int], Sorted(s, d), NEW t
    PROVE  /\ RemoveFirst(s, t) \in Seq(Timers)
           /\ Sorted(RemoveFirst(s, t), d)
           /\ Elems(RemoveFirst(s, t)) = Elems(s) \ {t}
<1>0. PICK L \in Nat : L = Len(s)
  BY LenProperties
<1>1. CASE ~\E i \in 1..L : s[i] = t
  <2>1. RemoveFirst(s, t) = s
    BY <1>0, <1>1 DEF RemoveFirst
  <2> QED BY <1>0, <1>1, <2>1 DEF Elems
<1>2. CASE \E i \in 1..L : s[i] = t
  <2> DEFINE I == {i \in 1..L : s[i] = t}
  <2>1. PICK m \in I : \A i \in I : m <= i
    <3>1. I \in SUBSET Nat /\ I # {}
      BY <1>2
    <3> HIDE DEF I
    <3> QED BY <3>1, LeastNat
  <2>2. SelectInSeq(s, LAMBDA v : v = t) \in I
    BY <1>0, <2>1 DEF SelectInSeq, Min
  <2>3. PICK n \in 1..L : s[n] = t /\ RemoveFirst(s, t) = RemoveAt(s, n)
    BY <1>0, <1>2, <2>2 DEF RemoveFirst
  <2> HIDE DEF I
  <2>4. PICK q : q = RemoveAt(s, n)
    OBVIOUS
  <2>5. /\ q \in Seq(Timers) /\ Len(q) = L - 1
        /\ \A i \in 1..(n - 1) : q[i] = s[i]
        /\ \A i \in n..(L - 1) : q[i] = s[i + 1]
    BY <1>0, <2>4, RemoveAtPlaces
  <2>6. \A i \in 1..(L - 1) : i \in 1..(n - 1) \/ i \in n..(L - 1)
    OBVIOUS
  <2> DEFINE at(i) == IF i < n THEN i ELSE i + 1
  <2>7. \A i \in 1..(L - 1) : at(i) \in 1..L /\ at(i) # n
    OBVIOUS
  <2>8. \A i \in 1..(L - 1) : q[i] = s[at(i)]
    <3> SUFFICES ASSUME NEW i \in 1..(L - 1) PROVE q[i] = s[at(i)]
      OBVIOUS
    <3>1. CASE i \in 1..(n - 1)
      BY <2>5, <3>1
    <3>2. CASE i \in n..(L - 1)
      BY <2>5, <3>2
    <3> QED BY <2>6, <3>1, <3>2
  <2>9. \A i, k \in 1..(L - 1) : i < k => at(i) < at(k)
    OBVIOUS
  <2>10. \A i \in 1..L : i # n => \E k \in 1..(L - 1) : at(k) = i
    <3> SUFFICES ASSUME NEW i \in 1..L, i # n
                 PROVE  \E k \in 1..(L - 1) : at(k) = i
      OBVIOUS
    <3>1. CASE i < n
      <4>1. i \in 1..(L - 1) /\ at(i) = i
        BY <3>1
      <4> QED BY <4>1
    <3>2. CASE i > n
      <4>1. i - 1 \in 1..(L - 1) /\ at(i - 1) = i
        BY <3>2
      <4> QED BY <4>1
    <3> QED BY <3>1, <3>2
  <2> HIDE DEF at
  <2>11. Sorted(q, d)
    BY <1>0, <2>5, <2>7, <2>8, <2>9 DEF Sorted
  <2>12. \A i \in 1..L : i # n => s[i] # t
    <3> SUFFICES ASSUME NEW i \in 1..L, i # n, s[i] = t PROVE FALSE
      OBVIOUS
    <3>1. t \in Timers
      BY <1>0, ElementOfSeq
    <3>2. Before(t, t, d)
      <4>1. i < n \/ n < i
        OBVIOUS
      <4> QED BY <1>0, <2>3, <4>1 DEF Sorted
    <3> QED BY <3>1, <3>2, BeforeOrders
  <2>13. \A x : x \in Elems(q) <=> x \in Elems(s) /\ x # t
    <3>1. \A x : x \in Elems(q) <=> \E k \in 1..(L - 1) : x = q[k]
      BY <2>5 DEF Elems
    <3>2. \A x : x \in Elems(s) <=> \E k \in 1..L : x = s[k]
      BY <1>0 DEF Elems
    <3>3. ASSUME NEW x, x \in Elems(q) PROVE x \in Elems(s) /\ x # t
      <4>1. PICK k \in 1..(L - 1) : x = q[k]
        BY <3>1, <3>3
      <4>2. x = s[at(k)] /\ at(k) \in 1..L /\ at(k) # n
        BY <2>7, <2>8, <4>1
      <4> QED BY <2>12, <3>2, <4>2
    <3>4. ASSUME NEW x, x \in Elems(s), x # t PROVE x \in Elems(q)
      <4>1. PICK i \in 1..L : x = s[i]
        BY <3>2, <3>4
      <4>2. PICK k \in 1..(L - 1) : at(k) = i
        BY <2>3, <2>10, <3>4, <4>1
      <4> QED BY <2>8, <3>1, <4>1, <4>2
    <3> QED BY <3>3, <3>4
  <2> QED BY <2>3, <2>4, <2>5, <2>11, <2>13
<1> QED BY <1>1, <1>2

\* So does taking out the first k.
LEMMA RestSorts ==
    ASSUME NEW s \in Seq(Timers), NEW d, Sorted(s, d), NEW k \in 0..Len(s)
    PROVE  LET r == SubSeq(s, k + 1, Len(s)) IN
           /\ r \in Seq(Timers) /\ Sorted(r, d)
           /\ Elems(r) = {s[i] : i \in (k + 1)..Len(s)}
<1> DEFINE r == SubSeq(s, k + 1, Len(s))
<1>0. PICK L \in Nat : L = Len(s) /\ k \in 0..L
  BY LenProperties
<1>1. r \in Seq(Timers) /\ Len(r) = L - k /\ \A i \in 1..(L - k) : r[i] = s[k + i]
  BY <1>0, SubSeqProperties, ElementOfSeq
<1> HIDE DEF r
<1>2. \A i \in 1..(L - k) : k + i \in (k + 1)..L /\ k + i \in 1..L
  BY <1>0
<1>3. \A i \in (k + 1)..L : i - k \in 1..(L - k) /\ k + (i - k) = i
  BY <1>0
<1>4. Sorted(r, d)
  <2> SUFFICES ASSUME NEW i \in 1..(L - k), NEW j \in 1..(L - k), i < j
               PROVE  Before(r[i], r[j], d)
    BY <1>1 DEF Sorted
  <2>1. k + i < k + j
    BY <1>0
  <2> QED BY <1>0, <1>1, <1>2, <2>1 DEF Sorted
<1>5. \A x : x \in Elems(r) <=> \E i \in (k + 1)..L : x = s[i]
  <2>1. \A x : x \in Elems(r) <=> \E i \in 1..(L - k) : x = r[i]
    BY <1>1 DEF Elems
  <2>2. ASSUME NEW i \in 1..(L - k) PROVE \E j \in (k + 1)..L : r[i] = s[j]
    BY <1>1, <1>2
  <2>3. ASSUME NEW j \in (k + 1)..L PROVE \E i \in 1..(L - k) : s[j] = r[i]
    <3>1. r[j - k] = s[j]
      BY <1>1, <1>3
    <3> QED BY <1>3, <3>1
  <2>4. ASSUME NEW x, x \in Elems(r) PROVE \E i \in (k + 1)..L : x = s[i]
    <3>1. PICK i \in 1..(L - k) : x = r[i]
      BY <2>1, <2>4
    <3> QED BY <2>2, <3>1
  <2>5. ASSUME NEW j \in (k + 1)..L PROVE s[j] \in Elems(r)
    BY <2>1, <2>3
  <2> QED BY <2>4, <2>5
<1>6. Elems(r) = {s[i] : i \in (k + 1)..Len(s)}
  BY <1>0, <1>5
<1> QED BY <1>1, <1>4, <1>6 DEF r

BackBody(left, s, S, d, f, n) ==
    IF n = 0 THEN left
    ELSE IF s[n] \in S THEN Insert(f[n - 1], s[n], d) ELSE f[n - 1]

\* The recursive function that puts timers back is defined.
LEMMA PutBackDef ==
    ASSUME NEW left, NEW s \in Seq(Timers), NEW S, NEW d
    PROVE  \E f : /\ \A n \in 0..Len(s) : f[n] = BackBody(left, s, S, d, f, n)
                  /\ PutBack(left, s, S, d) = f[Len(s)]
<1> DEFINE Good(m, g) == g = [n \in 0..m |-> BackBody(left, s, S, d, g, n)]
           M == {m \in Nat : \E g : Good(m, g)}
<1>1. 0 \in M
  <2> DEFINE g == [n \in 0..0 |-> left]
  <2>1. Good(0, g)
    BY DEF BackBody
  <2> QED BY <2>1
<1>2. ASSUME NEW m \in M PROVE m + 1 \in M
  <2>1. PICK g : Good(m, g)
    <3> HIDE DEF Good
    <3> QED OBVIOUS
  <2>2. m \in Nat /\ (m + 1) - 1 = m /\ m + 1 # 0
    OBVIOUS
  <2> DEFINE last == IF s[m + 1] \in S THEN Insert(g[m], s[m + 1], d) ELSE g[m]
             h == [n \in 0..(m + 1) |-> IF n = m + 1 THEN last ELSE g[n]]
  <2>3. ASSUME NEW n \in 0..(m + 1) PROVE h[n] = BackBody(left, s, S, d, h, n)
    <3>1. CASE n = m + 1
      <4>1. h[n] = last /\ h[n - 1] = g[m] /\ n - 1 = m /\ n # 0
        BY <2>2, <3>1
      <4> HIDE DEF h
      <4> QED BY <3>1, <4>1 DEF BackBody
    <3>2. CASE n \in 0..m
      <4>1. h[n] = g[n] /\ (n # 0 => h[n - 1] = g[n - 1])
        BY <2>2, <3>2
      <4>2. g[n] = BackBody(left, s, S, d, g, n)
        BY <2>1, <3>2
      <4> HIDE DEF h, Good
      <4> QED BY <4>1, <4>2 DEF BackBody
    <3> QED BY <2>2, <3>1, <3>2
  <2>4. Good(m + 1, h)
    <3> DEFINE k == [n \in 0..(m + 1) |-> BackBody(left, s, S, d, h, n)]
    <3>1. \A n \in 0..(m + 1) : h[n] = k[n]
      BY <2>3
    <3>2. h = k
      BY <3>1
    <3> QED BY <3>2
  <2> QED BY <2>2, <2>4
<1>3. M = Nat
  <2> HIDE DEF Good
  <2> QED BY <1>1, <1>2, InductionOnSet
<1>4. PICK g : Good(Len(s), g)
  <2>1. Len(s) \in M
    BY <1>3, LenProperties
  <2> HIDE DEF Good
  <2> QED BY <2>1
<1> DEFINE IsBack(f) == f = [n \in 0..Len(s) |->
                IF n = 0 THEN left
                ELSE IF s[n] \in S THEN Insert(f[n - 1], s[n], d) ELSE f[n - 1]]
           f == CHOOSE f : IsBack(f)
<1>5. IsBack(g)
  BY <1>4 DEF BackBody
<1>6. IsBack(f)
  <2> HIDE DEF IsBack
  <2> QED BY <1>5
<1>7. PutBack(left, s, S, d) = f[Len(s)]
  BY DEF PutBack
<1> HIDE DEF f
<1>8. \A n \in 0..Len(s) : f[n] = BackBody(left, s, S, d, f, n)
  BY <1>6 DEF BackBody
<1> QED BY <1>7, <1>8

IsPutBack(left, s, S, d, r) ==
    /\ r \in Seq(Timers) /\ Sorted(r, d)
    /\ Elems(r) = Elems(left) \cup (Elems(s) \cap S)

\* The timers that come back come to their places among those that were left.
LEMMA PutBackSorts ==
    ASSUME NEW left \in Seq(Timers), NEW s \in Seq(Timers), NEW S,
           NEW d \in [Timers -> Int], Sorted(left, d),
           \A i \in 1..Len(s) : s[i] \notin Elems(left),
           \A i, k \in 1..Len(s) : s[i] = s[k] => i = k
    PROVE  IsPutBack(left, s, S, d, PutBack(left, s, S, d))
<1>1. PICK f : /\ \A n \in 0..Len(s) : f[n] = BackBody(left, s, S, d, f, n)
               /\ PutBack(left, s, S, d) = f[Len(s)]
  BY PutBackDef
<1>0. PICK L \in Nat : L = Len(s)
  BY LenProperties
<1> DEFINE Back(n) == Elems(left) \cup {s[i] : i \in {j \in 1..n : s[j] \in S}}
           Holds(n) == f[n] \in Seq(Timers) /\ Sorted(f[n], d) /\ Elems(f[n]) = Back(n)
           M == {m \in Nat : m <= L => Holds(m)}
<1>2. 0 \in M
  <2>1. f[0] = left
    BY <1>0, <1>1 DEF BackBody
  <2>2. Back(0) = Elems(left)
    OBVIOUS
  <2> HIDE DEF Back
  <2> QED BY <2>1, <2>2
<1>3. ASSUME NEW m \in M PROVE m + 1 \in M
  <2> SUFFICES ASSUME m + 1 <= L PROVE Holds(m + 1)
    <3> HIDE DEF Holds
    <3> QED OBVIOUS
  <2>1. /\ m \in Nat /\ m + 1 \in 1..L /\ (m + 1) - 1 = m /\ m + 1 # 0 /\ m <= L
        /\ \A j \in 1..(m + 1) : j \in 1..m \/ j = m + 1
        /\ \A j \in 1..m : j \in 1..(m + 1) /\ j \in 1..L /\ j # m + 1
    OBVIOUS
  <2>2. Holds(m)
    <3> HIDE DEF Holds
    <3> QED BY <2>1
  <2>3. f[m + 1] = IF s[m + 1] \in S THEN Insert(f[m], s[m + 1], d) ELSE f[m]
    <3>1. f[m + 1] = BackBody(left, s, S, d, f, m + 1)
      BY <1>0, <1>1, <2>1
    <3> QED BY <2>1, <3>1 DEF BackBody
  <2>4. s[m + 1] \in Timers
    BY <1>0, <2>1, ElementOfSeq
  <2>5. CASE s[m + 1] \notin S
    <3>1. Back(m + 1) = Back(m)
      BY <2>1, <2>5
    <3> HIDE DEF Back
    <3> QED BY <2>2, <2>3, <2>5, <3>1
  <2>6. CASE s[m + 1] \in S
    <3>1. Back(m + 1) = Back(m) \cup {s[m + 1]}
      BY <2>1, <2>6
    <3>2. s[m + 1] \notin Back(m)
      BY <1>0, <2>1
    <3> HIDE DEF Back
    <3>3. s[m + 1] \notin Elems(f[m])
      BY <2>2, <3>2
    <3>4. /\ Insert(f[m], s[m + 1], d) \in Seq(Timers)
          /\ Sorted(Insert(f[m], s[m + 1], d), d)
          /\ Elems(Insert(f[m], s[m + 1], d)) = Elems(f[m]) \cup {s[m + 1]}
      BY <2>2, <2>4, <3>3, InsertSorts
    <3> QED BY <2>2, <2>3, <2>6, <3>1, <3>4
  <2> QED BY <2>5, <2>6
<1>4. Holds(L)
  <2>1. M = Nat
    <3> HIDE DEF Holds
    <3> QED BY <1>2, <1>3, InductionOnSet
  <2> HIDE DEF Holds
  <2> QED BY <2>1
<1>5. Back(L) = Elems(left) \cup (Elems(s) \cap S)
  BY <1>0 DEF Elems
<1> HIDE DEF Back
<1> QED BY <1>0, <1>1, <1>4, <1>5 DEF IsPutBack

-----------------------------------------------------------------------------
\* The invariant.  A timer is in the set exactly as long as it has a callback
\* and no addTimer is about to insert it; one that addTimer works on is known
\* to nobody else.

CallInv ==
    /\ \A p \in Threads :
          /\ pc[p] = "insert" => arg[p].adding
          /\ arg[p].adding => /\ pc[p] \in {"insert", "haslatest", "return"}
                              /\ arg[p].timer \in created
                              /\ arg[p].timer \notin known
          /\ pc[p] \in {"cancel", "refresh", "reset"} => arg[p].timer \in known
    /\ \A p, q \in Threads :
          p # q /\ arg[p].adding /\ arg[q].adding => arg[p].timer # arg[q].timer

SetInv ==
    /\ Sorted(order, next)
    /\ \A t \in Timers : t \in Elems(order) <=> hasCb[t] /\ t \notin Inserting
    /\ \A t \in Timers : hasCb[t] => t \in created
    /\ \A t \in Inserting : hasCb[t]

TimerInv == TypeOK /\ CallInv /\ SetInv

LEMMA InsertingIs ==
    \A t : t \in Inserting
           <=> \E p \in Threads : pc[p] = "insert" /\ arg[p].timer = t
BY DEF Inserting

LEMMA ArmedIs ==
    ASSUME order \in Seq(Timers)
    PROVE  /\ DOMAIN order = 1..Len(order)
           /\ \A t : Armed(t) <=> t \in Elems(order)
           /\ Elems(order) \subseteq Timers
           /\ order # <<>> => order[1] \in Elems(order)
<1>1. PICK L \in Nat : L = Len(order) /\ DOMAIN order = 1..L
  BY LenProperties
<1>2. \A i \in 1..L : order[i] \in Timers
  BY <1>1, ElementOfSeq
<1>3. order # <<>> => 1 \in 1..L
  BY <1>1, EmptySeq
<1> QED BY <1>1, <1>2, <1>3 DEF Armed, Elems

-----------------------------------------------------------------------------
\* What the operations do to the set.

LEMMA TypesOfNext ==
    ASSUME TypeOK
    PROVE  next \in [Timers -> Int] /\ 0..MaxNext \subseteq Int
BY TimerAssumption DEF TypeOK

LEMMA InsertTimerOrder ==
    ASSUME TimerInv, NEW p \in Threads, InsertTimer(p)
    PROVE  LET t == arg[p].timer IN
           /\ t \in Timers /\ t \in Inserting /\ t \notin Elems(order)
           /\ order' \in Seq(Timers) /\ Sorted(order', next)
           /\ Elems(order') = Elems(order) \cup {t} /\ Len(order') # 0
<1> DEFINE t == arg[p].timer
<1>1. pc[p] = "insert"
  BY DEF InsertTimer, At
<1>2. t \in Inserting
  BY <1>1, InsertingIs
<1>3. t \in created /\ created \subseteq Timers
  BY <1>1 DEF TimerInv, CallInv, TypeOK
<1>4. t \notin Elems(order)
  BY <1>2, <1>3 DEF TimerInv, SetInv
<1>5. order' = Insert(order, t, next)
  BY DEF InsertTimer, AddToSet
<1>6. order \in Seq(Timers) /\ Sorted(order, next) /\ next \in [Timers -> Int]
  BY TypesOfNext DEF TimerInv, SetInv, TypeOK
<1> HIDE DEF t
<1>7. /\ order' \in Seq(Timers) /\ Sorted(order', next)
      /\ Elems(order') = Elems(order) \cup {t} /\ Len(order') # 0
  BY <1>3, <1>4, <1>5, <1>6, InsertSorts
<1> QED BY <1>2, <1>3, <1>4, <1>7 DEF t

\* refresh and reset: the timer is erased, gets another deadline and comes
\* back, wherever that puts it.
LEMMA MovedOrder ==
    ASSUME TimerInv, NEW p \in Threads, NEW t \in Timers, Armed(t),
           NEW x \in 0..MaxNext, next' = [next EXCEPT ![t] = x],
           AddToSet(p, Erase(t), t, next')
    PROVE  /\ order' \in Seq(Timers) /\ Sorted(order', next')
           /\ Elems(order') = Elems(order) /\ Len(order') # 0
           /\ next' \in [Timers -> 0..MaxNext]
<1>1. /\ order \in Seq(Timers) /\ Sorted(order, next) /\ next \in [Timers -> Int]
      /\ next \in [Timers -> 0..MaxNext]
  BY TypesOfNext DEF TimerInv, SetInv, TypeOK
<1>2. next' \in [Timers -> 0..MaxNext]
  BY <1>1
<1>3. next' \in [Timers -> Int] /\ \A u \in Timers : u # t => next'[u] = next[u]
  BY <1>1, <1>2, TimerAssumption
<1>4. /\ Erase(t) \in Seq(Timers) /\ Sorted(Erase(t), next)
      /\ Elems(Erase(t)) = Elems(order) \ {t}
  BY <1>1, EraseSorts DEF Erase
<1>5. /\ \A u \in Elems(Erase(t)) : next[u] = next'[u]
      /\ t \in Elems(order)
  BY <1>1, <1>3, <1>4, ArmedIs
<1>6. Sorted(Erase(t), next')
  BY <1>4, <1>5, SortedStays
<1>7. order' = Insert(Erase(t), t, next')
  BY DEF AddToSet
<1> DEFINE s == Erase(t)
           d == next'
<1>8. s \in Seq(Timers) /\ Sorted(s, d) /\ t \notin Elems(s) /\ d \in [Timers -> Int]
  BY <1>3, <1>4, <1>6
<1>9. order' = Insert(s, t, d) /\ Elems(s) = Elems(order) \ {t}
  BY <1>4, <1>7
<1> HIDE DEF s, d
<1>10. /\ order' \in Seq(Timers) /\ Sorted(order', d)
       /\ Elems(order') = Elems(s) \cup {t} /\ Len(order') # 0
  BY <1>8, <1>9, InsertSorts
<1> QED BY <1>2, <1>5, <1>9, <1>10 DEF d

LEMMA CancelOrder ==
    ASSUME TimerInv, NEW p \in Threads, Cancel(p)
    PROVE  LET t == arg[p].timer IN
           /\ t \in Timers /\ t \in known
           /\ order' \in Seq(Timers) /\ Sorted(order', next)
           /\ Elems(order') = Elems(order) \ {t}
<1> DEFINE t == arg[p].timer
<1>1. t \in known /\ t \in Timers
  BY DEF Cancel, At, TimerInv, CallInv, TypeOK
<1>2. order' = RemoveFirst(order, t)
  BY DEF Cancel, Erase
<1>3. order \in Seq(Timers) /\ Sorted(order, next) /\ next \in [Timers -> Int]
  BY TypesOfNext DEF TimerInv, SetInv, TypeOK
<1> HIDE DEF t
<1>4. /\ order' \in Seq(Timers) /\ Sorted(order', next)
      /\ Elems(order') = Elems(order) \ {t}
  BY <1>2, <1>3, EraseSorts
<1> QED BY <1>1, <1>4 DEF t

\* Wherever the undefined increment of end() leads, it stays in the set.
LEMMA ExpirableIs ==
    ASSUME order \in Seq(Timers), NEW t \in Int
    PROVE  \A k \in Expirable(t) : k \in 0..Len(order)
<1>1. PICK L \in Nat : L = Len(order) /\ (order # <<>> => L > 0)
  BY LenProperties, EmptySeq
<1>2. ASSUME order # <<>>, NEW n \in 0..L
      PROVE  \A k \in Increment(n) : k \in 0..L
  <2>1. CASE n < L
    BY <1>1, <2>1 DEF Increment
  <2>2. CASE n = L
    <3>1. n >= 1 /\ (n = 1 \/ n >= 2)
      BY <1>1, <1>2, <2>2
    <3> QED BY <1>1, <2>2, <3>1 DEF Increment
  <2> QED BY <2>1, <2>2
<1>3. \A n \in UpperBound(t) : n \in 0..L
  BY <1>1 DEF UpperBound
<1>4. L \in 0..L /\ 0 \in 0..L
  BY <1>1
<1> DEFINE N == IF Rollover(t) THEN {Len(order)} ELSE UpperBound(t)
<1>5. \A n \in N : n \in 0..L
  BY <1>1, <1>3, <1>4
<1>6. ASSUME NEW k \in Expirable(t) PROVE k \in 0..L
  <2>1. k = 0 \/ (order # <<>> /\ k \in UNION {Increment(n) : n \in N})
    BY <1>6 DEF Expirable
  <2>2. k = 0 \/ (order # <<>> /\ \E n \in N : k \in Increment(n))
    <3> HIDE DEF N
    <3> QED BY <2>1
  <2> HIDE DEF N
  <2> QED BY <1>2, <1>4, <1>5, <2>2
<1> QED BY <1>1, <1>6

Taken(k) == {order[i] : i \in 1..k}

LEMMA ExpireOrder ==
    ASSUME TimerInv, NEW p \in Threads, NEW k \in 0..Len(order), Expire(p, k)
    PROVE  /\ Taken(k) \subseteq Elems(order)
           /\ order' \in Seq(Timers) /\ Sorted(order', next')
           /\ Elems(order') = Elems(order) \ {u \in Taken(k) : ~repeat[u]}
           /\ next' \in [Timers -> 0..MaxNext]
<1> DEFINE Out   == Taken(k)
           Again == {u \in Out : repeat[u]}
           later == [u \in Timers |-> IF u \in Again THEN seen[p] + ms[u] ELSE next[u]]
           left  == SubSeq(order, k + 1, Len(order))
           s     == SubSeq(order, 1, k)
<1>1. /\ order \in Seq(Timers) /\ Sorted(order, next) /\ next \in [Timers -> Int]
      /\ next \in [Timers -> 0..MaxNext]
  BY TypesOfNext DEF TimerInv, SetInv, TypeOK
<1>2. PICK L \in Nat : L = Len(order) /\ k \in 0..L
  BY <1>1, LenProperties
<1>3. \A i \in 1..L : order[i] \in Timers
  BY <1>1, <1>2, ElementOfSeq
<1>4. /\ \A u \in Out : later[u] <= MaxNext
      /\ next' = later /\ order' = PutBack(left, s, Again, later)
  BY DEF Expire, Taken
<1>5. \A i \in 1..k : i \in 1..L
  BY <1>2
<1>6. Out \subseteq Timers /\ Out \subseteq Elems(order)
  BY <1>2, <1>3, <1>5 DEF Taken, Elems
<1>7. ASSUME NEW u \in Timers PROVE seen[p] + ms[u] \in Nat
  <2>1. seen[p] \in 0..MaxTime /\ ms[u] \in Periods \cup {0}
    BY DEF TimerInv, TypeOK
  <2>2. seen[p] \in Nat
    BY <2>1, TimerAssumption
  <2>3. Periods \subseteq Nat
    BY TimerAssumption
  <2>4. ms[u] \in Nat
    <3>1. ms[u] \in Periods \/ ms[u] = 0
      BY <2>1
    <3>2. ms[u] \in Periods => ms[u] \in Nat
      BY <2>3
    <3> QED BY <3>1, <3>2
  <2> QED BY <2>2, <2>4
<1>8. later \in [Timers -> 0..MaxNext]
  <2>1. ASSUME NEW u \in Timers PROVE later[u] \in 0..MaxNext
    <3>1. CASE u \in Again
      <4>1. later[u] = seen[p] + ms[u] /\ later[u] <= MaxNext
        BY <1>4, <3>1
      <4> HIDE DEF later
      <4> QED BY <1>7, <4>1, TimerAssumption
    <3>2. CASE u \notin Again
      BY <1>1, <3>2
    <3> QED BY <3>1, <3>2
  <2> QED BY <2>1
<1>9. later \in [Timers -> Int]
  BY <1>8, TimerAssumption
<1>10. /\ left \in Seq(Timers) /\ Sorted(left, next)
       /\ Elems(left) = {order[i] : i \in (k + 1)..Len(order)}
  BY <1>1, RestSorts
<1>11. \A i, j \in 1..L : order[i] = order[j] => i = j
  <2>1. \A i, j \in 1..L : i < j => Before(order[i], order[j], next)
    BY <1>1, <1>2 DEF Sorted
  <2>2. \A i \in 1..L : ~Before(order[i], order[i], next)
    BY <1>1, <1>3, BeforeOrders
  <2>3. \A i, j \in 1..L : i < j \/ j < i \/ i = j
    OBVIOUS
  <2> QED BY <2>1, <2>2, <2>3
<1>12. /\ s \in Seq(Timers) /\ Len(s) = k
       /\ \A i \in 1..k : s[i] = order[i]
  <2>1. \A i \in 1..k : order[i] \in Timers
    BY <1>3, <1>5
  <2> QED BY <1>1, <1>2, <2>1, SubSeqProperties
<1>13. Elems(s) = Out
  <2> HIDE DEF s
  <2> QED BY <1>12 DEF Elems, Taken
<1>14. \A i \in (k + 1)..L : i \in 1..L /\ i \notin 1..k
  BY <1>2
<1>15. \A u \in Elems(left) : u \notin Out /\ u \in Timers
  <2> SUFFICES ASSUME NEW u \in Elems(left) PROVE u \notin Out /\ u \in Timers
    OBVIOUS
  <2>1. PICK i \in (k + 1)..L : u = order[i]
    BY <1>2, <1>10
  <2>2. ASSUME u \in Out PROVE FALSE
    <3>1. PICK j \in 1..k : u = order[j]
      BY <2>2 DEF Taken
    <3> QED BY <1>5, <1>11, <1>14, <2>1, <3>1
  <2> QED BY <1>3, <1>14, <2>1, <2>2
<1>16. \A u \in Elems(left) : next[u] = later[u]
  BY <1>15
<1> HIDE DEF left, s, later, Again, Out
<1>17. Sorted(left, later)
  BY <1>10, <1>16, SortedStays
<1>18. \A i \in 1..Len(s) : s[i] \notin Elems(left)
  <2>1. \A i \in 1..Len(s) : s[i] \in Elems(s)
    BY DEF Elems
  <2> QED BY <1>13, <1>15, <2>1
<1>19. \A i, j \in 1..Len(s) : s[i] = s[j] => i = j
  BY <1>5, <1>11, <1>12
<1>20. /\ order' \in Seq(Timers) /\ Sorted(order', later)
       /\ Elems(order') = Elems(left) \cup (Elems(s) \cap Again)
  <2> DEFINE r == PutBack(left, s, Again, later)
  <2>1. IsPutBack(left, s, Again, later, r)
    BY <1>9, <1>10, <1>12, <1>17, <1>18, <1>19, PutBackSorts
  <2> HIDE DEF r
  <2>4. order' = r
    BY <1>4 DEF r
  <2> QED BY <2>1, <2>4 DEF IsPutBack
<1>21. Elems(order) = Elems(left) \cup Out
  <2>1. Elems(left) \subseteq Elems(order)
    BY <1>2, <1>10, <1>14 DEF Elems
  <2>2. Elems(order) \subseteq Elems(left) \cup Out
    <3> SUFFICES ASSUME NEW i \in 1..L, order[i] \notin Out
                 PROVE  order[i] \in Elems(left)
      BY <1>2 DEF Elems
    <3>1. i \notin 1..k
      BY DEF Out, Taken
    <3>2. i \in (k + 1)..L
      BY <1>2, <3>1
    <3> QED BY <1>2, <1>10, <3>2
  <2> QED BY <1>6, <2>1, <2>2
<1>22. Elems(order') = Elems(order) \ {u \in Out : ~repeat[u]}
  BY <1>13, <1>15, <1>20, <1>21 DEF Again
<1> QED BY <1>4, <1>6, <1>8, <1>20, <1>22 DEF Out

LEMMA Numbers ==
    ASSUME TypeOK
    PROVE  /\ now \in Nat
           /\ \A t \in Timers : next[t] \in Nat /\ ms[t] \in Nat
           /\ \A p \in Threads : arg[p].ms \in Nat /\ seen[p] \in Nat
<1>1. MaxTime \in Nat /\ MaxNext \in Nat /\ Periods \subseteq Nat
  BY TimerAssumption
<1>2. now \in 0..MaxTime /\ next \in [Timers -> 0..MaxNext]
  BY DEF TypeOK
<1>3. ASSUME NEW m \in Periods \cup {0} PROVE m \in Nat
  <2>1. m \in Periods \/ m = 0
    OBVIOUS
  <2>2. m \in Periods => m \in Nat
    BY <1>1
  <2> QED BY <2>1, <2>2
<1>4. \A t \in Timers : ms[t] \in Periods \cup {0}
  BY DEF TypeOK
<1>5. \A p \in Threads : arg[p].ms \in Periods \cup {0}
  BY DEF TypeOK, Arg
<1>6. seen \in [Threads -> 0..MaxTime]
  BY DEF TypeOK
<1>7. now \in Nat /\ \A t \in Timers : next[t] \in Nat
  BY <1>1, <1>2
<1>8. \A p \in Threads : seen[p] \in Nat
  BY <1>1, <1>6
<1> QED BY <1>3, <1>4, <1>5, <1>7, <1>8

LEMMA RefreshOrder ==
    ASSUME TimerInv, NEW p \in Threads, Refresh(p)
    PROVE  /\ order' \in Seq(Timers) /\ Sorted(order', next')
           /\ Elems(order') = Elems(order) /\ Len(order') # 0
           /\ next' \in [Timers -> 0..MaxNext]
<1> DEFINE t == arg[p].timer
<1>1. t \in Timers /\ Armed(t)
  BY DEF Refresh, At, TimerInv, CallInv, TypeOK
<1>2. now \in Nat /\ ms[t] \in Nat
  BY <1>1, Numbers DEF TimerInv
<1>4. now + ms[t] \in 0..MaxNext
  <2>1. now + ms[t] <= MaxNext
    BY DEF Refresh
  <2> QED BY <1>2, <2>1, TimerAssumption
<1>5. next' = [next EXCEPT ![t] = now + ms[t]] /\ AddToSet(p, Erase(t), t, next')
  BY DEF Refresh
<1> HIDE DEF t
<1> QED BY <1>1, <1>4, <1>5, MovedOrder

LEMMA ResetOrder ==
    ASSUME TimerInv, NEW p \in Threads, Reset(p)
    PROVE  /\ order' \in Seq(Timers) /\ Sorted(order', next')
           /\ Elems(order') = Elems(order) /\ Len(order') # 0
           /\ next' \in [Timers -> 0..MaxNext]
           /\ ms' \in [Timers -> Periods \cup {0}]
<1> DEFINE t == arg[p].timer
           m == arg[p].ms
           from == IF arg[p].fromNow THEN now ELSE next[t]
<1>1. /\ t \in Timers /\ Armed(t)
      /\ m \in Periods \cup {0}
  <2>1. t \in Timers /\ Armed(t)
    BY DEF Reset, At, TimerInv, CallInv, TypeOK
  <2>2. m \in Periods \cup {0}
    BY DEF TimerInv, TypeOK, Arg
  <2> QED BY <2>1, <2>2
<1>2. from \in Nat
  <2>1. now \in Nat /\ next[t] \in Nat
    BY <1>1, Numbers DEF TimerInv
  <2> QED BY <2>1
<1>3. m \in Nat
  BY Numbers DEF TimerInv
<1>4. /\ next' = [next EXCEPT ![t] = from + m] /\ from + m <= MaxNext
      /\ ms' = [ms EXCEPT ![t] = m] /\ AddToSet(p, Erase(t), t, next')
  BY DEF Reset
<1> HIDE DEF t, m, from
<1>5. from + m \in 0..MaxNext
  BY <1>2, <1>3, <1>4, TimerAssumption
<1>6. ms' \in [Timers -> Periods \cup {0}]
  BY <1>1, <1>4 DEF TimerInv, TypeOK
<1>7. /\ order' \in Seq(Timers) /\ Sorted(order', next')
      /\ Elems(order') = Elems(order) /\ Len(order') # 0
      /\ next' \in [Timers -> 0..MaxNext]
  BY <1>1, <1>4, <1>5, MovedOrder
<1> QED BY <1>6, <1>7

-----------------------------------------------------------------------------
\* Every step keeps the types.

LEMMA TimeoutIsInt == ASSUME TypeOK PROVE Timeout \in Int
<1>1. ASSUME NEW d \in Int PROVE AsInt(d) \in Int
  <2>1. 2 * IntHalf \in Nat /\ 2 * IntHalf > 0 /\ IntHalf \in Int
    BY TimerAssumption
  <2>2. (d + IntHalf) % (2 * IntHalf) \in Int
    <3> DEFINE a == d + IntHalf
               b == 2 * IntHalf
    <3>1. a \in Int /\ b \in Int /\ b > 0
      BY <2>1
    <3> HIDE DEF a, b
    <3>2. a % b \in Int
      BY <3>1
    <3> QED BY <3>2 DEF a, b
  <2> QED BY <2>1, <2>2 DEF AsInt
<1>2. MaxTimeout \in Int
  BY TimerAssumption
<1>3. CASE order = <<>>
  BY <1>2, <1>3 DEF Timeout
<1>4. CASE order # <<>>
  <2> DEFINE first == next[order[1]]
             d     == IF first > now THEN first - now ELSE 0
  <2>1. order[1] \in Timers
    BY <1>4, ArmedIs DEF TypeOK
  <2>2. first \in Int /\ now \in Int
    BY <2>1, Numbers
  <2>3. d \in Int
    BY <2>2
  <2>4. Timeout = IF AsInt(d) > MaxTimeout THEN MaxTimeout ELSE AsInt(d)
    BY <1>4 DEF Timeout
  <2> HIDE DEF d
  <2> QED BY <1>1, <1>2, <2>3, <2>4
<1> QED BY <1>3, <1>4

LEMMA UseKeepsTypes ==
    ASSUME TimerInv, NEW p \in Threads, Use(p)
    PROVE  TypeOK'
<1>1. ASSUME NEW t \in Timers, NEW m \in Periods, NEW r \in BOOLEAN,
             AddTimer(p, t, m, r)
      PROVE  TypeOK'
  <2>1. now + m \in 0..MaxNext
    <3>1. now \in Nat /\ m \in Nat /\ now + m <= MaxNext
      BY <1>1, TimerAssumption DEF AddTimer, TimerInv, TypeOK
    <3> QED BY <3>1, TimerAssumption
  <2>2. [NoArg EXCEPT !.timer = t, !.adding = TRUE] \in Arg
    BY DEF Arg, NoArg
  <2> QED BY <1>1, <2>1, <2>2
      DEF AddTimer, TimerInv, TypeOK, Goto, Labels, IdleLabels, idleVars,
          efdVars, clockVars
<1>2. ASSUME InsertTimer(p) PROVE TypeOK'
  <2>1. order' \in Seq(Timers)
    BY <1>2, InsertTimerOrder
  <2> QED BY <1>2, <2>1
      DEF InsertTimer, AddToSet, TimerInv, TypeOK, Goto, Labels, IdleLabels,
          timerVars, callVars, idleVars, efdVars, clockVars
<1>3. ASSUME HasLatest(p) PROVE TypeOK'
  BY <1>3
  DEF HasLatest, Notify, TimerInv, TypeOK, Goto, Labels, IdleLabels, timerVars,
      managerVars, callVars, idleVars, efdVars, clockVars
<1>4. ASSUME ReturnTimer(p) PROVE TypeOK'
  <2>1. NoArg \in Arg
    BY DEF Arg, NoArg
  <2>2. arg[p].adding => arg[p].timer \in created
    BY DEF TimerInv, CallInv
  <2> QED BY <1>4, <2>1, <2>2
      DEF ReturnTimer, TimerInv, TypeOK, Goto, Labels, IdleLabels, timerVars,
          managerVars, idleVars, efdVars, clockVars
<1>5. ASSUME NEW t \in Timers, CallCancel(p, t) \/ CallRefresh(p, t)
      PROVE  TypeOK'
  <2>1. [NoArg EXCEPT !.timer = t] \in Arg
    BY DEF Arg, NoArg
  <2>2. /\ arg' = [arg EXCEPT ![p] = [NoArg EXCEPT !.timer = t]]
        /\ pc' = [pc EXCEPT ![p] = "cancel"] \/ pc' = [pc EXCEPT ![p] = "refresh"]
        /\ UNCHANGED <<managerVars, idleVars, efdVars, clockVars, created,
                       known, fired>>
    BY <1>5 DEF CallCancel, CallRefresh, Goto
  <2> QED BY <2>1, <2>2
      DEF TimerInv, TypeOK, Labels, IdleLabels, timerVars, managerVars,
          idleVars, efdVars, clockVars
<1>6. ASSUME NEW t \in Timers, NEW m \in Periods, NEW f \in BOOLEAN,
             CallReset(p, t, m, f)
      PROVE  TypeOK'
  <2>1. [timer |-> t, ms |-> m, fromNow |-> f, adding |-> FALSE] \in Arg
    BY DEF Arg
  <2> QED BY <1>6, <2>1
      DEF CallReset, TimerInv, TypeOK, Goto, Labels, IdleLabels, timerVars,
          managerVars, idleVars, efdVars, clockVars
<1>7. ASSUME Cancel(p) PROVE TypeOK'
  <2>1. order' \in Seq(Timers)
    BY <1>7, CancelOrder
  <2>2. NoArg \in Arg
    BY DEF Arg, NoArg
  <2> QED BY <1>7, <2>1, <2>2
      DEF Cancel, TimerInv, TypeOK, Goto, Labels, IdleLabels, idleVars, efdVars,
          clockVars
<1>8. ASSUME NotArmed(p) PROVE TypeOK'
  <2>1. NoArg \in Arg
    BY DEF Arg, NoArg
  <2> QED BY <1>8, <2>1
      DEF NotArmed, TimerInv, TypeOK, Goto, Labels, IdleLabels, timerVars,
          managerVars, idleVars, efdVars, clockVars
<1>9. ASSUME Refresh(p) PROVE TypeOK'
  <2>1. order' \in Seq(Timers) /\ next' \in [Timers -> 0..MaxNext]
    BY <1>9, RefreshOrder
  <2> QED BY <1>9, <2>1
      DEF Refresh, AddToSet, TimerInv, TypeOK, Goto, Labels, IdleLabels,
          callVars, idleVars, efdVars, clockVars
<1>10. ASSUME Reset(p) PROVE TypeOK'
  <2>1. /\ order' \in Seq(Timers) /\ next' \in [Timers -> 0..MaxNext]
        /\ ms' \in [Timers -> Periods \cup {0}]
    BY <1>10, ResetOrder
  <2> QED BY <1>10, <2>1
      DEF Reset, AddToSet, TimerInv, TypeOK, Goto, Labels, IdleLabels,
          callVars, idleVars, efdVars, clockVars
<1> QED BY <1>1, <1>2, <1>3, <1>4, <1>5, <1>6, <1>7, <1>8, <1>9, <1>10 DEF Use

LEMMA IdleKeepsTypes ==
    ASSUME TimerInv, NEW p \in Threads, Idle(p)
    PROVE  TypeOK'
<1> USE DEF TimerInv, TypeOK, Goto, Labels, IdleLabels, timerVars, managerVars,
            callVars, idleVars, efdVars, clockVars
<1>1. ASSUME GoIdle(p) PROVE TypeOK'
  BY <1>1 DEF GoIdle
<1>2. ASSUME ForgetNotify(p) PROVE TypeOK'
  BY <1>2 DEF ForgetNotify
<1>3. ASSUME ReadNext(p) PROVE TypeOK'
  <2>1. now \in Int
    BY TimerAssumption
  <2>2. (IF Timeout < 0 THEN Forever ELSE now + Timeout) \in Int \cup {Forever}
    BY <2>1, TimeoutIsInt
  <2> QED BY <1>3, <2>2 DEF ReadNext
<1>4. ASSUME EpollReturn(p) PROVE TypeOK'
  BY <1>4 DEF EpollReturn
<1>5. ASSUME ReadClock(p) PROVE TypeOK'
  BY <1>5 DEF ReadClock
<1>6. ASSUME ListExpired(p) PROVE TypeOK'
  <2>1. PICK k \in Expirable(seen[p]) : Expire(p, k)
    BY <1>6 DEF ListExpired
  <2>2. k \in 0..Len(order)
    BY <2>1, ExpirableIs, TimerAssumption
  <2>3. order' \in Seq(Timers) /\ next' \in [Timers -> 0..MaxNext]
    BY <2>1, <2>2, ExpireOrder
  <2>4. /\ fired' \in [Timers -> 0..2] /\ hasCb' \in [Timers -> BOOLEAN]
        /\ gotCbs' \in [Threads -> BOOLEAN]
        /\ seen' \in [Threads -> 0..MaxTime] /\ previous' \in 0..MaxTime
    <3>1. fired' \in [Timers -> 0..2]
      BY <2>1 DEF Expire
    <3>2. hasCb' \in [Timers -> BOOLEAN]
      BY <2>1 DEF Expire
    <3>3. gotCbs' \in [Threads -> BOOLEAN]
      BY <2>1 DEF Expire
    <3>4. seen' \in [Threads -> 0..MaxTime] /\ previous' \in 0..MaxTime
      BY <2>1, TimerAssumption DEF Expire
    <3> QED BY <3>1, <3>2, <3>3, <3>4
  <2> QED BY <1>6, <2>3, <2>4 DEF ListExpired
<1>7. ASSUME PushExpired(p) PROVE TypeOK'
  BY <1>7 DEF PushExpired, Notify
<1>8. ASSUME DrainEventfd(p) PROVE TypeOK'
  BY <1>8 DEF DrainEventfd
<1>9. ASSUME IdleYield(p) PROVE TypeOK'
  BY <1>9 DEF IdleYield
<1> QED BY <1>1, <1>2, <1>3, <1>4, <1>5, <1>6, <1>7, <1>8, <1>9 DEF Idle

-----------------------------------------------------------------------------
\* Every step keeps CallInv, and Inserting loses a timer where it is inserted.

LEMMA InsertingNext ==
    \A t : t \in Inserting'
           <=> \E p \in Threads : pc'[p] = "insert" /\ arg'[p].timer = t
BY DEF Inserting

AddLabels  == {"insert", "haslatest", "return"}
LockLabels == {"cancel", "refresh", "reset"}

\* A thread that adds no timer takes up a call that does not add one either,
\* or none.
LEMMA CallsGoOn ==
    ASSUME TimerInv, NEW p \in Threads, NEW l \in Labels, NEW a,
           pc[p] \notin {"insert"}, l # "insert",
           pc' = [pc EXCEPT ![p] = l], arg' = [arg EXCEPT ![p] = a],
           a.adding => l \in AddLabels /\ a = arg[p],
           l \in LockLabels => a.timer \in known,
           created' = created, known' = known
    PROVE  CallInv' /\ Inserting' = Inserting
<1>1. pc \in [Threads -> Labels] /\ arg \in [Threads -> Arg]
  BY DEF TimerInv, TypeOK
<1>2. /\ pc'[p] = l /\ arg'[p] = a
      /\ \A q \in Threads : q # p => pc'[q] = pc[q] /\ arg'[q] = arg[q]
  BY <1>1
<1>3. \A q \in Threads : arg'[q].adding => arg[q].adding /\ arg'[q] = arg[q]
  BY <1>2
<1>4. CallInv'
  BY <1>2, <1>3 DEF TimerInv, CallInv, AddLabels, LockLabels
<1>5. \A q \in Threads : pc'[q] = "insert" => q # p
  BY <1>2
<1>6. \A q \in Threads : pc[q] = "insert" => q # p
  OBVIOUS
<1>7. \A t : t \in Inserting' <=> t \in Inserting
  BY <1>2, <1>5, <1>6, InsertingIs, InsertingNext
<1> QED BY <1>4, <1>7

LEMMA NoArgIs ==
    /\ NoArg \in Arg /\ ~NoArg.adding
    /\ \A t \in Timers : /\ [NoArg EXCEPT !.timer = t].timer = t
                         /\ ~[NoArg EXCEPT !.timer = t].adding
                         /\ [NoArg EXCEPT !.timer = t, !.adding = TRUE].timer = t
                         /\ [NoArg EXCEPT !.timer = t, !.adding = TRUE].adding
BY DEF NoArg, Arg

LEMMA IdleKeepsCalls ==
    ASSUME TimerInv, NEW p \in Threads, Idle(p)
    PROVE  /\ CallInv' /\ Inserting' = Inserting
           /\ created' = created /\ known' = known
<1>1. created' = created /\ known' = known /\ arg' = arg
  BY DEF Idle, GoIdle, ForgetNotify, ReadNext, EpollReturn, ReadClock,
         ListExpired, PushExpired, DrainEventfd, IdleYield, callVars
<1>2. /\ pc[p] \in IdleLabels \cup {"work"}
      /\ \E l \in IdleLabels \cup {"work"} : pc' = [pc EXCEPT ![p] = l]
  <2> USE DEF At, Goto, IdleLabels
  <2>1. CASE DrainEventfd(p)
    <3>1. pc' = pc /\ pc[p] = "drain" /\ pc \in [Threads -> Labels]
      BY <2>1 DEF DrainEventfd, TimerInv, TypeOK
    <3>2. pc' = [pc EXCEPT ![p] = "drain"]
      BY <3>1
    <3> QED BY <3>1, <3>2
  <2>2. CASE GoIdle(p) \/ ForgetNotify(p) \/ ReadNext(p)
    BY <2>2 DEF GoIdle, ForgetNotify, ReadNext
  <2>3. CASE EpollReturn(p) \/ ReadClock(p) \/ ListExpired(p)
    BY <2>3 DEF EpollReturn, ReadClock, ListExpired
  <2>4. CASE PushExpired(p) \/ IdleYield(p)
    BY <2>4 DEF PushExpired, IdleYield
  <2> QED BY <2>1, <2>2, <2>3, <2>4 DEF Idle
<1>3. PICK l \in IdleLabels \cup {"work"} : pc' = [pc EXCEPT ![p] = l]
  BY <1>2
<1>4. /\ l \in Labels /\ l # "insert" /\ pc[p] # "insert" /\ l \notin LockLabels
      /\ ~arg[p].adding
  BY <1>2 DEF IdleLabels, Labels, LockLabels, TimerInv, CallInv
<1>5. arg' = [arg EXCEPT ![p] = arg[p]]
  BY <1>1 DEF TimerInv, TypeOK
<1> DEFINE a == arg[p]
<1>6. ~a.adding /\ arg' = [arg EXCEPT ![p] = a]
  BY <1>4, <1>5
<1> HIDE DEF a
<1>7. CallInv' /\ Inserting' = Inserting
  BY <1>1, <1>3, <1>4, <1>6, CallsGoOn
<1> QED BY <1>1, <1>7

LEMMA AddTimerKeepsCalls ==
    ASSUME TimerInv, NEW p \in Threads, NEW t \in Timers, NEW m \in Periods,
           NEW r \in BOOLEAN, AddTimer(p, t, m, r)
    PROVE  CallInv' /\ Inserting' = Inserting \cup {t}
<1> DEFINE a == [NoArg EXCEPT !.timer = t, !.adding = TRUE]
<1>1. /\ pc \in [Threads -> Labels] /\ arg \in [Threads -> Arg]
      /\ created' = created \cup {t} /\ known' = known /\ t \notin created
      /\ pc[p] = "work" /\ known \subseteq created
  BY DEF TimerInv, TypeOK, AddTimer, At
<1>2. /\ pc'[p] = "insert" /\ arg'[p] = a
      /\ \A q \in Threads : q # p => pc'[q] = pc[q] /\ arg'[q] = arg[q]
  BY <1>1 DEF AddTimer, Goto
<1>3. a.timer = t /\ a.adding
  BY NoArgIs
<1> HIDE DEF a
<1>4. \A q \in Threads : arg[q].adding => q # p /\ arg[q].timer # t
  BY <1>1 DEF TimerInv, CallInv
<1>5. CallInv'
  <2>1. ASSUME NEW q \in Threads
        PROVE  /\ pc'[q] = "insert" => arg'[q].adding
               /\ arg'[q].adding => /\ pc'[q] \in {"insert", "haslatest", "return"}
                                    /\ arg'[q].timer \in created'
                                    /\ arg'[q].timer \notin known'
               /\ pc'[q] \in {"cancel", "refresh", "reset"} => arg'[q].timer \in known'
    <3>1. CASE q = p
      BY <1>1, <1>2, <1>3, <3>1
    <3>2. CASE q # p
      BY <1>1, <1>2, <3>2 DEF TimerInv, CallInv
    <3> QED BY <3>1, <3>2
  <2>2. \A q, s \in Threads :
            q # s /\ arg'[q].adding /\ arg'[s].adding => arg'[q].timer # arg'[s].timer
    BY <1>2, <1>3, <1>4 DEF TimerInv, CallInv
  <2> QED BY <2>1, <2>2 DEF CallInv
<1>6. \A u : u \in Inserting' <=> u \in Inserting \/ u = t
  BY <1>1, <1>2, <1>3, InsertingIs, InsertingNext
<1> QED BY <1>5, <1>6

LEMMA InsertTimerKeepsCalls ==
    ASSUME TimerInv, NEW p \in Threads, InsertTimer(p)
    PROVE  CallInv' /\ Inserting' = Inserting \ {arg[p].timer}
<1>1. /\ pc \in [Threads -> Labels] /\ arg' = arg
      /\ created' = created /\ known' = known /\ pc[p] = "insert"
  BY DEF TimerInv, TypeOK, InsertTimer, At, callVars
<1>2. /\ pc'[p] \in {"haslatest", "return"}
      /\ \A q \in Threads : q # p => pc'[q] = pc[q]
  BY <1>1 DEF InsertTimer, AddToSet, Goto
<1>3. arg[p].adding
  BY <1>1 DEF TimerInv, CallInv
<1>4. CallInv'
  <2>1. ASSUME NEW q \in Threads
        PROVE  /\ pc'[q] = "insert" => arg'[q].adding
               /\ arg'[q].adding => /\ pc'[q] \in {"insert", "haslatest", "return"}
                                    /\ arg'[q].timer \in created'
                                    /\ arg'[q].timer \notin known'
               /\ pc'[q] \in {"cancel", "refresh", "reset"} => arg'[q].timer \in known'
    <3>1. CASE q = p
      BY <1>1, <1>2, <1>3, <3>1 DEF TimerInv, CallInv
    <3>2. CASE q # p
      BY <1>1, <1>2, <3>2 DEF TimerInv, CallInv
    <3> QED BY <3>1, <3>2
  <2>2. \A q, s \in Threads :
            q # s /\ arg'[q].adding /\ arg'[s].adding => arg'[q].timer # arg'[s].timer
    BY <1>1 DEF TimerInv, CallInv
  <2> QED BY <2>1, <2>2 DEF CallInv
<1>5. \A q \in Threads : q # p /\ pc[q] = "insert" => arg[q].timer # arg[p].timer
  BY <1>3 DEF TimerInv, CallInv
<1>6. \A u : u \in Inserting' <=> u \in Inserting /\ u # arg[p].timer
  BY <1>1, <1>2, <1>5, InsertingIs, InsertingNext
<1> QED BY <1>4, <1>6

LEMMA ReturnKeepsCalls ==
    ASSUME TimerInv, NEW p \in Threads, ReturnTimer(p)
    PROVE  CallInv' /\ Inserting' = Inserting
<1>1. /\ pc \in [Threads -> Labels] /\ arg \in [Threads -> Arg]
      /\ created' = created /\ pc[p] = "return"
      /\ known' = IF arg[p].adding THEN known \cup {arg[p].timer} ELSE known
  BY DEF TimerInv, TypeOK, ReturnTimer, At
<1>2. /\ pc'[p] = "work" /\ arg'[p] = NoArg
      /\ \A q \in Threads : q # p => pc'[q] = pc[q] /\ arg'[q] = arg[q]
  BY <1>1 DEF ReturnTimer, Goto
<1>3. ~NoArg.adding
  BY NoArgIs
<1>4. CallInv'
  <2>1. ASSUME NEW q \in Threads
        PROVE  /\ pc'[q] = "insert" => arg'[q].adding
               /\ arg'[q].adding => /\ pc'[q] \in {"insert", "haslatest", "return"}
                                    /\ arg'[q].timer \in created'
                                    /\ arg'[q].timer \notin known'
               /\ pc'[q] \in {"cancel", "refresh", "reset"} => arg'[q].timer \in known'
    <3>1. CASE q = p
      BY <1>2, <1>3, <3>1
    <3>2. CASE q # p
      BY <1>1, <1>2, <3>2 DEF TimerInv, CallInv
    <3> QED BY <3>1, <3>2
  <2>2. \A q, s \in Threads :
            q # s /\ arg'[q].adding /\ arg'[s].adding => arg'[q].timer # arg'[s].timer
    BY <1>2, <1>3 DEF TimerInv, CallInv
  <2> QED BY <2>1, <2>2 DEF CallInv
<1>5. \A u : u \in Inserting' <=> u \in Inserting
  BY <1>1, <1>2, InsertingIs, InsertingNext
<1> QED BY <1>4, <1>5

\* The calls that are neither addTimer nor a return.
Others(p) ==
    \/ HasLatest(p) \/ Cancel(p) \/ NotArmed(p) \/ Refresh(p) \/ Reset(p)
    \/ \E t \in Timers : CallCancel(p, t) \/ CallRefresh(p, t)
    \/ \E t \in Timers, m \in Periods, f \in BOOLEAN : CallReset(p, t, m, f)

LEMMA OthersKeepCalls ==
    ASSUME TimerInv, NEW p \in Threads, Others(p)
    PROVE  /\ CallInv' /\ Inserting' = Inserting
           /\ created' = created /\ known' = known
<1>1. created' = created /\ known' = known
  BY DEF Others, HasLatest, Cancel, NotArmed, Refresh, Reset, CallCancel,
         CallRefresh, CallReset, callVars
<1>2. arg = [arg EXCEPT ![p] = arg[p]]
  BY DEF TimerInv, TypeOK
<1> DEFINE Moves(l, a) ==
              /\ pc[p] # "insert" /\ l # "insert"
              /\ pc' = [pc EXCEPT ![p] = l] /\ arg' = [arg EXCEPT ![p] = a]
              /\ a.adding => l \in AddLabels /\ a = arg[p]
              /\ l \in LockLabels => a.timer \in known
<1>3. \E l \in Labels : \E a \in {arg[p], arg'[p]} : Moves(l, a)
  <2> USE DEF At, Goto, Labels, AddLabels, LockLabels
  <2>1. CASE HasLatest(p)
    <3>1. pc' = [pc EXCEPT ![p] = "return"] /\ arg' = arg /\ pc[p] = "haslatest"
      BY <2>1 DEF HasLatest, callVars
    <3>2. Moves("return", arg[p])
      BY <1>2, <3>1
    <3>3. "return" \in Labels
      OBVIOUS
    <3> HIDE DEF Moves
    <3> QED BY <3>2, <3>3
  <2>2. CASE Cancel(p) \/ NotArmed(p)
    <3>1. /\ pc' = [pc EXCEPT ![p] = "work"] /\ arg' = [arg EXCEPT ![p] = NoArg]
          /\ pc[p] # "insert"
      BY <2>2 DEF Cancel, NotArmed
    <3>2. arg'[p] = NoArg
      BY <3>1 DEF TimerInv, TypeOK
    <3>3. Moves("work", NoArg)
      BY <3>1, NoArgIs
    <3>4. "work" \in Labels
      OBVIOUS
    <3> HIDE DEF Moves
    <3> QED BY <3>2, <3>3, <3>4
  <2>3. CASE Refresh(p) \/ Reset(p)
    <3>1. /\ pc' = [pc EXCEPT ![p] = "haslatest"] \/ pc' = [pc EXCEPT ![p] = "return"]
          /\ arg' = arg /\ pc[p] # "insert"
      BY <2>3 DEF Refresh, Reset, AddToSet, callVars
    <3> QED BY <1>2, <3>1
  <2>4. ASSUME NEW t \in Timers, CallCancel(p, t) \/ CallRefresh(p, t)
        PROVE  \E l \in Labels : \E a \in {arg[p], arg'[p]} : Moves(l, a)
    <3> DEFINE a == [NoArg EXCEPT !.timer = t]
    <3>1. /\ pc' = [pc EXCEPT ![p] = "cancel"] \/ pc' = [pc EXCEPT ![p] = "refresh"]
          /\ arg' = [arg EXCEPT ![p] = a] /\ pc[p] # "insert" /\ t \in known
      BY <2>4 DEF CallCancel, CallRefresh
    <3>2. a.timer = t /\ ~a.adding
      BY NoArgIs
    <3> HIDE DEF a
    <3>3. arg'[p] = a
      BY <3>1 DEF TimerInv, TypeOK
    <3> QED BY <3>1, <3>2, <3>3
  <2>5. ASSUME NEW t \in Timers, NEW m \in Periods, NEW f \in BOOLEAN,
               CallReset(p, t, m, f)
        PROVE  \E l \in Labels : \E a \in {arg[p], arg'[p]} : Moves(l, a)
    <3> DEFINE a == [timer |-> t, ms |-> m, fromNow |-> f, adding |-> FALSE]
    <3>1. /\ pc' = [pc EXCEPT ![p] = "reset"]
          /\ arg' = [arg EXCEPT ![p] = a] /\ pc[p] # "insert" /\ t \in known
      BY <2>5 DEF CallReset
    <3>2. a.timer = t /\ ~a.adding
      OBVIOUS
    <3> HIDE DEF a
    <3>3. arg'[p] = a
      BY <3>1 DEF TimerInv, TypeOK
    <3> QED BY <3>1, <3>2, <3>3
  <2> QED BY <2>1, <2>2, <2>3, <2>4, <2>5 DEF Others
<1>4. CallInv' /\ Inserting' = Inserting
  <2>1. PICK l \in Labels : \E a \in {arg[p], arg'[p]} : Moves(l, a)
    BY <1>3
  <2>2. PICK a \in {arg[p], arg'[p]} : Moves(l, a)
    BY <2>1
  <2> QED BY <1>1, <2>2, CallsGoOn
<1> QED BY <1>1, <1>4

-----------------------------------------------------------------------------
\* Every step keeps the set exact.

LEMMA SetStays ==
    ASSUME SetInv, order' = order, next' = next, hasCb' = hasCb,
           created' = created, Inserting' = Inserting
    PROVE  SetInv'
BY DEF SetInv, Sorted, Elems, Before

\* The steps of an idle thread but the one that takes out the expired.
LEMMA IdleStays ==
    ASSUME NEW p \in Threads, Idle(p), ~ListExpired(p)
    PROVE  /\ order' = order /\ next' = next /\ hasCb' = hasCb
           /\ fired' = fired
BY DEF Idle, GoIdle, ForgetNotify, ReadNext, EpollReturn, ReadClock,
       PushExpired, DrainEventfd, IdleYield, managerVars, timerVars

LEMMA ListExpiredIs ==
    ASSUME TimerInv, NEW p \in Threads, ListExpired(p)
    PROVE  \E k \in 0..Len(order) : Expire(p, k)
<1>1. PICK k \in Expirable(seen[p]) : Expire(p, k)
  BY DEF ListExpired
<1>2. order \in Seq(Timers) /\ seen[p] \in Int
  BY Numbers DEF TimerInv, TypeOK
<1> QED BY <1>1, <1>2, ExpirableIs

LEMMA IdleKeepsSet ==
    ASSUME TimerInv, NEW p \in Threads, Idle(p)
    PROVE  SetInv'
<1>1. Inserting' = Inserting /\ created' = created
  BY IdleKeepsCalls
<1>2. CASE ~ListExpired(p)
  BY <1>1, <1>2, IdleStays, SetStays DEF TimerInv
<1>3. CASE ListExpired(p)
  <2>1. PICK k \in 0..Len(order) : Expire(p, k)
    BY <1>3, ListExpiredIs
  <2>2. /\ Taken(k) \subseteq Elems(order) /\ Sorted(order', next')
        /\ Elems(order') = Elems(order) \ {u \in Taken(k) : ~repeat[u]}
    BY <2>1, ExpireOrder
  <2>3. \A u \in Timers : hasCb'[u] <=> hasCb[u] /\ (u \in Taken(k) => repeat[u])
    BY <2>1 DEF Expire, Taken
  <2>4. \A u \in Inserting : hasCb'[u]
    <3> SUFFICES ASSUME NEW u \in Inserting PROVE hasCb'[u]
      OBVIOUS
    <3>1. u \in Timers
      <4>1. PICK q \in Threads : pc[q] = "insert" /\ arg[q].timer = u
        BY InsertingIs
      <4> QED BY <4>1 DEF TimerInv, CallInv, TypeOK
    <3>2. u \notin Taken(k)
      BY <2>2, <3>1 DEF TimerInv, SetInv
    <3> QED BY <2>3, <3>1, <3>2 DEF TimerInv, SetInv
  <2>5. \A u \in Timers : u \in Elems(order') <=> hasCb'[u] /\ u \notin Inserting
    BY <2>2, <2>3 DEF TimerInv, SetInv
  <2>6. \A u \in Timers : hasCb'[u] => u \in created
    BY <2>3 DEF TimerInv, SetInv
  <2> QED BY <1>1, <2>2, <2>4, <2>5, <2>6 DEF SetInv
<1> QED BY <1>2, <1>3

LEMMA InsertingAre ==
    ASSUME TimerInv
    PROVE  \A t \in Inserting : t \in Timers /\ t \in created /\ t \notin known
<1> SUFFICES ASSUME NEW t \in Inserting
             PROVE  t \in Timers /\ t \in created /\ t \notin known
  OBVIOUS
<1>1. PICK q \in Threads : pc[q] = "insert" /\ arg[q].timer = t
  BY InsertingIs
<1> QED BY <1>1 DEF TimerInv, CallInv, TypeOK

LEMMA UseKeepsSet ==
    ASSUME TimerInv, NEW p \in Threads, Use(p)
    PROVE  CallInv' /\ SetInv'
<1>1. ASSUME NEW t \in Timers, NEW m \in Periods, NEW r \in BOOLEAN,
             AddTimer(p, t, m, r)
      PROVE  CallInv' /\ SetInv'
  <2>1. CallInv' /\ Inserting' = Inserting \cup {t}
    BY <1>1, AddTimerKeepsCalls
  <2>2. /\ order' = order /\ created' = created \cup {t} /\ t \notin created
        /\ \A u \in Timers : u # t => next'[u] = next[u] /\ hasCb'[u] = hasCb[u]
        /\ hasCb'[t]
    BY <1>1 DEF AddTimer, TimerInv, TypeOK
  <2>3. t \notin Elems(order) /\ Elems(order) \subseteq Timers
    BY <2>2, ArmedIs DEF TimerInv, SetInv, TypeOK
  <2>4. Sorted(order, next')
    <3>1. \A u \in Elems(order) : next[u] = next'[u]
      BY <2>2, <2>3
    <3> QED BY <3>1, SortedStays DEF TimerInv, SetInv, TypeOK
  <2>5. \A u \in Timers : u \in Elems(order) <=> hasCb'[u] /\ u \notin Inserting'
    BY <2>1, <2>2, <2>3 DEF TimerInv, SetInv
  <2>6. /\ \A u \in Timers : hasCb'[u] => u \in created'
        /\ \A u \in Inserting' : hasCb'[u]
    BY <2>1, <2>2, InsertingAre DEF TimerInv, SetInv
  <2> QED BY <2>1, <2>2, <2>4, <2>5, <2>6 DEF SetInv
<1>2. ASSUME InsertTimer(p) PROVE CallInv' /\ SetInv'
  <2> DEFINE t == arg[p].timer
  <2>1. /\ t \in Timers /\ t \in Inserting /\ Sorted(order', next)
        /\ Elems(order') = Elems(order) \cup {t}
    BY <1>2, InsertTimerOrder
  <2>2. CallInv' /\ Inserting' = Inserting \ {t}
    BY <1>2, InsertTimerKeepsCalls
  <2>3. next' = next /\ hasCb' = hasCb /\ created' = created
    BY <1>2 DEF InsertTimer, timerVars, callVars
  <2> HIDE DEF t
  <2>4. \A u \in Timers : u \in Elems(order') <=> hasCb[u] /\ u \notin Inserting'
    BY <2>1, <2>2 DEF TimerInv, SetInv
  <2> QED BY <2>1, <2>2, <2>3, <2>4 DEF TimerInv, SetInv
<1>3. ASSUME ReturnTimer(p) PROVE CallInv' /\ SetInv'
  <2>1. CallInv' /\ Inserting' = Inserting
    BY <1>3, ReturnKeepsCalls
  <2>2. order' = order /\ next' = next /\ hasCb' = hasCb /\ created' = created
    BY <1>3 DEF ReturnTimer, managerVars, timerVars
  <2> QED BY <2>1, <2>2, SetStays DEF TimerInv
<1>4. ASSUME Others(p) PROVE CallInv' /\ SetInv'
  <2>1. CallInv' /\ Inserting' = Inserting /\ created' = created
    BY <1>4, OthersKeepCalls
  <2>2. CASE Cancel(p)
    <3> DEFINE t == arg[p].timer
    <3>1. /\ t \in Timers /\ t \in known /\ Sorted(order', next)
          /\ Elems(order') = Elems(order) \ {t}
      BY <2>2, CancelOrder
    <3>2. hasCb' = [hasCb EXCEPT ![t] = FALSE] /\ next' = next
      BY <2>2 DEF Cancel
    <3> HIDE DEF t
    <3>3. /\ ~hasCb'[t] /\ t \notin Inserting
          /\ \A u \in Timers : u # t => hasCb'[u] = hasCb[u]
      BY <3>1, <3>2, InsertingAre DEF TimerInv, TypeOK
    <3>4. \A u \in Timers : u \in Elems(order') <=> hasCb'[u] /\ u \notin Inserting
      BY <3>1, <3>3 DEF TimerInv, SetInv
    <3>5. /\ \A u \in Timers : hasCb'[u] => u \in created
          /\ \A u \in Inserting : hasCb'[u]
      BY <3>3, InsertingAre DEF TimerInv, SetInv
    <3> QED BY <2>1, <3>1, <3>2, <3>4, <3>5 DEF SetInv
  <2>3. CASE Refresh(p) \/ Reset(p)
    <3>1. Sorted(order', next') /\ Elems(order') = Elems(order)
      BY <2>3, RefreshOrder, ResetOrder
    <3>2. hasCb' = hasCb
      BY <2>3 DEF Refresh, Reset
    <3> QED BY <2>1, <3>1, <3>2 DEF TimerInv, SetInv
  <2>4. CASE ~Cancel(p) /\ ~Refresh(p) /\ ~Reset(p)
    <3>1. order' = order /\ next' = next /\ hasCb' = hasCb
      BY <1>4, <2>4 DEF Others, HasLatest, NotArmed, CallCancel, CallRefresh,
                        CallReset, managerVars, timerVars
    <3> QED BY <2>1, <3>1, SetStays DEF TimerInv
  <2> QED BY <2>2, <2>3, <2>4
<1> QED BY <1>1, <1>2, <1>3, <1>4 DEF Use, Others

-----------------------------------------------------------------------------
\* The invariant.

LEMMA TimerInvStart == Init => TimerInv
<1> SUFFICES ASSUME Init PROVE TimerInv
  OBVIOUS
<1>1. TypeOK
  <2>1. /\ 0 \in 0..MaxNext /\ Start \in 0..MaxTime /\ 0 \in 0..MaxSetBacks
        /\ 0 \in 0..MaxTime
    BY TimerAssumption
  <2>2. NoArg \in Arg
    BY NoArgIs
  <2>3. order \in Seq(Timers)
    BY DEF Init
  <2>4. /\ next \in [Timers -> 0..MaxNext] /\ ms \in [Timers -> Periods \cup {0}]
        /\ repeat \in [Timers -> BOOLEAN] /\ hasCb \in [Timers -> BOOLEAN]
        /\ fired \in [Timers -> 0..2]
    BY <2>1 DEF Init
  <2>5. /\ pc \in [Threads -> Labels] /\ arg \in [Threads -> Arg]
        /\ wake \in [Threads -> Int \cup {Forever}]
    BY <2>2 DEF Init, Labels
  <2>6. /\ gotEfd \in [Threads -> BOOLEAN] /\ gotCbs \in [Threads -> BOOLEAN]
        /\ seen \in [Threads -> 0..MaxTime]
    BY <2>1 DEF Init
  <2>7. /\ now \in 0..MaxTime /\ setBacks \in 0..MaxSetBacks
        /\ previous \in 0..MaxTime /\ notify \in BOOLEAN
        /\ created \subseteq Timers /\ known \subseteq created
        /\ ready \in BOOLEAN /\ efdCnt \in BOOLEAN
    BY <2>1 DEF Init
  <2> QED BY <2>3, <2>4, <2>5, <2>6, <2>7 DEF TypeOK
<1>2. CallInv
  BY NoArgIs DEF Init, CallInv
<1>3. Inserting = {} /\ Elems(order) = {} /\ Len(order) = 0
  BY DEF Init, Inserting, Elems
<1>4. SetInv
  BY <1>3 DEF Init, SetInv, Sorted
<1> QED BY <1>1, <1>2, <1>4 DEF TimerInv

LEMMA TimerInvStep == TimerInv /\ [Next]_vars => TimerInv'
<1> SUFFICES ASSUME TimerInv, [Next]_vars PROVE TimerInv'
  OBVIOUS
<1>1. ASSUME NEW p \in Users, Use(p) PROVE TimerInv'
  BY <1>1, UseKeepsTypes, UseKeepsSet DEF TimerInv, Threads
<1>2. ASSUME NEW p \in Runners, Idle(p) PROVE TimerInv'
  BY <1>2, IdleKeepsTypes, IdleKeepsCalls, IdleKeepsSet DEF TimerInv, Threads
<1>3. CASE Tick \/ SetClockBack
  <2>1. /\ managerVars' = managerVars /\ callVars' = callVars
        /\ efdVars' = efdVars /\ pc' = pc /\ gotEfd' = gotEfd
        /\ gotCbs' = gotCbs /\ seen' = seen /\ fired' = fired
    BY <1>3 DEF Tick, SetClockBack, idleVars
  <2>2. now' \in 0..MaxTime /\ setBacks' \in 0..MaxSetBacks
    <3>1. MaxTime \in Nat /\ MaxSetBacks \in Nat
      BY TimerAssumption
    <3>2. now \in 0..MaxTime /\ setBacks \in 0..MaxSetBacks
      BY DEF TimerInv, TypeOK
    <3>3. CASE Tick
      BY <3>1, <3>2, <3>3 DEF Tick, clockVars
    <3>4. CASE SetClockBack
      BY <3>1, <3>2, <3>4 DEF SetClockBack
    <3> QED BY <1>3, <3>3, <3>4
  <2>3. wake' \in [Threads -> Int \cup {Forever}]
    <3>1. CASE Tick
      BY <3>1 DEF Tick, idleVars, TimerInv, TypeOK
    <3>2. CASE SetClockBack
      <4>1. PICK lag \in 1..now : wake' = [p \in Threads |->
                IF wake[p] = Forever THEN Forever ELSE wake[p] - lag]
        BY <3>2 DEF SetClockBack
      <4>2. now \in Nat
        BY Numbers DEF TimerInv
      <4> QED BY <4>1, <4>2 DEF TimerInv, TypeOK
    <3> QED BY <1>3, <3>1, <3>2
  <2>4. TypeOK'
    BY <2>1, <2>2, <2>3
    DEF TimerInv, TypeOK, managerVars, timerVars, callVars, efdVars
  <2>5. CallInv' /\ Inserting' = Inserting
    BY <2>1 DEF TimerInv, CallInv, Inserting, callVars
  <2>6. SetInv'
    BY <2>1, <2>5, SetStays DEF TimerInv, managerVars, timerVars, callVars
  <2> QED BY <2>4, <2>5, <2>6 DEF TimerInv
<1>4. CASE UNCHANGED vars
  <2>1. TypeOK'
    BY <1>4 DEF TimerInv, TypeOK, vars, managerVars, timerVars, callVars,
                idleVars, efdVars, clockVars
  <2>2. CallInv' /\ Inserting' = Inserting
    BY <1>4 DEF TimerInv, CallInv, Inserting, vars, callVars
  <2>3. SetInv'
    BY <1>4, <2>2, SetStays DEF TimerInv, vars, managerVars, timerVars, callVars
  <2> QED BY <2>1, <2>2, <2>3 DEF TimerInv
<1> QED BY <1>1, <1>2, <1>3, <1>4 DEF Next

LEMMA TimerInvariant == Spec => []TimerInv
BY TimerInvStart, TimerInvStep, PTL DEF Spec

\* Whatever refresh, reset, cancel and the expiry of the timers race with, the
\* set of timers (m_timers, Timer.h) is in its order and holds exactly the
\* timers that can still fire (Timer.cc:27-95, 122-158).
THEOREM TimersAreExact == Spec => []TimersExact
<1>1. TimerInv => TimersExact
  <2> SUFFICES ASSUME TimerInv PROVE TimersExact
    OBVIOUS
  <2>1. DOMAIN order = 1..Len(order) /\ \A t : Armed(t) <=> t \in Elems(order)
    BY ArmedIs DEF TimerInv, TypeOK
  <2>2. created \subseteq Timers
    BY DEF TimerInv, TypeOK
  <2> QED BY <2>1, <2>2 DEF TimersExact, SetIsExact, TimerInv, SetInv, Sorted
<1> QED BY <1>1, TimerInvariant, PTL

-----------------------------------------------------------------------------
\* A callback that has been handed over and does not repeat has left its timer
\* for good: refresh and reset never bring such a timer back.

FiredInv == \A t \in Timers : fired[t] # 0 =>
                fired[t] = 1 /\ ~hasCb[t] /\ t \in created

LEMMA FiredStep == TimerInv /\ FiredInv /\ [Next]_vars => FiredInv'
<1> SUFFICES ASSUME TimerInv, FiredInv, [Next]_vars PROVE FiredInv'
  OBVIOUS
<1>1. ASSUME NEW p \in Users, Use(p) PROVE FiredInv'
  <2>1. ASSUME NEW t \in Timers, NEW m \in Periods, NEW r \in BOOLEAN,
               AddTimer(p, t, m, r)
        PROVE  FiredInv'
    <3>1. /\ fired' = fired /\ created' = created \cup {t} /\ t \notin created
          /\ \A u \in Timers : u # t => hasCb'[u] = hasCb[u]
      BY <2>1 DEF AddTimer, TimerInv, TypeOK
    <3> QED BY <3>1 DEF FiredInv
  <2>2. CASE Cancel(p)
    <3>1. /\ fired' = fired /\ created' = created
          /\ \A u \in Timers : hasCb'[u] => hasCb[u]
      BY <2>2 DEF Cancel, TimerInv, TypeOK
    <3> QED BY <3>1 DEF FiredInv
  <2>3. ASSUME ~Cancel(p),
               ~\E t \in Timers, m \in Periods, r \in BOOLEAN : AddTimer(p, t, m, r)
        PROVE  FiredInv'
    <3>1. fired' = fired /\ created' = created /\ hasCb' = hasCb
      BY <1>1, <2>3
      DEF Use, CallCancel, CallRefresh, CallReset, InsertTimer, HasLatest,
          ReturnTimer, NotArmed, Refresh, Reset, managerVars, timerVars,
          callVars
    <3> QED BY <3>1 DEF FiredInv
  <2> QED BY <2>1, <2>2, <2>3
<1>2. ASSUME NEW p \in Runners, Idle(p) PROVE FiredInv'
  <2>1. p \in Threads
    BY DEF Threads
  <2>2. created' = created
    BY <1>2, <2>1, IdleKeepsCalls
  <2>3. CASE ~ListExpired(p)
    BY <1>2, <2>1, <2>2, <2>3, IdleStays DEF FiredInv
  <2>4. CASE ListExpired(p)
    <3>1. PICK k \in 0..Len(order) : Expire(p, k)
      BY <2>1, <2>4, ListExpiredIs
    <3>2. Taken(k) \subseteq Elems(order)
      BY <2>1, <3>1, ExpireOrder
    <3> SUFFICES ASSUME NEW t \in Timers, fired'[t] # 0
                 PROVE  fired'[t] = 1 /\ ~hasCb'[t] /\ t \in created'
      BY DEF FiredInv
    <3>3. /\ fired'[t] = IF t \in Taken(k) /\ hasCb[t] /\ ~repeat[t] /\ fired[t] < 2
                         THEN fired[t] + 1 ELSE fired[t]
          /\ hasCb'[t] = (hasCb[t] /\ (t \in Taken(k) => repeat[t]))
      BY <3>1 DEF Expire, Taken
    <3>4. CASE fired[t] # 0
      <4>1. fired[t] = 1 /\ ~hasCb[t] /\ t \in created
        BY <3>4 DEF FiredInv
      <4> QED BY <2>2, <3>3, <4>1
    <3>5. CASE fired[t] = 0
      <4>1. t \in Taken(k) /\ hasCb[t] /\ ~repeat[t] /\ fired'[t] = 1
        BY <3>3, <3>5
      <4>2. t \in created
        BY <4>1 DEF TimerInv, SetInv
      <4>3. ~hasCb'[t]
        BY <3>3, <4>1
      <4> QED BY <2>2, <4>1, <4>2, <4>3
    <3> QED BY <3>4, <3>5
  <2> QED BY <2>3, <2>4
<1>3. CASE Tick \/ SetClockBack \/ UNCHANGED vars
  BY <1>3 DEF Tick, SetClockBack, FiredInv, vars, managerVars, timerVars,
              callVars
<1> QED BY <1>1, <1>2, <1>3 DEF Next

\* The callback of a timer that does not repeat is handed over at most once,
\* although refresh and reset may find the timer just before listExpiredCb
\* takes it out (Timer.cc:27-72, 122-158).
THEOREM OneShotsFireOnce == Spec => []OneShotOnce
<1>1. Init => FiredInv
  BY DEF Init, FiredInv
<1>2. FiredInv /\ TimerInv => OneShotOnce
  <2> SUFFICES ASSUME FiredInv, TimerInv, NEW t \in Timers PROVE fired[t] <= 1
    BY DEF OneShotOnce
  <2>1. fired[t] = 0 \/ fired[t] = 1
    BY DEF FiredInv
  <2> QED BY <2>1
<1> QED BY <1>1, <1>2, FiredStep, TimerInvariant, PTL DEF Spec

-----------------------------------------------------------------------------
\* Nobody oversleeps.  If the timers are known to have a new first one that no
\* idle thread has asked for (m_notify), then a thread has been told or will
\* be, or a runner has still to ask.

Told == \/ ready /\ efdCnt
        \/ \E p \in Threads : pc[p] = "haslatest"

NotifyInv == notify => \/ Told
                       \/ \E p \in Runners : pc[p] \notin {"next2", "sleep"}

LEMMA NoOversleepIs ==
    NoOversleep <=>
        ((order # <<>> /\ \A p \in Runners : pc[p] = "sleep")
         => \/ Told
            \/ \E p \in Runners : /\ wake[p] # Forever
                                  /\ \/ wake[p] <= next[order[1]]
                                     \/ wake[p] <= now)
BY DEF NoOversleep, Told

\* A thread that is about to call Haslatest does so while a runner is idle, if
\* all of them are.
LEMMA NotifyTells ==
    ASSUME Notify, \E p \in Runners : pc[p] \in IdleLabels
    PROVE  ready' /\ efdCnt'
BY DEF Notify

LEMMA SmallInt ==
    ASSUME NEW n \in Nat, n < IntHalf
    PROVE  AsInt(n) = n
<1> DEFINE a == n + IntHalf
           b == 2 * IntHalf
<1>1. a \in Nat /\ b \in Nat /\ 0 <= a /\ a < b /\ IntHalf \in Nat
  BY TimerAssumption
<1> HIDE DEF a, b
<1>2. a % b = a
  BY <1>1
<1> QED BY <1>1, <1>2 DEF a, b, AsInt

\* With all deadlines less than 2^31 milliseconds ahead, no wait outlasts the
\* first one.
LEMMA TimeoutIsShort ==
    ASSUME TypeOK, MaxNext < IntHalf
    PROVE  /\ Timeout \in Nat
           /\ order # <<>> => now + Timeout <= next[order[1]] \/ now + Timeout <= now
<1>1. MaxTimeout \in Nat
  BY TimerAssumption
<1>2. CASE order = <<>>
  BY <1>1, <1>2 DEF Timeout
<1>3. CASE order # <<>>
  <2> DEFINE first == next[order[1]]
             d     == IF first > now THEN first - now ELSE 0
  <2>1. order[1] \in Timers
    BY <1>3, ArmedIs DEF TypeOK
  <2>2. first \in Nat /\ now \in Nat
    BY <2>1, Numbers
  <2>3. first <= MaxNext
    BY <2>1 DEF TypeOK
  <2>4. d \in Nat /\ d < IntHalf
    BY <2>2, <2>3, TimerAssumption
  <2>5. now + d <= first \/ d = 0
    BY <2>2
  <2>6. Timeout = IF AsInt(d) > MaxTimeout THEN MaxTimeout ELSE AsInt(d)
    BY <1>3 DEF Timeout
  <2> HIDE DEF d, first
  <2>7. AsInt(d) = d
    BY <2>4, SmallInt
  <2>8. Timeout \in Nat /\ Timeout <= d
    BY <1>1, <2>4, <2>6, <2>7
  <2>9. now + Timeout <= first \/ now + Timeout <= now
    BY <2>2, <2>4, <2>5, <2>8
  <2> QED BY <2>8, <2>9 DEF first
<1> QED BY <1>2, <1>3

LEMMA UsePc ==
    ASSUME TimerInv, NEW p \in Threads, Use(p)
    PROVE  /\ pc[p] \notin IdleLabels /\ pc'[p] \notin IdleLabels
           /\ \A q \in Threads : q # p => pc'[q] = pc[q]
           /\ now' = now /\ wake' = wake
           /\ ~HasLatest(p) => pc[p] # "haslatest" /\ efdVars' = efdVars
<1>1. \E l \in Labels \ IdleLabels : pc' = [pc EXCEPT ![p] = l]
  BY DEF Use, AddTimer, CallCancel, CallRefresh, CallReset, InsertTimer,
         HasLatest, ReturnTimer, Cancel, NotArmed, Refresh, Reset, AddToSet,
         Goto, Labels, IdleLabels
<1>2. /\ pc[p] \in Labels \ IdleLabels
      /\ ~HasLatest(p) => pc[p] # "haslatest"
  BY DEF Use, AddTimer, CallCancel, CallRefresh, CallReset, InsertTimer,
         HasLatest, ReturnTimer, Cancel, NotArmed, Refresh, Reset, At, Labels,
         IdleLabels
<1>3. now' = now /\ wake' = wake
  BY DEF Use, AddTimer, CallCancel, CallRefresh, CallReset, InsertTimer,
         HasLatest, ReturnTimer, Cancel, NotArmed, Refresh, Reset, idleVars,
         clockVars
<1>4. ~HasLatest(p) => efdVars' = efdVars
  BY DEF Use, AddTimer, CallCancel, CallRefresh, CallReset, InsertTimer,
         ReturnTimer, Cancel, NotArmed, Refresh, Reset
<1>5. pc \in [Threads -> Labels]
  BY DEF TimerInv, TypeOK
<1> QED BY <1>1, <1>2, <1>3, <1>4, <1>5

LEMMA ToldIsEnough ==
    ASSUME (order' # <<>> /\ \A q \in Runners : pc'[q] = "sleep") => Told'
    PROVE  NoOversleep'
<1>1. Told' = (\/ ready' /\ efdCnt'
              \/ \E q \in Threads : pc'[q] = "haslatest")
  BY DEF Told
<1> QED BY <1>1 DEF NoOversleep

LEMMA StillInTime ==
    ASSUME NoOversleep, Told => Told', now' = now, wake' = wake,
           \A q \in Runners : pc'[q] = pc[q],
           order' # <<>> =>
               /\ order # <<>>
               /\ next[order[1]] <= next'[order'[1]]
               /\ next[order[1]] \in Int /\ next'[order'[1]] \in Int,
           wake \in [Threads -> Int \cup {Forever}]
    PROVE  NoOversleep'
<1> SUFFICES ASSUME order' # <<>>, \A q \in Runners : pc'[q] = "sleep", ~Told'
             PROVE  \E q \in Runners : /\ wake'[q] # Forever
                                       /\ \/ wake'[q] <= next'[order'[1]]
                                          \/ wake'[q] <= now'
  BY DEF NoOversleep, Told
<1>1. \E q \in Runners : /\ wake[q] # Forever
                         /\ wake[q] <= next[order[1]] \/ wake[q] <= now
  BY NoOversleepIs
<1>2. PICK q \in Runners : /\ wake[q] # Forever
                           /\ wake[q] <= next[order[1]] \/ wake[q] <= now
  BY <1>1
<1>3. wake[q] \in Int
  BY <1>2 DEF Threads
<1>4. wake[q] <= next[order[1]] => wake[q] <= next'[order'[1]]
  BY <1>3
<1> QED BY <1>2, <1>4

\* A timer that comes to the set either makes a thread tell the runners or
\* leaves the first deadline no earlier.
LEMMA AddKeepsTime ==
    ASSUME TimerInv, NotifyInv, NoOversleep, NEW p \in Threads, p \notin Runners,
           Use(p), ~HasLatest(p), NEW s, NEW t, AddToSet(p, s, t, next'),
           Sorted(order', next'), order' \in Seq(Timers), Len(order') # 0,
           Elems(order') \subseteq Elems(order) \cup {t},
           \A u \in Timers : u # t => next'[u] = next[u],
           next' \in [Timers -> 0..MaxNext], Told => Told'
    PROVE  NotifyInv' /\ NoOversleep'
<1>1. /\ \A q \in Runners : pc'[q] = pc[q]
      /\ now' = now /\ wake' = wake
  BY UsePc DEF Threads
<1> DEFINE tell == order'[1] = t /\ ~notify
<1>2. /\ notify' = (notify \/ tell)
      /\ tell => pc' = [pc EXCEPT ![p] = "haslatest"]
  BY DEF AddToSet, Goto
<1>3. tell => Told'
  BY <1>2 DEF TimerInv, TypeOK, Told
<1> HIDE DEF tell
<1>4. NotifyInv'
  <2>1. CASE tell
    BY <1>3, <2>1 DEF NotifyInv
  <2>2. CASE ~tell
    <3>1. notify' = notify
      BY <1>2, <2>2 DEF TimerInv, TypeOK
    <3>2. (\E q \in Runners : pc[q] \notin {"next2", "sleep"})
          => \E q \in Runners : pc'[q] \notin {"next2", "sleep"}
      BY <1>1
    <3> QED BY <3>1, <3>2 DEF NotifyInv
  <2> QED BY <2>1, <2>2
<1>5. CASE tell
  BY <1>3, <1>4, <1>5, ToldIsEnough
<1>6. CASE ~tell /\ notify
  <2>1. (\A q \in Runners : pc'[q] = "sleep") => Told'
    BY <1>1, <1>6 DEF NotifyInv
  <2> QED BY <1>4, <2>1, ToldIsEnough
<1>7. CASE order'[1] # t
  <2>1. order'[1] \in Elems(order')
    <3>1. 1 \in 1..Len(order')
      BY LenProperties
    <3> QED BY <3>1 DEF Elems
  <2> DEFINE u == order'[1]
  <2>2. u \in Elems(order)
    BY <1>7, <2>1
  <2>3. /\ order \in Seq(Timers) /\ Sorted(order, next) /\ next \in [Timers -> Int]
        /\ next \in [Timers -> 0..MaxNext]
    BY TypesOfNext DEF TimerInv, SetInv, TypeOK
  <2>4. u \in Timers /\ order[1] \in Timers /\ order # <<>>
    BY <2>2, <2>3, ArmedIs, FirstIsLeast
  <2>5. next[order[1]] <= next[u]
    BY <2>2, <2>3, FirstIsLeast
  <2>6. next'[u] = next[u]
    BY <1>7, <2>4
  <2>7. next[order[1]] \in Int /\ next[u] \in Int
    BY <2>3, <2>4
  <2> HIDE DEF u
  <2>8. next[order[1]] <= next'[u] /\ next'[u] \in Int
    BY <2>5, <2>6, <2>7
  <2>9. wake \in [Threads -> Int \cup {Forever}]
    BY DEF TimerInv, TypeOK
  <2>10. order' # <<>> =>
             /\ order # <<>>
             /\ next[order[1]] <= next'[order'[1]]
             /\ next[order[1]] \in Int /\ next'[order'[1]] \in Int
    BY <2>4, <2>7, <2>8 DEF u
  <2>11. NoOversleep'
    BY <1>1, <2>9, <2>10, StillInTime
  <2> QED BY <1>4, <2>11
<1> QED BY <1>4, <1>5, <1>6, <1>7 DEF tell

LEMMA UseKeepsTime ==
    ASSUME TimerInv, NotifyInv, NoOversleep, NEW p \in Users, Use(p)
    PROVE  NotifyInv' /\ NoOversleep'
<1> p \in Threads
  BY DEF Threads
<1>1. CASE p \in Runners
  <2>1. pc'[p] \notin {"next2", "sleep"}
    BY UsePc DEF IdleLabels
  <2> QED BY <1>1, <2>1 DEF NotifyInv, NoOversleep
<1>2. CASE p \notin Runners
  <2>1. /\ \A q \in Runners : pc'[q] = pc[q]
        /\ \A q \in Threads : q # p => pc'[q] = pc[q]
        /\ now' = now /\ wake' = wake
    BY <1>2, UsePc DEF Threads
  <2>2. CASE HasLatest(p)
    <3>1. Notify /\ notify' = notify
      BY <2>2 DEF HasLatest, managerVars
    <3>2. (\E q \in Runners : pc[q] \in IdleLabels) => Told'
      BY <3>1, NotifyTells DEF Told
    <3>3. (\A q \in Runners : pc[q] \in {"next2", "sleep"}) => Told'
      BY <3>2, TimerAssumption DEF IdleLabels
    <3>4. NotifyInv'
      BY <2>1, <3>3 DEF NotifyInv
    <3>5. (\A q \in Runners : pc'[q] = "sleep") => Told'
      BY <2>1, <3>3
    <3> QED BY <3>4, <3>5, ToldIsEnough
  <2>3. CASE ~HasLatest(p)
    <3>1. Told => Told'
      BY <2>1, <2>3, UsePc DEF Told, efdVars
    <3>2. /\ order \in Seq(Timers) /\ Sorted(order, next)
          /\ next \in [Timers -> Int] /\ next \in [Timers -> 0..MaxNext]
          /\ wake \in [Threads -> Int \cup {Forever}]
      BY TypesOfNext DEF TimerInv, SetInv, TypeOK
    <3>3. CASE InsertTimer(p)
      <4> DEFINE t == arg[p].timer
      <4>1. next' = next /\ AddToSet(p, order, t, next)
        BY <3>3 DEF InsertTimer, timerVars
      <4>2. /\ order' \in Seq(Timers) /\ Sorted(order', next)
            /\ Elems(order') = Elems(order) \cup {t} /\ Len(order') # 0
        BY <3>3, InsertTimerOrder
      <4> HIDE DEF t
      <4> QED BY <1>2, <2>3, <3>1, <3>2, <4>1, <4>2, AddKeepsTime
    <3>4. CASE Refresh(p) \/ Reset(p)
      <4> DEFINE t == arg[p].timer
      <4>1. /\ AddToSet(p, Erase(t), t, next')
            /\ \E x : next' = [next EXCEPT ![t] = x]
        BY <3>4 DEF Refresh, Reset
      <4>2. /\ order' \in Seq(Timers) /\ Sorted(order', next')
            /\ Elems(order') = Elems(order) /\ Len(order') # 0
            /\ next' \in [Timers -> 0..MaxNext]
        BY <3>4, RefreshOrder, ResetOrder
      <4>3. \A u \in Timers : u # t => next'[u] = next[u]
        BY <3>2, <4>1
      <4> HIDE DEF t
      <4> QED BY <1>2, <2>3, <3>1, <4>1, <4>2, <4>3, AddKeepsTime
    <3>5. CASE ~InsertTimer(p) /\ ~Refresh(p) /\ ~Reset(p)
      <4>1. notify' = notify
        BY <2>3, <3>5
        DEF Use, AddTimer, CallCancel, CallRefresh, CallReset, ReturnTimer,
            Cancel, NotArmed, managerVars
      <4>2. NotifyInv'
        BY <2>1, <3>1, <4>1 DEF NotifyInv
      <4>3. order' # <<>> =>
                /\ order' [1] \in Elems(order)
                /\ next'[order'[1]] = next[order'[1]]
        <5>1. CASE Cancel(p)
          <6>1. /\ order' \in Seq(Timers) /\ Elems(order') \subseteq Elems(order)
                /\ next' = next
            BY <5>1, CancelOrder DEF Cancel
          <6>2. order' # <<>> => order'[1] \in Elems(order')
            <7>1. order' # <<>> => 1 \in 1..Len(order')
              BY <6>1, LenProperties, EmptySeq
            <7> QED BY <7>1 DEF Elems
          <6> QED BY <6>1, <6>2
        <5>2. ASSUME NEW t \in Timers, NEW m \in Periods, NEW r \in BOOLEAN,
                     AddTimer(p, t, m, r)
              PROVE  order' # <<>> => /\ order'[1] \in Elems(order)
                                      /\ next'[order'[1]] = next[order'[1]]
          <6>1. /\ order' = order /\ t \notin created
                /\ \A u \in Timers : u # t => next'[u] = next[u]
            BY <3>2, <5>2 DEF AddTimer
          <6>2. t \notin Elems(order)
            BY <6>1 DEF TimerInv, SetInv
          <6>3. order # <<>> => order[1] \in Elems(order) /\ order[1] \in Timers
            BY <3>2, ArmedIs
          <6> QED BY <6>1, <6>2, <6>3
        <5>3. CASE order' = order /\ next' = next
          BY <3>2, <5>3, ArmedIs
        <5>4. \/ Cancel(p)
              \/ order' = order /\ next' = next
              \/ \E t \in Timers, m \in Periods, r \in BOOLEAN : AddTimer(p, t, m, r)
          <6>1. CASE \E t \in Timers : CallCancel(p, t) \/ CallRefresh(p, t)
            BY <6>1 DEF CallCancel, CallRefresh, managerVars, timerVars
          <6>2. CASE \E t \in Timers, m \in Periods, f \in BOOLEAN :
                         CallReset(p, t, m, f)
            BY <6>2 DEF CallReset, managerVars, timerVars
          <6>3. CASE ReturnTimer(p) \/ NotArmed(p)
            BY <6>3 DEF ReturnTimer, NotArmed, managerVars, timerVars
          <6> QED BY <2>3, <3>5, <6>1, <6>2, <6>3 DEF Use
        <5> QED BY <5>1, <5>2, <5>3, <5>4
      <4>4. order' # <<>> =>
                /\ order # <<>>
                /\ next[order[1]] <= next'[order'[1]]
                /\ next[order[1]] \in Int /\ next'[order'[1]] \in Int
        <5> SUFFICES ASSUME order' # <<>>
                     PROVE  /\ order # <<>>
                            /\ next[order[1]] <= next'[order'[1]]
                            /\ next[order[1]] \in Int /\ next'[order'[1]] \in Int
          OBVIOUS
        <5> DEFINE u == order'[1]
        <5>1. u \in Elems(order) /\ next'[u] = next[u]
          BY <4>3
        <5> HIDE DEF u
        <5>2. order # <<>> /\ next[order[1]] <= next[u] /\ order[1] \in Elems(order)
          BY <3>2, <5>1, FirstIsLeast
        <5>3. order[1] \in Timers /\ u \in Timers
          BY <3>2, <5>1, <5>2, ArmedIs
        <5> QED BY <3>2, <5>1, <5>2, <5>3 DEF u
      <4>5. NoOversleep'
        BY <2>1, <3>1, <3>2, <4>4, StillInTime
      <4> QED BY <4>2, <4>5
    <3> QED BY <3>3, <3>4, <3>5
  <2> QED BY <2>2, <2>3
<1> QED BY <1>1, <1>2

LEMMA IdleKeepsTime ==
    ASSUME TimerInv, NotifyInv, NoOversleep, MaxNext < IntHalf,
           NEW p \in Runners, Idle(p)
    PROVE  NotifyInv' /\ NoOversleep'
<1>1. p \in Threads /\ pc \in [Threads -> Labels]
  BY DEF Threads, TimerInv, TypeOK
<1>2. CASE ForgetNotify(p)
  <2>1. notify' = FALSE /\ pc'[p] = "next2"
    BY <1>1, <1>2 DEF ForgetNotify, Goto
  <2> QED BY <2>1 DEF NotifyInv, NoOversleep
<1>3. CASE ReadNext(p)
  <2>1. /\ pc[p] = "next2" /\ pc'[p] = "sleep"
        /\ \A q \in Threads : q # p => pc'[q] = pc[q]
        /\ notify' = notify /\ ready' = ready /\ efdCnt' = efdCnt
        /\ order' = order /\ next' = next /\ now' = now
    BY <1>1, <1>3 DEF ReadNext, At, Goto, managerVars, timerVars, efdVars, clockVars
  <2>2. wake' [p] = IF Timeout < 0 THEN Forever ELSE now + Timeout
    BY <1>1, <1>3 DEF ReadNext, TimerInv, TypeOK
  <2>3. Told => Told'
    BY <2>1 DEF Told
  <2>4. (\E q \in Runners : pc[q] \notin {"next2", "sleep"})
        => \E q \in Runners : pc'[q] \notin {"next2", "sleep"}
    BY <2>1 DEF Threads
  <2>5. NotifyInv'
    BY <2>1, <2>3, <2>4 DEF NotifyInv
  <2>6. /\ Timeout \in Nat
        /\ order # <<>> => now + Timeout <= next[order[1]] \/ now + Timeout <= now
    BY TimeoutIsShort DEF TimerInv
  <2>7. wake'[p] = now + Timeout /\ wake'[p] # Forever
    <3>1. now + Timeout \in Int
      BY <2>6, Numbers DEF TimerInv
    <3>2. ~(Timeout < 0)
      BY <2>6
    <3> QED BY <2>2, <3>1, <3>2, TimerAssumption
  <2>8. NoOversleep'
    BY <2>1, <2>6, <2>7 DEF NoOversleep
  <2> QED BY <2>5, <2>8
<1>4. CASE ~ForgetNotify(p) /\ ~ReadNext(p)
  <2>1. \E l \in {"next1", "clock", "expire", "push", "drain", "work"} :
            pc' = [pc EXCEPT ![p] = l]
    <3>1. CASE DrainEventfd(p)
      <4>1. pc' = pc /\ pc[p] = "drain"
        BY <3>1 DEF DrainEventfd, At
      <4>2. pc' = [pc EXCEPT ![p] = "drain"]
        BY <1>1, <4>1
      <4> QED BY <4>2
    <3>2. CASE ~DrainEventfd(p)
      BY <1>4, <3>2
      DEF Idle, GoIdle, EpollReturn, ReadClock, ListExpired, PushExpired,
          IdleYield, Goto
    <3> QED BY <3>1, <3>2
  <2>2. pc'[p] \notin {"next2", "sleep"}
    BY <1>1, <2>1
  <2> QED BY <2>2 DEF NotifyInv, NoOversleep
<1> QED BY <1>2, <1>3, <1>4

LEMMA TimeStep ==
    ASSUME MaxNext < IntHalf
    PROVE  TimerInv /\ NotifyInv /\ NoOversleep /\ [Next]_vars
           => NotifyInv' /\ NoOversleep'
<1> SUFFICES ASSUME TimerInv, NotifyInv, NoOversleep, [Next]_vars
             PROVE  NotifyInv' /\ NoOversleep'
  OBVIOUS
<1>1. ASSUME NEW p \in Users, Use(p) PROVE NotifyInv' /\ NoOversleep'
  BY <1>1, UseKeepsTime
<1>2. ASSUME NEW p \in Runners, Idle(p) PROVE NotifyInv' /\ NoOversleep'
  BY <1>2, IdleKeepsTime
<1>3. CASE Tick \/ SetClockBack
  <2>1. /\ notify' = notify /\ order' = order /\ next' = next /\ pc' = pc
        /\ ready' = ready /\ efdCnt' = efdCnt
    BY <1>3 DEF Tick, SetClockBack, managerVars, timerVars, efdVars
  <2>2. NotifyInv'
    BY <2>1 DEF NotifyInv, Told
  <2>3. now \in Nat /\ wake \in [Threads -> Int \cup {Forever}]
    BY Numbers DEF TimerInv, TypeOK
  <2> SUFFICES ASSUME order # <<>>, \A q \in Runners : pc[q] = "sleep", ~Told
               PROVE  \E q \in Runners : /\ wake'[q] # Forever
                                         /\ \/ wake'[q] <= next[order[1]]
                                            \/ wake'[q] <= now'
    BY <2>1, <2>2 DEF NoOversleep, Told
  <2>4. PICK q \in Runners : /\ wake[q] # Forever
                             /\ wake[q] <= next[order[1]] \/ wake[q] <= now
    BY NoOversleepIs
  <2>5. wake[q] \in Int /\ q \in Threads
    BY <2>3, <2>4 DEF Threads
  <2>6. CASE Tick
    <3>1. now' = now + 1 /\ wake' = wake
      BY <2>6 DEF Tick, idleVars
    <3> QED BY <2>3, <2>4, <2>5, <3>1
  <2>7. CASE SetClockBack
    <3>1. PICK lag \in 1..now :
              /\ now' = now - lag
              /\ wake' = [r \in Threads |->
                             IF wake[r] = Forever THEN Forever ELSE wake[r] - lag]
      BY <2>7 DEF SetClockBack
    <3>2. wake'[q] = wake[q] - lag /\ wake'[q] \in Int
      BY <2>3, <2>4, <2>5, <3>1
    <3>3. wake'[q] # Forever
      BY <3>2, TimerAssumption
    <3>4. order[1] \in Timers
      BY ArmedIs DEF TimerInv, TypeOK
    <3>5. next[order[1]] \in Int
      BY <3>4, TypesOfNext DEF TimerInv
    <3> QED BY <2>3, <2>4, <2>5, <3>1, <3>2, <3>3, <3>5
  <2> QED BY <1>3, <2>6, <2>7
<1>4. CASE UNCHANGED vars
  BY <1>4 DEF NotifyInv, NoOversleep, Told, vars, managerVars, timerVars,
              efdVars, idleVars, clockVars
<1> QED BY <1>1, <1>2, <1>3, <1>4 DEF Next

\* If all runners are asleep and timers are waiting, one of the runners wakes
\* up in time for the first one, or somebody is about to wake it: m_notify,
\* which getNextTimer clears without the lock, and Haslatest, which addtimer calls
\* after it, lose no wakeup (Timer.cc:84-95, 107-120, IOManager.cc:276-288).
\* The deadlines are less than 2^31 milliseconds away, as the timeout handed to
\* epoll_wait is an int.
THEOREM NobodyOversleeps ==
    ASSUME MaxNext < IntHalf
    PROVE  Spec => []NoOversleep
<1>1. Init => NotifyInv /\ NoOversleep
  BY DEF Init, NotifyInv, NoOversleep
<1> QED BY <1>1, TimeStep, TimerInvariant, PTL DEF Spec

-----------------------------------------------------------------------------
\* What listExpiredCb leaves in the set.

\* Where a later timer is in the set, those behind the place it stops at are due
\* at the time it looked at or after that.
LEMMA LeftAreLater ==
    ASSUME TimerInv, NEW t \in Int, ~Rollover(t), LaterTimer(t),
           NEW k \in Expirable(t)
    PROVE  \A i \in 1..Len(order) : i > k => next[order[i]] >= t
<1>1. /\ order \in Seq(Timers) /\ Sorted(order, next) /\ next \in [Timers -> Int]
  BY TypesOfNext DEF TimerInv, SetInv, TypeOK
<1>2. PICK L \in Nat : L = Len(order) /\ (order # <<>> => L > 0)
  BY <1>1, LenProperties, EmptySeq
<1>3. DOMAIN order = 1..L /\ \A i \in 1..L : next[order[i]] \in Int
  BY <1>1, <1>2, ElementOfSeq, ArmedIs
<1>4. PICK m \in 1..L : next[order[m]] > t
  BY <1>3 DEF LaterTimer
<1>5. CASE next[order[1]] > t
  <2>1. ASSUME NEW i \in 1..L PROVE next[order[i]] >= t
    <3>1. i = 1 \/ 1 < i
      OBVIOUS
    <3>2. 1 < i => Before(order[1], order[i], next)
      BY <1>1, <1>2 DEF Sorted
    <3>3. 1 \in 1..L
      OBVIOUS
    <3>4. next[order[1]] \in Int /\ next[order[i]] \in Int
      BY <1>3, <3>3
    <3> QED BY <1>5, <3>1, <3>2, <3>4 DEF Before
  <2> QED BY <1>2, <2>1
<1>6. CASE ~(next[order[1]] > t)
  <2>1. order # <<>>
    <3>1. order = <<>> => L = 0
      BY <1>2
    <3> QED BY <1>4, <3>1
  <2>2. PICK n \in UpperBound(t) : k \in Increment(n)
    BY <1>6, <2>1 DEF Expirable
  <2>3. /\ n \in 0..L
        /\ \A i \in 1..L : IF i <= n THEN next[order[i]] <= t ELSE next[order[i]] >= t
    BY <1>2, <1>3, <2>2 DEF UpperBound
  <2>4. n # L
    <3> SUFFICES ASSUME n = L PROVE FALSE
      OBVIOUS
    <3>1. m <= n
      OBVIOUS
    <3>2. next[order[m]] <= t
      BY <2>3, <3>1
    <3>3. next[order[m]] \in Int
      BY <1>3
    <3> QED BY <1>4, <3>2, <3>3
  <2>5. k = n + 1
    BY <1>2, <2>2, <2>3, <2>4 DEF Increment
  <2>6. ASSUME NEW i \in 1..L, i > k PROVE next[order[i]] >= t
    <3>1. ~(i <= n)
      BY <2>3, <2>5, <2>6
    <3> QED BY <2>3, <3>1
  <2> QED BY <1>2, <2>6
<1> QED BY <1>5, <1>6

LEMMA NoneLeftBehind ==
    ASSUME TimerInv, NEW p \in Threads, NEW k \in Expirable(seen[p]), Expire(p, k),
           ~Rollover(seen[p]), LaterTimer(seen[p])
    PROVE  \A u \in Elems(order') : next'[u] >= seen[p]
<1>1. /\ order \in Seq(Timers) /\ seen[p] \in Int /\ ms \in [Timers -> Periods \cup {0}]
  <2>1. seen[p] \in 0..MaxTime
    BY DEF TimerInv, TypeOK
  <2> QED BY <2>1, TimerAssumption DEF TimerInv, TypeOK
<1>2. k \in 0..Len(order)
  BY <1>1, ExpirableIs
<1>3. /\ Taken(k) \subseteq Elems(order)
      /\ Elems(order') = Elems(order) \ {u \in Taken(k) : ~repeat[u]}
  BY <1>2, ExpireOrder
<1>4. \A u \in Timers : next'[u] = IF u \in Taken(k) /\ repeat[u]
                                  THEN seen[p] + ms[u] ELSE next[u]
  BY DEF Expire, Taken
<1>5. Elems(order) \subseteq Timers
  BY <1>1, ArmedIs
<1> SUFFICES ASSUME NEW u \in Elems(order') PROVE next'[u] >= seen[p]
  OBVIOUS
<1>6. u \in Elems(order) /\ u \in Timers /\ (u \in Taken(k) => repeat[u])
  BY <1>3, <1>5
<1>7. CASE u \in Taken(k)
  <2>1. next'[u] = seen[p] + ms[u]
    BY <1>4, <1>6, <1>7
  <2>2. ms[u] \in Periods \/ ms[u] = 0
    BY <1>1, <1>6
  <2>3. Periods \subseteq Nat
    BY TimerAssumption
  <2>4. ms[u] \in Periods => ms[u] \in Nat
    BY <2>3
  <2>5. ms[u] \in Nat
    BY <2>2, <2>4
  <2> QED BY <1>1, <2>1, <2>5
<1>8. CASE u \notin Taken(k)
  <2>1. PICK i \in 1..Len(order) : u = order[i]
    BY <1>6 DEF Elems
  <2>2. PICK L \in Nat : L = Len(order)
    BY <1>1, LenProperties
  <2>3. i \notin 1..k
    BY <1>8, <2>1 DEF Taken
  <2>4. i > k
    BY <1>2, <2>2, <2>3
  <2>5. next[u] >= seen[p]
    BY <1>1, <2>1, <2>4, LeftAreLater
  <2> QED BY <1>4, <1>6, <1>8, <2>5
<1> QED BY <1>7, <1>8

\* listExpiredCb leaves no expired timer behind as long as a later one is in the
\* set (Timer.cc:126-157): of two timers the one that is due first always fires.
THEOREM LaterTimersHelp == Spec => LaterTimerHelps
<1> DEFINE Helps(p) ==
        At(p, "expire") /\ pc'[p] = "push" /\ LaterTimer(seen[p])
            /\ ~Rollover(seen[p])
        => \A i \in DOMAIN order' : next'[order'[i]] >= seen[p]
<1>1. TimerInv /\ [Next]_vars => \A p \in Runners : Helps(p)
  <2> SUFFICES ASSUME TimerInv, [Next]_vars, NEW p \in Runners, At(p, "expire"),
                      pc'[p] = "push", LaterTimer(seen[p]), ~Rollover(seen[p]),
                      NEW i \in DOMAIN order'
               PROVE  next'[order'[i]] >= seen[p]
    OBVIOUS
  <2>1. p \in Threads /\ pc[p] = "expire" /\ pc \in [Threads -> Labels]
    BY DEF Threads, At, TimerInv, TypeOK
  <2>2. ListExpired(p)
    <3>1. ASSUME NEW q \in Users, Use(q) PROVE pc'[p] = pc[p]
      <4>1. q \in Threads
        BY DEF Threads
      <4>2. p # q
        BY <2>1, <3>1, <4>1, UsePc DEF IdleLabels
      <4> QED BY <2>1, <3>1, <4>1, <4>2, UsePc
    <3>2. ASSUME NEW q \in Runners, Idle(q) PROVE q = p /\ ListExpired(p)
      <4>1. /\ pc[q] # "expire" => \E l \in Labels : pc' = [pc EXCEPT ![q] = l] /\ l # "push"
            /\ pc[q] = "expire" => ListExpired(q) /\ pc' = [pc EXCEPT ![q] = "push"]
        BY <3>2 DEF Idle, GoIdle, ForgetNotify, ReadNext, EpollReturn, ReadClock,
                    ListExpired, PushExpired, DrainEventfd, IdleYield, At, Goto,
                    Labels, IdleLabels
      <4>2. q \in Threads
        BY DEF Threads
      <4> QED BY <2>1, <4>1, <4>2
    <3>3. Tick \/ SetClockBack \/ UNCHANGED vars => pc' = pc
      BY DEF Tick, SetClockBack, vars, idleVars, callVars
    <3>4. pc'[p] # pc[p]
      BY <2>1
    <3> QED BY <3>1, <3>2, <3>3, <3>4 DEF Next
  <2>3. PICK k \in Expirable(seen[p]) : Expire(p, k)
    BY <2>2 DEF ListExpired
  <2>4. \A u \in Elems(order') : next'[u] >= seen[p]
    BY <2>1, <2>3, NoneLeftBehind
  <2>5. order' \in Seq(Timers)
    <3>1. seen[p] \in Int
      BY <2>1, TimerAssumption DEF TimerInv, TypeOK
    <3>2. k \in 0..Len(order)
      BY <2>3, <3>1, ExpirableIs DEF TimerInv, TypeOK
    <3> QED BY <2>1, <2>3, <3>2, ExpireOrder
  <2>6. order'[i] \in Elems(order')
    BY <2>5 DEF Elems
  <2> QED BY <2>4, <2>6
<1>2. TimerInv /\ [Next]_vars => [\A p \in Runners : Helps(p)]_vars
  BY <1>1
<1> QED BY <1>2, TimerInvariant, PTL DEF Spec, LaterTimerHelps
=============================================================================
