--------------------------- MODULE ByteArrayProof ---------------------------
(***************************************************************************)
(* Proofs about module ByteArray, for nodes of any size, and chains and    *)
(* calls of any length: the pointers agree with the positions, and the     *)
(* chain of nodes implements the flat array of module FlatBytes.  And      *)
(* about module Codecs, for words and groups of any width: what any of the *)
(* encodings writes is read back.                                          *)
(***************************************************************************)
EXTENDS ByteArrayProps, SequenceTheorems, WellFoundedInduction, TLAPS

LEMMA Division ==
    ASSUME NEW B \in Nat \ {0}, NEW a \in Nat
    PROVE  a \div B \in Nat /\ a % B \in 0..(B - 1) /\ a = B * (a \div B) + (a % B)
OBVIOUS

LEMMA Multiple ==
    ASSUME NEW B \in Nat \ {0}, NEW q \in Nat
    PROVE  (q * B) % B = 0
OBVIOUS

LEMMA MoreNodes ==
    ASSUME NEW n \in Nat, NEW m \in Nat, n <= m
    PROVE  \A i \in 0..(n - 1) : i \in 0..(m - 1)
OBVIOUS

LEMMA LongerChain ==
    ASSUME NEW B \in Nat, NEW n \in Nat, NEW m \in Nat, n <= m
    PROVE  n * B <= m * B /\ m * B \in Nat
OBVIOUS

LEMMA WholeNodes ==
    ASSUME NEW B \in Nat \ {0}, NEW n \in Nat
    PROVE  (n * B) \div B = n
OBVIOUS

LEMMA RoundedUp ==
    ASSUME NEW B \in Nat \ {0}, NEW m \in Nat
    PROVE  (m + B - 1) \div B \in Nat /\ ((m + B - 1) \div B) * B >= m
<1>1. m + B - 1 \in Nat
  OBVIOUS
<1>2. PICK q \in Nat, r \in 0..(B - 1) : m + B - 1 = B * q + r /\ q = (m + B - 1) \div B
  BY <1>1
<1>3. q * B = B * q
  BY <1>2
<1> QED BY <1>2, <1>3

\* The node of an address, and the address a node and a position are.
LEMMA NodeFacts ==
    ASSUME NEW a \in Nat, NEW n \in Nat
    PROVE  /\ a < n * Base => /\ NodeAt(a, n) \in 0..(n - 1)
                              /\ Start(NodeAt(a, n), a) = a
           /\ a >= n * Base => NodeAt(a, n) = Null
<1>1. Base \in Nat \ {0}
  BY ByteArrayAssumption
<1>2. /\ a \div Base \in Nat /\ (a \div Base) * Base + (a % Base) = a
      /\ a \div Base < n <=> a < n * Base
  BY <1>1
<1> QED BY <1>1, <1>2 DEF NodeAt, Start

\* A longer chain has the same nodes at the same places.
LEMMA NodeStays ==
    ASSUME NEW a \in Nat, NEW n \in Nat, NEW m \in Nat, n <= m, a < n * Base
    PROVE  NodeAt(a, m) = NodeAt(a, n)
<1>1. Base \in Nat \ {0}
  BY ByteArrayAssumption
<1>2. a \div Base \in Nat /\ a \div Base < n
  BY <1>1
<1> QED BY <1>2 DEF NodeAt

\* addCapacity appends as many nodes as the bytes need.
LEMMA GrownFacts ==
    ASSUME TypeOK, NEW n \in Nat \ {0}
    PROVE  Grown(n) \in Nat /\ Grown(n) >= nodes /\ wpos + n <= Grown(n) * Base
<1> DEFINE m == Missing(n)
           k == (m + Base - 1) \div Base
<1>1. /\ Base \in Nat \ {0} /\ nodes \in Nat /\ Capacity \in Nat /\ wpos \in Nat
      /\ Capacity = nodes * Base /\ wpos <= Capacity
  BY ByteArrayAssumption DEF TypeOK, Capacity
<1>2. m \in Nat /\ m >= wpos + n - Capacity
  BY <1>1 DEF Missing, Lesser
<1>3. k \in Nat /\ k * Base >= m
  <2> HIDE DEF m
  <2> QED BY <1>1, <1>2, RoundedUp
<1> HIDE DEF k, m
<1>4. Grown(n) = nodes + k
  BY DEF Grown, k, m
<1>5. (nodes + k) * Base = nodes * Base + k * Base
  BY <1>1, <1>3
<1> QED BY <1>1, <1>2, <1>3, <1>4, <1>5

\* Writing begins at the write position.
LEMMA WritesAtPosition ==
    ASSUME NodesExact, NEW n \in Nat \ {0}
    PROVE  Start(WriteNode(n), wpos) = wpos
<1>1. /\ Base \in Nat \ {0} /\ nodes \in Nat /\ wpos \in Nat /\ Capacity = nodes * Base
      /\ wpos <= Capacity /\ wnode = NodeAt(wpos, nodes)
  BY ByteArrayAssumption DEF NodesExact, TypeOK, Capacity, WriteNodeExact
<1>2. CASE wpos = Capacity
  <2>1. wpos % Base = 0
    BY <1>1, <1>2, Multiple
  <2> QED BY <1>1, <1>2, <2>1 DEF WriteNode, Start
<1>3. CASE wpos # Capacity
  BY <1>1, <1>3, NodeFacts DEF WriteNode
<1> QED BY <1>2, <1>3

\* Reading does, unless the pointer is null; then something has been written.
LEMMA ReadsAtPosition ==
    ASSUME NodesExact
    PROVE  /\ rnode # Null => Start(rnode, rpos) = rpos
           /\ rnode = Null => size > 0
           /\ \A pos \in 0..size :
                  LET node == IF pos \div Base = rpos \div Base THEN rnode ELSE NodeAt(pos, nodes)
                  IN  /\ node # Null => Start(node, pos) = pos
                      /\ node = Null => size > 0
<1>1. /\ Base \in Nat \ {0} /\ nodes \in Nat \ {0} /\ rpos \in Nat /\ size \in Nat
      /\ rpos <= size /\ Capacity = nodes * Base /\ size <= Capacity
      /\ rnode = NodeAt(rpos, nodes) \/ (rnode = Null /\ rpos > 0)
  BY ByteArrayAssumption DEF NodesExact, TypeOK, Capacity, ReadNodeNotStale
<1>2. \A pos \in Nat : /\ NodeAt(pos, nodes) # Null => Start(NodeAt(pos, nodes), pos) = pos
                       /\ NodeAt(pos, nodes) = Null => pos > 0
  <2> TAKE pos \in Nat
  <2>1. nodes * Base \in Nat \ {0}
    BY <1>1
  <2>2. pos < nodes * Base \/ pos >= nodes * Base
    BY <2>1
  <2>3. /\ pos < nodes * Base => /\ NodeAt(pos, nodes) \in 0..(nodes - 1)
                                 /\ Start(NodeAt(pos, nodes), pos) = pos
        /\ pos >= nodes * Base => NodeAt(pos, nodes) = Null
    BY <1>1, NodeFacts
  <2>4. Null \notin 0..(nodes - 1)
    BY <1>1, ByteArrayAssumption
  <2> QED BY <2>1, <2>2, <2>3, <2>4
<1>3. ASSUME NEW pos \in 0..size, pos \div Base = rpos \div Base, rnode # Null
      PROVE  Start(rnode, pos) = pos
  <2>1. rnode = NodeAt(pos, nodes)
    BY <1>1, <1>3 DEF NodeAt
  <2> QED BY <1>2, <1>3, <2>1
<1> QED BY <1>1, <1>2, <1>3

-----------------------------------------------------------------------------
LEMMA Bounds ==
    ASSUME TypeOK
    PROVE  /\ Base \in Nat \ {0} /\ nodes \in 1..MaxNodes /\ Capacity = nodes * Base
           /\ size \in Nat /\ rpos \in Nat /\ wpos \in Nat /\ rpos <= size /\ wpos <= size
           /\ size <= Capacity /\ Capacity \in Nat /\ Capacity <= MaxNodes * Base
           /\ MaxNodes * Base \in Nat
           /\ \A a \in Nat : a < Capacity => a \in Addresses
<1>1. /\ Base \in Nat \ {0} /\ MaxNodes \in Nat \ {0} /\ nodes \in 1..MaxNodes
      /\ Capacity = nodes * Base
  BY ByteArrayAssumption DEF TypeOK, Capacity
<1>2. Capacity \in Nat /\ MaxNodes * Base \in Nat /\ Capacity <= MaxNodes * Base
  BY <1>1
<1>3. \A a \in Nat : a < Capacity => a \in Addresses
  BY <1>2 DEF Addresses
<1> QED BY <1>1, <1>2, <1>3 DEF TypeOK

\* What a call returns.
Outs == [from : Nat, bytes : Seq(Contents)]

LEMMA OutFacts ==
    ASSUME NEW pos \in Nat, NEW b \in Seq(Contents)
    PROVE  Answer(pos, b) \in Outs /\ Nothing \in Outs /\ Answer(pos, <<>>) \in Outs
<1>1. <<>> \in Seq(Contents)
  OBVIOUS
<1> QED BY <1>1 DEF Answer, Nothing, Outs

\* What is fetched from the chain.
LEMMA FetchedFacts ==
    ASSUME TypeOK, NEW pos \in Nat, NEW n \in Nat, pos + n <= Capacity
    PROVE  Fetched(pos, n) \in Seq(Contents) /\ Fetched(pos, n) \in [1..n -> Contents]
<1>1. \A i \in 1..n : pos + i - 1 \in Nat /\ pos + i - 1 < Capacity
  BY Bounds
<1>2. \A i \in 1..n : cells[pos + i - 1] \in Contents
  BY <1>1, Bounds DEF TypeOK
<1> QED BY <1>2 DEF Fetched

\* What write, and read from a socket, do in common.
Stores(b, len) ==
    /\ b \in Inputs /\ len \in 1..MaxLen /\ Len(b) <= len
    /\ Grown(len) <= MaxNodes /\ nodes' = Grown(len)
    /\ cells' = Stored(wpos, b)
    /\ wpos' = wpos + Len(b) /\ wnode' = NodeAt(wpos', nodes')
    /\ size' = Greater(size, wpos') /\ out' = Nothing
    /\ UNCHANGED <<rpos, rnode, crash>>

LEMMA InputFacts ==
    ASSUME NEW b \in Inputs
    PROVE  b \in Seq(Bytes) /\ Len(b) \in 1..MaxLen /\ b \in [1..Len(b) -> Bytes]
<1>1. PICK n \in 1..MaxLen : b \in [1..n -> Bytes]
  BY DEF Inputs
<1>2. n \in Nat
  BY <1>1
<1> QED BY <1>1, <1>2

LEMMA WriteStores ==
    ASSUME NodesExact, NEW b \in Inputs, Write(b)
    PROVE  Stores(b, Len(b))
<1>1. Len(b) \in Nat \ {0} /\ Len(b) \in 1..MaxLen
  BY InputFacts, ByteArrayAssumption
<1>2. Start(WriteNode(Len(b)), wpos) = wpos
  BY <1>1, WritesAtPosition
<1> QED BY <1>1, <1>2 DEF Write, Stores

LEMMA ReceiveStores ==
    ASSUME NodesExact, NEW b \in Inputs, NEW len \in 1..MaxLen, Receive(len, b)
    PROVE  Stores(b, len)
<1>1. len \in Nat \ {0}
  BY ByteArrayAssumption
<1>2. Start(WriteNode(len), wpos) = wpos
  BY <1>1, WritesAtPosition
<1> QED BY <1>2 DEF Receive, Stores

\* The chain has room for what is stored, and the pointers are right afterwards.
LEMMA StoresKeeps ==
    ASSUME NodesExact, NEW b, NEW len, Stores(b, len)
    PROVE  NodesExact'
<1>1. TypeOK /\ WriteNodeExact /\ ReadNodeNotStale
  BY DEF NodesExact
<1>2. /\ len \in Nat \ {0} /\ Len(b) \in Nat \ {0} /\ Len(b) <= len
      /\ b \in [1..Len(b) -> Bytes]
  BY InputFacts, ByteArrayAssumption DEF Stores
<1>3. /\ nodes' \in Nat /\ nodes' >= nodes /\ nodes' <= MaxNodes
      /\ wpos + len <= nodes' * Base /\ nodes * Base <= nodes' * Base
  <2>1. nodes' \in Nat /\ nodes' >= nodes /\ nodes' <= MaxNodes /\ wpos + len <= nodes' * Base
    BY <1>1, <1>2, GrownFacts DEF Stores
  <2>2. nodes * Base <= nodes' * Base
    BY <1>1, <2>1, Bounds
  <2> QED BY <2>1, <2>2
<1>4. Capacity' = nodes' * Base /\ Capacity' \in Nat
  BY <1>1, <1>3, Bounds DEF Capacity
<1>5. /\ wpos' = wpos + Len(b) /\ wpos' \in Nat /\ wpos' <= Capacity'
      /\ size' = Greater(size, wpos')
  <2>1. wpos' = wpos + Len(b) /\ size' = Greater(size, wpos')
    BY DEF Stores
  <2>2. wpos \in Nat
    BY <1>1, Bounds
  <2>3. wpos + len <= Capacity' /\ Capacity' \in Nat
    BY <1>3, <1>4
  <2> QED BY <1>2, <2>1, <2>2, <2>3
<1>6. /\ size' \in Nat /\ size <= size' /\ wpos' <= size' /\ size' <= Capacity'
  <2>1. size \in Nat /\ size <= nodes * Base /\ nodes * Base \in Nat
    BY <1>1, Bounds
  <2>2. nodes * Base <= Capacity'
    BY <1>3, <1>4, Zenon
  <2>3. size <= Capacity'
    BY <1>4, <2>1, <2>2
  <2>4. size' = IF size > wpos' THEN size ELSE wpos'
    BY <1>5, Zenon DEF Greater
  <2> QED BY <1>4, <1>5, <2>1, <2>3, <2>4
<1>7. cells' \in [Addresses -> Contents]
  <2>1. \A a \in wpos..(wpos + Len(b) - 1) : a - wpos + 1 \in 1..Len(b)
    BY <1>1, <1>2, Bounds
  <2>2. \A a \in wpos..(wpos + Len(b) - 1) : b[a - wpos + 1] \in Contents
    BY <1>2, <2>1 DEF Contents
  <2> QED BY <1>1, <2>2 DEF Stores, Stored, TypeOK
<1>8. wnode' = NodeAt(wpos', nodes') /\ wnode' \in 0..(nodes' - 1) \cup {Null}
  <2>1. wpos' < nodes' * Base \/ wpos' >= nodes' * Base
    BY <1>4, <1>5
  <2> QED BY <1>3, <1>5, <2>1, NodeFacts DEF Stores
<1>9. rpos' = rpos /\ rnode' = rnode /\ out' = Nothing /\ crash' = crash
  BY DEF Stores
<1>10. rnode' \in 0..(nodes' - 1) \cup {Null}
  <2>1. nodes \in Nat
    BY <1>1, Bounds
  <2>2. nodes' \in Nat /\ nodes' >= nodes /\ rnode' = rnode
    BY <1>3, <1>9
  <2>3. \A i \in 0..(nodes - 1) : i \in 0..(nodes' - 1)
    BY <2>1, <2>2, MoreNodes
  <2>4. rnode \in 0..(nodes - 1) \cup {Null}
    BY <1>1 DEF TypeOK
  <2> QED BY <2>2, <2>3, <2>4, Zenon
<1>11. TypeOK'
  <2>1. nodes' \in 1..MaxNodes
    BY <1>1, <1>3, Bounds
  <2>2. rpos' \in 0..size' /\ wpos' \in 0..size' /\ size' \in 0..Capacity'
    BY <1>1, <1>4, <1>5, <1>6, <1>9, Bounds
  <2>3. out' \in Outs /\ crash' \in BOOLEAN
    <3>1. <<>> \in Seq(Contents)
      OBVIOUS
    <3> QED BY <1>1, <1>9, <3>1, OutFacts DEF TypeOK
  <2> QED BY <1>7, <1>8, <1>10, <2>1, <2>2, <2>3 DEF TypeOK, Outs
<1>12. ReadNodeNotStale'
  <2>1. rpos \in Nat /\ nodes \in Nat /\ rpos <= nodes * Base
    BY <1>1, Bounds
  <2>2. CASE rnode = NodeAt(rpos, nodes) /\ rpos < nodes * Base
    BY <1>3, <1>9, <2>1, <2>2, NodeStays DEF ReadNodeNotStale
  <2>3. CASE rnode = NodeAt(rpos, nodes) /\ rpos = nodes * Base
    <3>1. rnode = Null
      BY <2>1, <2>3, NodeFacts
    <3>2. rpos > 0 /\ rpos % Base = 0
      BY <1>1, <2>3, Multiple, Bounds
    <3> QED BY <1>9, <3>1, <3>2 DEF ReadNodeNotStale
  <2>4. CASE rnode # NodeAt(rpos, nodes)
    BY <1>1, <1>9, <2>4 DEF ReadNodeNotStale
  <2>5. rpos < nodes * Base \/ rpos = nodes * Base
    BY <1>1, <2>1, Bounds
  <2> QED BY <2>2, <2>3, <2>4, <2>5
<1> QED BY <1>8, <1>11, <1>12 DEF NodesExact, WriteNodeExact

\* Every other call leaves the chain alone, and puts the pointers where the
\* positions are.
Moves ==
    /\ UNCHANGED <<cells, nodes>>
    /\ size' \in 0..Capacity /\ size <= size' /\ rpos' \in 0..size' /\ wpos' \in 0..size'
    /\ \/ UNCHANGED <<rpos, rnode>>
       \/ rnode' = NodeAt(rpos', nodes)
    /\ \/ UNCHANGED <<wpos, wnode>>
       \/ wnode' = NodeAt(wpos', nodes)
    /\ out' \in Outs /\ crash' \in BOOLEAN

LEMMA NodeOfPosition ==
    ASSUME NEW a \in Nat, NEW n \in Nat
    PROVE  NodeAt(a, n) \in 0..(n - 1) \cup {Null}
<1>1. n * Base \in Nat /\ (a < n * Base \/ a >= n * Base)
  BY ByteArrayAssumption
<1> QED BY <1>1, NodeFacts

LEMMA MovesKeeps ==
    ASSUME NodesExact, Moves
    PROVE  NodesExact'
<1>1. TypeOK /\ WriteNodeExact /\ ReadNodeNotStale
  BY DEF NodesExact
<1>2. nodes \in Nat /\ rpos' \in Nat /\ wpos' \in Nat
  BY <1>1, Bounds DEF Moves
<1>3. nodes' = nodes /\ Capacity' = Capacity
  BY DEF Moves, Capacity
<1>4. /\ NodeAt(rpos', nodes) \in 0..(nodes - 1) \cup {Null}
      /\ NodeAt(wpos', nodes) \in 0..(nodes - 1) \cup {Null}
  BY <1>2, NodeOfPosition
<1>5. TypeOK'
  BY <1>1, <1>3, <1>4 DEF TypeOK, Moves, Outs
<1>6. WriteNodeExact' /\ ReadNodeNotStale'
  BY <1>1, <1>3 DEF WriteNodeExact, ReadNodeNotStale, Moves
<1> QED BY <1>5, <1>6 DEF NodesExact

LEMMA CrashMoves ==
    ASSUME NodesExact, NEW pos \in Nat, Crash(pos)
    PROVE  Moves
<1>1. TypeOK /\ <<>> \in Seq(Contents)
  BY DEF NodesExact
<1> QED BY <1>1, OutFacts, Bounds DEF Crash, Moves, TypeOK

\* What a call that only reads returns, and where it leaves the read position.
LEMMA ReadMoves ==
    ASSUME NodesExact, NEW n \in 0..MaxLen, Read(n)
    PROVE  Moves
<1>1. TypeOK /\ n \in Nat /\ n <= size - rpos
  BY ByteArrayAssumption DEF NodesExact, Read, ReadSize
<1>2. CASE rnode = Null
  BY <1>1, <1>2, Bounds, CrashMoves DEF Read
<1>3. CASE rnode # Null
  <2>1. /\ out' = Answer(rpos, Fetched(rpos, n)) /\ rpos' = rpos + n
        /\ rnode' = IF n = 0 THEN rnode ELSE NodeAt(rpos + n, nodes)
        /\ UNCHANGED <<cells, nodes, size, wpos, wnode, crash>>
    BY <1>3, ReadsAtPosition DEF Read
  <2>2. out' \in Outs /\ rpos + n \in 0..size
    <3>1. /\ rpos \in Nat /\ rpos + n <= size /\ size \in Nat /\ Capacity \in Nat
          /\ rpos + n <= Capacity
      BY <1>1, Bounds
    <3> QED BY <1>1, <2>1, <3>1, FetchedFacts, OutFacts
  <2>3. n = 0 => rpos' = rpos /\ rnode' = rnode
    BY <1>1, <2>1, Bounds
  <2> QED BY <1>1, <2>1, <2>2, <2>3, Bounds DEF Moves, TypeOK
<1> QED BY <1>2, <1>3

LEMMA SendMoves ==
    ASSUME NodesExact, NEW n \in 0..MaxLen, NEW len \in 1..MaxLen, Send(len, n)
    PROVE  Moves
<1>1. TypeOK /\ n \in Nat /\ n <= size - rpos
  <2>1. n \in Nat /\ len \in Nat /\ size \in Nat /\ rpos \in Nat /\ TypeOK
    BY ByteArrayAssumption, Bounds DEF NodesExact
  <2> QED BY <2>1 DEF Send, ReadSize, Lesser
<1>2. CASE rnode = Null
  BY <1>1, <1>2, Bounds, CrashMoves DEF Send
<1>3. CASE rnode # Null
  <2>1. /\ out' = Answer(rpos, Fetched(rpos, n)) /\ rpos' = rpos + n /\ rnode' = NodeAt(rpos', nodes)
        /\ UNCHANGED <<cells, nodes, size, wpos, wnode, crash>>
    BY <1>3, ReadsAtPosition DEF Send
  <2>2. out' \in Outs /\ rpos + n \in 0..size
    <3>1. /\ rpos \in Nat /\ rpos + n <= size /\ size \in Nat /\ Capacity \in Nat
          /\ rpos + n <= Capacity
      BY <1>1, Bounds
    <3> QED BY <1>1, <2>1, <3>1, FetchedFacts, OutFacts
  <2> QED BY <1>1, <2>1, <2>2, Bounds DEF Moves, TypeOK
<1> QED BY <1>2, <1>3

\* A look from pos: inside the bytes it begins there, and it finds no node only if
\* the reader is stuck or pos is the end.
LEMMA PeekFacts ==
    ASSUME NodesExact, NEW pos \in Nat, NEW n \in Nat, pos <= size => n <= size - pos
    PROVE  LET node == IF pos \div Base = rpos \div Base THEN rnode ELSE NodeAt(pos, nodes)
           IN  /\ node # Null => Start(node, pos) \in Nat
               /\ pos <= size /\ node # Null =>
                      Start(node, pos) = pos /\ pos + n <= size /\ pos + n <= Capacity
               /\ node = Null =>
                      rnode = Null \/ pos > size \/ (pos = size /\ pos > 0)
<1> DEFINE node == IF pos \div Base = rpos \div Base THEN rnode ELSE NodeAt(pos, nodes)
<1>1. /\ TypeOK /\ Base \in Nat \ {0} /\ nodes \in Nat \ {0} /\ size \in Nat
      /\ Capacity = nodes * Base /\ Capacity \in Nat \ {0} /\ size <= Capacity
  BY Bounds DEF NodesExact
<1>2. node # Null => Start(node, pos) \in Nat
  <2>1. node # Null => node \in Nat
    <3>1. NodeAt(pos, nodes) \in 0..(nodes - 1) \cup {Null}
      BY <1>1, NodeOfPosition
    <3>2. rnode \in 0..(nodes - 1) \cup {Null}
      BY <1>1 DEF TypeOK
    <3> QED BY <1>1, <3>1, <3>2
  <2>2. pos % Base \in Nat
    BY <1>1
  <2> HIDE DEF node
  <2> QED BY <1>1, <2>1, <2>2 DEF Start
<1>3. pos <= size /\ node # Null =>
          Start(node, pos) = pos /\ pos + n <= size /\ pos + n <= Capacity
  BY <1>1, ReadsAtPosition
<1>4. node = Null => rnode = Null \/ pos > size \/ (pos = size /\ pos > 0)
  <2> SUFFICES ASSUME NodeAt(pos, nodes) = Null
               PROVE  pos > size \/ (pos = size /\ pos > 0)
    OBVIOUS
  <2>1. ~(pos < nodes * Base)
    <3>1. Null \notin 0..(nodes - 1)
      BY <1>1, ByteArrayAssumption
    <3> QED BY <1>1, <3>1, NodeFacts
  <2> QED BY <1>1, <2>1
<1> QED BY <1>2, <1>3, <1>4

LEMMA PeekMoves ==
    ASSUME NodesExact, NEW pos \in Nat, NEW n \in 0..MaxLen, Peek(pos, n)
    PROVE  Moves
<1> DEFINE node == IF pos \div Base = rpos \div Base THEN rnode ELSE NodeAt(pos, nodes)
<1>1. TypeOK /\ n \in Nat
  BY ByteArrayAssumption DEF NodesExact
<1>2. CASE node = Null \/ Start(node, pos) + n > Capacity
  BY <1>2, CrashMoves DEF Peek
<1>3. CASE ~(node = Null \/ Start(node, pos) + n > Capacity)
  <2>1. /\ out' = Answer(pos, Fetched(Start(node, pos), n))
        /\ UNCHANGED <<cells, nodes, size, rpos, wpos, rnode, wnode, crash>>
    BY <1>3 DEF Peek
  <2>2. Start(node, pos) \in Nat /\ Capacity \in Nat /\ Start(node, pos) + n <= Capacity
    <3>1. Start(node, pos) \in Nat
      BY <1>1, <1>3, PeekFacts DEF Peek
    <3> QED BY <1>1, <1>3, <3>1, Bounds
  <2> HIDE DEF node
  <2>3. out' \in Outs
    BY <1>1, <2>1, <2>2, FetchedFacts, OutFacts
  <2> QED BY <1>1, <2>1, <2>3, Bounds DEF Moves, TypeOK
<1> QED BY <1>2, <1>3

LEMMA WriteToFileMoves ==
    ASSUME NodesExact, WriteToFile
    PROVE  Moves
<1>1. /\ TypeOK /\ ReadSize \in Nat /\ rpos \in Nat /\ rpos + ReadSize <= size
      /\ rpos + ReadSize <= Capacity
  BY Bounds DEF NodesExact, ReadSize
<1>2. CASE rnode = Null
  BY <1>1, <1>2, CrashMoves DEF WriteToFile
<1>3. CASE rnode # Null
  <2>1. /\ out' = Answer(rpos, Fetched(rpos, ReadSize))
        /\ UNCHANGED <<cells, nodes, size, rpos, wpos, rnode, wnode, crash>>
    BY <1>3, ReadsAtPosition DEF WriteToFile
  <2>2. out' \in Outs
    BY <1>1, <2>1, FetchedFacts, OutFacts
  <2> QED BY <1>1, <2>1, <2>2, Bounds DEF Moves, TypeOK
<1> QED BY <1>2, <1>3

LEMMA SetPositionMoves ==
    ASSUME NodesExact, NEW v \in 0..Capacity, SetReadPosition(v) \/ SetWritePosition(v)
    PROVE  Moves
<1>1. TypeOK /\ Nothing \in Outs
  <2>1. <<>> \in Seq(Contents)
    OBVIOUS
  <2> QED BY <2>1, OutFacts DEF NodesExact
<1>2. CASE SetReadPosition(v)
  BY <1>1, <1>2, Bounds DEF SetReadPosition, Moves, TypeOK
<1>3. CASE SetWritePosition(v)
  BY <1>1, <1>3, Bounds DEF SetWritePosition, Moves, TypeOK, Greater
<1> QED BY <1>2, <1>3

\* A receive that fails leaves a longer chain.
LEMMA ReceiveFailsKeeps ==
    ASSUME NodesExact, NEW len \in 1..MaxLen, ReceiveFails(len)
    PROVE  NodesExact'
<1>1. /\ TypeOK /\ WriteNodeExact /\ ReadNodeNotStale /\ len \in Nat \ {0}
      /\ wpos \in Nat /\ rpos \in Nat /\ size \in Nat /\ nodes \in Nat \ {0}
      /\ Base \in Nat \ {0} /\ nodes * Base \in Nat /\ Capacity = nodes * Base
      /\ wpos <= size /\ rpos <= size /\ size <= nodes * Base
  BY ByteArrayAssumption, Bounds DEF NodesExact
<1>2. /\ nodes' \in Nat /\ nodes' >= nodes /\ nodes' <= MaxNodes
      /\ wpos + len <= nodes' * Base /\ nodes * Base <= nodes' * Base
      /\ nodes' * Base \in Nat
  <2>1. nodes' \in Nat /\ nodes' >= nodes /\ nodes' <= MaxNodes /\ wpos + len <= nodes' * Base
    BY <1>1, GrownFacts DEF ReceiveFails
  <2>2. nodes * Base <= nodes' * Base /\ nodes' * Base \in Nat
    <3>1. Base \in Nat /\ nodes \in Nat
      BY <1>1
    <3> QED BY <2>1, <3>1, LongerChain
  <2> QED BY <2>1, <2>2
<1>3. UNCHANGED <<cells, size, rpos, wpos, rnode, out, crash>> /\ wnode' = WriteNode(len)
  BY DEF ReceiveFails
<1>4. wnode' = NodeAt(wpos, nodes')
  <2>1. CASE wpos = nodes * Base
    <3>1. wpos \div Base = nodes
      <4>1. (nodes * Base) \div Base = nodes
        BY <1>1, WholeNodes
      <4> QED BY <2>1, <4>1
    <3>2. nodes < nodes'
      <4>1. nodes = nodes' => wpos + len <= wpos
        BY <1>2, <2>1, Zenon
      <4> QED BY <1>1, <1>2, <4>1
    <3> QED BY <1>1, <1>3, <2>1, <3>1, <3>2 DEF WriteNode, NodeAt
  <2>2. CASE wpos # nodes * Base
    <3>1. wpos < nodes * Base
      BY <1>1, <2>2
    <3>2. NodeAt(wpos, nodes') = NodeAt(wpos, nodes)
      BY <1>1, <1>2, <3>1, NodeStays
    <3> QED BY <1>1, <1>3, <2>2, <3>2 DEF WriteNode, WriteNodeExact
  <2> QED BY <2>1, <2>2
<1>5. /\ NodeAt(wpos, nodes') \in 0..(nodes' - 1) \cup {Null}
      /\ rnode \in 0..(nodes' - 1) \cup {Null}
  <2>1. rnode \in 0..(nodes - 1) \cup {Null}
    BY <1>1 DEF TypeOK
  <2>2. \A i \in 0..(nodes - 1) : i \in 0..(nodes' - 1)
    BY <1>1, <1>2, MoreNodes
  <2> QED BY <1>1, <1>2, <2>1, <2>2, NodeOfPosition
<1>6. TypeOK'
  <2>1. nodes' \in 1..MaxNodes
    BY <1>1, <1>2, ByteArrayAssumption
  <2>2. Capacity' = nodes' * Base
    BY DEF Capacity
  <2>3. size' \in 0..Capacity'
    <3>1. PICK c \in Nat, d \in Nat : c = nodes * Base /\ d = nodes' * Base
      BY <1>1, <1>2
    <3>2. size <= c /\ c <= d /\ Capacity' = d
      BY <1>1, <1>2, <2>2, <3>1
    <3>3. size' = size /\ size \in Nat
      BY <1>1, <1>3
    <3> QED BY <3>2, <3>3
  <2> QED BY <1>1, <1>3, <1>4, <1>5, <2>1, <2>3 DEF TypeOK
<1>7. ReadNodeNotStale'
  <2>1. CASE rnode = NodeAt(rpos, nodes) /\ rpos < nodes * Base
    BY <1>1, <1>2, <1>3, <2>1, NodeStays DEF ReadNodeNotStale
  <2>2. CASE rnode = NodeAt(rpos, nodes) /\ rpos = nodes * Base
    <3>1. rnode = Null
      BY <1>1, <2>2, NodeFacts
    <3>2. rpos > 0 /\ rpos % Base = 0
      <4>1. (nodes * Base) % Base = 0
        BY <1>1, Multiple
      <4>2. nodes * Base > 0
        BY <1>1
      <4> QED BY <2>2, <4>1, <4>2, Zenon
    <3> QED BY <1>3, <3>1, <3>2 DEF ReadNodeNotStale
  <2>3. CASE rnode # NodeAt(rpos, nodes)
    BY <1>1, <1>3, <2>3 DEF ReadNodeNotStale
  <2>4. rpos < nodes * Base \/ rpos = nodes * Base
    BY <1>1
  <2> QED BY <2>1, <2>2, <2>3, <2>4
<1> QED BY <1>3, <1>4, <1>6, <1>7 DEF NodesExact, WriteNodeExact

LEMMA ClearKeeps ==
    ASSUME NodesExact, Clear
    PROVE  NodesExact'
<1>1. /\ TypeOK /\ Base \in Nat \ {0} /\ MaxNodes \in Nat \ {0}
      /\ nodes' = 1 /\ size' = 0 /\ rpos' = 0 /\ wpos' = 0 /\ rnode' = 0 /\ wnode' = 0
      /\ cells' = [a \in Addresses |-> IF a < Base THEN cells[a] ELSE Garbage]
      /\ out' = Nothing /\ crash' = crash
  BY ByteArrayAssumption DEF NodesExact, Clear
<1>2. Capacity' \in Nat
  BY <1>1 DEF Capacity
<1>3. cells' \in [Addresses -> Contents]
  BY <1>1 DEF TypeOK, Contents
<1>4. TypeOK'
  <2>1. <<>> \in Seq(Contents)
    OBVIOUS
  <2>2. out' \in Outs
    BY <1>1, <2>1, OutFacts
  <2> QED BY <1>1, <1>2, <1>3, <2>2 DEF TypeOK, Outs
<1>5. NodeAt(0, 1) = 0
  BY <1>1 DEF NodeAt
<1> QED BY <1>1, <1>4, <1>5 DEF NodesExact, WriteNodeExact, ReadNodeNotStale

LEMMA InitNodes == Init => NodesExact
<1> SUFFICES ASSUME Init PROVE NodesExact
  OBVIOUS
<1>1. Base \in Nat \ {0} /\ MaxNodes \in Nat \ {0} /\ Capacity \in Nat
  BY ByteArrayAssumption DEF Init, Capacity
<1>2. TypeOK
  <2>1. cells \in [Addresses -> Contents]
    BY DEF Init, Contents
  <2>2. nodes \in 1..MaxNodes /\ size \in 0..Capacity
    BY <1>1 DEF Init
  <2>3. rpos \in 0..size /\ wpos \in 0..size /\ rnode \in 0..(nodes - 1) /\ wnode \in 0..(nodes - 1)
    BY DEF Init
  <2>4. <<>> \in Seq(Contents)
    OBVIOUS
  <2>5. out \in Outs /\ crash \in BOOLEAN
    BY <2>4, OutFacts DEF Init
  <2> QED BY <2>1, <2>2, <2>3, <2>5 DEF TypeOK, Outs
<1>3. NodeAt(0, 1) = 0
  BY <1>1 DEF NodeAt
<1> QED BY <1>2, <1>3 DEF Init, NodesExact, WriteNodeExact, ReadNodeNotStale

LEMMA NextNodes ==
    ASSUME NodesExact, [Next]_vars
    PROVE  NodesExact'
<1>1. ASSUME NEW b \in Inputs, Write(b) \/ \E len \in 1..MaxLen : Receive(len, b)
      PROVE  NodesExact'
  BY <1>1, WriteStores, ReceiveStores, StoresKeeps
<1>2. ASSUME NEW n \in 0..MaxLen, Read(n) \/ \E len \in 1..MaxLen : Send(len, n)
      PROVE  NodesExact'
  BY <1>2, ReadMoves, SendMoves, MovesKeeps
<1>3. ASSUME NEW pos \in 0..(MaxNodes * Base + 1), NEW n \in 0..MaxLen, Peek(pos, n)
      PROVE  NodesExact'
  <2>1. pos \in Nat
    BY ByteArrayAssumption
  <2> QED BY <1>3, <2>1, PeekMoves, MovesKeeps
<1>4. CASE WriteToFile
  BY <1>4, WriteToFileMoves, MovesKeeps
<1>5. ASSUME NEW v \in 0..Capacity, SetReadPosition(v) \/ SetWritePosition(v)
      PROVE  NodesExact'
  BY <1>5, SetPositionMoves, MovesKeeps
<1>6. CASE Clear
  BY <1>6, ClearKeeps
<1>7. CASE UNCHANGED vars
  BY <1>7 DEF vars, NodesExact, TypeOK, Capacity, WriteNodeExact, ReadNodeNotStale
<1>8. ASSUME NEW len \in 1..MaxLen, ReceiveFails(len) PROVE NodesExact'
  BY <1>8, ReceiveFailsKeeps
<1> QED BY <1>1, <1>2, <1>3, <1>4, <1>5, <1>6, <1>7, <1>8 DEF Next

\* The pointers agree with the positions after every sequence of calls
\* (Bytearray.cc:74-230).
THEOREM NodesAreExact == Spec => []NodesExact
<1>1. Init => NodesExact
  BY InitNodes
<1>2. NodesExact /\ [Next]_vars => NodesExact'
  BY NextNodes
<1> QED BY <1>1, <1>2, PTL DEF Spec

-----------------------------------------------------------------------------
LEMMA CellOfByte ==
    ASSUME NEW n \in 1..MaxNodes, NEW s \in 0..(n * Base)
    PROVE  s \in Nat /\ \A i \in 1..s : i - 1 \in Addresses
<1>1. Base \in Nat /\ MaxNodes \in Nat /\ n \in Nat /\ n <= MaxNodes
  BY ByteArrayAssumption
<1>2. n * Base \in Nat /\ MaxNodes * Base \in Nat /\ n * Base <= MaxNodes * Base
  BY <1>1
<1> QED BY <1>2 DEF Addresses

\* The flat array of bytes that the chain of nodes stands for.
Data == [i \in 1..size |-> cells[i - 1]]

LEMMA DataFacts ==
    ASSUME TypeOK
    PROVE  /\ Data \in Seq(Contents) /\ Len(Data) = size
           /\ \A i \in 1..size : Data[i] = cells[i - 1]
<1>1. \A i \in 1..size : i - 1 \in Nat /\ i - 1 < Capacity
  BY Bounds
<1>2. \A i \in 1..size : cells[i - 1] \in Contents
  BY <1>1, Bounds DEF TypeOK
<1> QED BY <1>2, Bounds DEF Data

\* What is fetched is that part of the array.
LEMMA FetchedIsPart ==
    ASSUME TypeOK, NEW pos \in Nat, NEW n \in Nat, pos + n <= size
    PROVE  Fetched(pos, n) = SubSeq(Data, pos + 1, pos + n)
<1> DEFINE part == SubSeq(Data, pos + 1, pos + n)
<1>1. size \in Nat /\ pos + n <= Capacity
  BY Bounds
<1>2. \A i \in (pos + 1)..(pos + n) : Data[i] \in Contents
  <2>1. \A i \in (pos + 1)..(pos + n) : i \in 1..Len(Data)
    BY <1>1, DataFacts
  <2> QED BY <2>1, DataFacts, ElementOfSeq
<1>3. /\ part \in Seq(Contents)
      /\ Len(part) = IF pos + 1 <= pos + n THEN (pos + n) - (pos + 1) + 1 ELSE 0
      /\ \A i \in 1..((pos + n) - (pos + 1) + 1) : part[i] = Data[(pos + 1) + i - 1]
  BY <1>2, SubSeqProperties
<1>4. /\ (pos + n) - (pos + 1) + 1 = n /\ (pos + 1 <= pos + n <=> n # 0)
      /\ \A i \in 1..n : (pos + 1) + i - 1 = pos + i /\ pos + i \in 1..size
  BY <1>1
<1>5. Len(part) = n /\ \A i \in 1..n : part[i] = Data[pos + i]
  BY <1>3, <1>4
<1>6. \A i \in 1..n : part[i] = cells[pos + i - 1]
  BY <1>4, <1>5, DataFacts
<1>7. Fetched(pos, n) \in Seq(Contents) /\ Len(Fetched(pos, n)) = n
  <2>1. Fetched(pos, n) \in Seq(Contents)
    BY <1>1, FetchedFacts
  <2>2. Len(Fetched(pos, n)) = n
    BY DEF Fetched
  <2> QED BY <2>1, <2>2
<1>8. \A i \in 1..n : Fetched(pos, n)[i] = cells[pos + i - 1]
  BY DEF Fetched
<1> HIDE DEF part
<1>9. Fetched(pos, n) = part
  BY <1>3, <1>5, <1>6, <1>7, <1>8, SeqEqual
<1> QED BY <1>9 DEF part

\* What is stored is put over what is there, or behind it.
LEMMA StoredIsPut ==
    ASSUME NodesExact, NEW b, NEW len, Stores(b, len)
    PROVE  Data' = SubSeq(Data, 1, wpos) \o b
                     \o SubSeq(Data, wpos + Len(b) + 1, Len(Data))
<1> DEFINE front == SubSeq(Data, 1, wpos)
           back == SubSeq(Data, wpos + Len(b) + 1, size)
           all == (front \o b) \o back
<1>1. TypeOK /\ NodesExact'
  BY StoresKeeps DEF NodesExact
<1>2. /\ Data \in Seq(Contents) /\ Len(Data) = size
      /\ \A i \in 1..size : Data[i] = cells[i - 1] /\ Data[i] \in Contents
  BY <1>1, DataFacts, ElementOfSeq
<1>3. /\ Data' \in Seq(Contents) /\ Len(Data') = size'
      /\ \A i \in 1..size' : Data'[i] = cells'[i - 1]
  <2>1. TypeOK'
    BY <1>1 DEF NodesExact
  <2>2. size' \in Nat /\ \A i \in 1..size' : i - 1 \in Addresses
    <3>1. nodes' \in 1..MaxNodes /\ size' \in 0..(nodes' * Base)
      BY <2>1 DEF TypeOK, Capacity
    <3> QED BY <3>1, CellOfByte
  <2>3. \A i \in 1..size' : cells'[i - 1] \in Contents
    BY <2>1, <2>2 DEF TypeOK
  <2> QED BY <2>2, <2>3 DEF Data
<1>4. PICK L \in Nat \ {0} : L = Len(b)
  BY InputFacts, ByteArrayAssumption DEF Stores
<1>5. b \in Seq(Contents)
  BY InputFacts DEF Stores, Contents
<1>6. size \in Nat /\ wpos \in Nat /\ wpos <= size
  BY <1>1, Bounds
<1>7. size' = IF size > wpos + L THEN size ELSE wpos + L
  BY <1>4 DEF Stores, Greater
<1>8. front \in Seq(Contents) /\ Len(front) = wpos /\ \A i \in 1..wpos : front[i] = Data[i]
  <2>1. \A i \in 1..wpos : Data[i] \in Contents
    BY <1>2, <1>6
  <2>2. /\ front \in Seq(Contents) /\ Len(front) = IF 1 <= wpos THEN wpos - 1 + 1 ELSE 0
        /\ \A i \in 1..(wpos - 1 + 1) : front[i] = Data[1 + i - 1]
    BY <1>6, <2>1, SubSeqProperties
  <2>3. \A i \in 1..wpos : 1 + i - 1 = i /\ i \in 1..(wpos - 1 + 1)
    BY <1>6
  <2> QED BY <1>6, <2>2, <2>3
<1>9. /\ back \in Seq(Contents)
      /\ Len(back) = IF size > wpos + L THEN size - (wpos + L) ELSE 0
      /\ \A i \in 1..(size - (wpos + L)) : back[i] = Data[wpos + L + i]
  <2>1. \A i \in (wpos + L + 1)..size : Data[i] \in Contents
    BY <1>2, <1>6
  <2>2. /\ back \in Seq(Contents)
        /\ Len(back) = IF wpos + L + 1 <= size THEN size - (wpos + L + 1) + 1 ELSE 0
        /\ \A i \in 1..(size - (wpos + L + 1) + 1) : back[i] = Data[(wpos + L + 1) + i - 1]
    BY <1>4, <1>6, <2>1, SubSeqProperties
  <2>3. /\ wpos + L + 1 <= size <=> size > wpos + L
        /\ size - (wpos + L + 1) + 1 = size - (wpos + L)
        /\ \A i \in 1..(size - (wpos + L)) : (wpos + L + 1) + i - 1 = wpos + L + i
    BY <1>6
  <2> QED BY <2>2, <2>3
<1> HIDE DEF front, back
<1>10. /\ front \o b \in Seq(Contents) /\ Len(front \o b) = wpos + L
       /\ \A i \in 1..(wpos + L) : (front \o b)[i] = IF i <= wpos THEN front[i] ELSE b[i - wpos]
  BY <1>4, <1>5, <1>8, ConcatProperties
<1>11. /\ all \in Seq(Contents) /\ Len(all) = wpos + L + Len(back)
       /\ \A i \in 1..(wpos + L + Len(back)) :
              all[i] = IF i <= wpos + L THEN (front \o b)[i] ELSE back[i - (wpos + L)]
  <2> DEFINE written == front \o b
  <2> HIDE DEF written
  <2>1. all = written \o back /\ written \in Seq(Contents) /\ Len(written) = wpos + L
    BY <1>10 DEF written
  <2>2. /\ written \o back \in Seq(Contents)
        /\ Len(written \o back) = Len(written) + Len(back)
        /\ \A i \in 1..(Len(written) + Len(back)) :
               (written \o back)[i] = IF i <= Len(written) THEN written[i]
                                      ELSE back[i - Len(written)]
    BY <1>9, <2>1, ConcatProperties
  <2> HIDE DEF all
  <2> QED BY <2>1, <2>2 DEF written
<1> HIDE DEF all
<1>12. Len(all) = size'
  BY <1>6, <1>7, <1>9, <1>11
<1>13. ASSUME NEW i \in 1..size' PROVE all[i] = cells'[i - 1]
  <2>1. cells' = Stored(wpos, b) /\ i \in 1..(wpos + L + Len(back)) /\ size' \in Nat
    BY <1>6, <1>7, <1>11, <1>12 DEF Stores
  <2>2. i - 1 \in Addresses
    <3>1. nodes' \in 1..MaxNodes /\ size' \in 0..(nodes' * Base)
      BY <1>1 DEF NodesExact, TypeOK, Capacity
    <3> QED BY <3>1, CellOfByte
  <2>3. cells'[i - 1] = IF i - 1 \in wpos..(wpos + L - 1) THEN b[(i - 1) - wpos + 1] ELSE cells[i - 1]
    BY <1>4, <2>1, <2>2 DEF Stored
  <2>4. CASE i <= wpos
    <3>1. i \in 1..wpos /\ i \in 1..size /\ i <= wpos + L /\ i \in 1..(wpos + L)
          /\ ~(i - 1 \in wpos..(wpos + L - 1))
      BY <1>6, <2>1, <2>4
    <3>2. all[i] = front[i]
      BY <1>10, <1>11, <2>1, <2>4, <3>1
    <3> QED BY <1>2, <1>8, <2>3, <3>1, <3>2
  <2>5. CASE i > wpos /\ i <= wpos + L
    <3>1. i \in 1..(wpos + L) /\ i - 1 \in wpos..(wpos + L - 1) /\ (i - 1) - wpos + 1 = i - wpos
          /\ ~(i <= wpos)
      BY <1>6, <2>1, <2>5
    <3>2. all[i] = b[i - wpos]
      BY <1>10, <1>11, <2>1, <2>5, <3>1
    <3> QED BY <2>3, <3>1, <3>2
  <2>6. CASE i > wpos + L
    <3>1. /\ ~(i <= wpos + L) /\ ~(i - 1 \in wpos..(wpos + L - 1))
          /\ i - (wpos + L) \in 1..(size - (wpos + L)) /\ wpos + L + (i - (wpos + L)) = i
          /\ i \in 1..size
      BY <1>6, <1>7, <2>1, <2>6
    <3>2. all[i] = Data[i]
      BY <1>9, <1>11, <2>1, <3>1
    <3> QED BY <1>2, <2>3, <3>1, <3>2
  <2> QED BY <1>6, <2>1, <2>4, <2>5, <2>6
<1>14. Data' = all
  BY <1>3, <1>11, <1>12, <1>13, SeqEqual
<1> QED BY <1>2, <1>4, <1>14 DEF all, front, back

-----------------------------------------------------------------------------
(* Each step of the chain is a step of the flat array. *)

LEMMA InitImplements == Init => Flat!Init
<1> SUFFICES ASSUME Init PROVE Flat!Init
  OBVIOUS
<1>1. [i \in 1..0 |-> cells[i - 1]] = <<>>
  OBVIOUS
<1>2. rnode # Null
  BY ByteArrayAssumption DEF Init
<1> QED BY <1>1, <1>2 DEF Init, Flat!Init, Nothing, Answer, Flat!Nothing, Flat!Answer

LEMMA StoresImplements ==
    ASSUME NodesExact, NEW b, NEW len, Stores(b, len)
    PROVE  Flat!Puts
<1>1. TypeOK /\ Len(Data) = size /\ size \in Nat /\ wpos <= size
  BY DataFacts, Bounds DEF NodesExact
<1>2. Len(b) \in 1..MaxLen /\ b \in [1..Len(b) -> Contents]
  BY InputFacts DEF Stores, Contents
<1>3. Len(b) > 0
  BY <1>2, ByteArrayAssumption
<1>4. /\ Data' = SubSeq(Data, 1, wpos) \o b \o SubSeq(Data, wpos + Len(b) + 1, Len(Data))
  BY StoredIsPut
<1>5. /\ wpos' = wpos + Len(b) /\ out' = Flat!Nothing /\ rpos' = rpos
      /\ crash' = crash /\ rnode' = rnode
  BY DEF Stores, Nothing, Answer, Flat!Nothing, Flat!Answer
<1>6. Flat!Put(b)
  BY <1>1, <1>3, <1>4, <1>5 DEF Flat!Put, Data
<1> QED BY <1>2, <1>6 DEF Flat!Puts

\* A call finds no node: the reader is stuck, or the call reads at the end.
LEMMA CrashImplements ==
    ASSUME NodesExact, NEW pos \in 0..(MaxNodes * Base + 1), Crash(pos),
           rnode = Null \/ pos > size \/ (pos = size /\ pos > 0)
    PROVE  Flat!Breaks
<1>1. Len(Data) = size /\ Data' = Data
  BY DataFacts DEF NodesExact, Crash, Data
<1>2. /\ crash' = TRUE /\ out' = Flat!Answer(pos, <<>>)
      /\ UNCHANGED <<rpos, wpos, rnode>>
  BY DEF Crash, Answer, Flat!Answer
<1>3. Flat!Break(pos)
  BY <1>1, <1>2 DEF Flat!Break, Data
<1> QED BY <1>3 DEF Flat!Breaks

LEMMA ReaderInBounds ==
    ASSUME NodesExact
    PROVE  rpos \in 0..(MaxNodes * Base + 1)
<1>1. /\ rpos \in Nat /\ size \in Nat /\ Capacity \in Nat /\ MaxNodes * Base \in Nat
      /\ rpos <= size /\ size <= Capacity /\ Capacity <= MaxNodes * Base
  BY Bounds DEF NodesExact
<1> QED BY <1>1

\* A reader that has come to pos has a null pointer only at the end of the bytes.
LEMMA ReaderArrives ==
    ASSUME NodesExact, NEW pos \in Nat, pos <= size, rpos' = pos,
           rnode' = NodeAt(pos, nodes) \/ rnode' # Null
    PROVE  Flat!Arrive(pos)
<1>1. /\ Len(Data) = size /\ nodes \in Nat \ {0} /\ size \in Nat /\ Base \in Nat \ {0}
      /\ size <= nodes * Base /\ nodes * Base \in Nat \ {0}
  BY DataFacts, Bounds DEF NodesExact
<1>2. rnode' = Null => pos = size /\ pos > 0
  <2> SUFFICES ASSUME rnode' = Null PROVE pos = size /\ pos > 0
    OBVIOUS
  <2>1. ~(pos < nodes * Base)
    <3>1. Null \notin 0..(nodes - 1)
      BY <1>1, ByteArrayAssumption
    <3> QED BY <1>1, <3>1, NodeFacts
  <2>2. PICK c \in Nat \ {0} : c = nodes * Base
    BY <1>1
  <2> QED BY <1>1, <2>1, <2>2
<1> QED BY <1>1, <1>2 DEF Flat!Arrive, Data

\* Reading n bytes from the read position, which moves behind them.
LEMMA TakeImplements ==
    ASSUME NodesExact, NEW n \in Nat, rpos + n <= size, rnode # Null,
           out' = Answer(rpos, Fetched(rpos, n)), rpos' = rpos + n,
           rnode' = NodeAt(rpos + n, nodes) \/ rnode' # Null,
           UNCHANGED <<cells, size, wpos, crash>>
    PROVE  Flat!Takes
<1>1. /\ TypeOK /\ Len(Data) = size /\ Data' = Data /\ n \in 0..Len(Data)
      /\ rpos + n <= Len(Data) /\ rpos + n \in Nat
  BY DataFacts, Bounds DEF NodesExact, Data
<1>2. out' = Answer(rpos, SubSeq(Data, rpos + 1, rpos + n))
  BY <1>1, Bounds, FetchedIsPart
<1>3. Flat!Arrive(rpos + n)
  BY <1>1, ReaderArrives
<1>4. Flat!Take(n)
  BY <1>1, <1>2, <1>3 DEF Flat!Take, Flat!Part, Data, Answer, Flat!Answer
<1> QED BY <1>1, <1>4 DEF Flat!Takes, Data

\* Reading n bytes from elsewhere.
LEMMA LookImplements ==
    ASSUME NodesExact, NEW pos \in Nat, NEW n \in Nat, pos + n <= size,
           out' = Answer(pos, Fetched(pos, n)),
           UNCHANGED <<cells, size, rpos, wpos, rnode, crash>>
    PROVE  Flat!Looks
<1>1. /\ TypeOK /\ Len(Data) = size /\ Data' = Data /\ n \in 0..Len(Data)
      /\ pos \in 0..Len(Data) /\ pos + n <= Len(Data)
  BY DataFacts, Bounds DEF NodesExact, Data
<1>2. out' = Answer(pos, SubSeq(Data, pos + 1, pos + n))
  BY <1>1, FetchedIsPart
<1>3. Flat!Look(pos, n)
  BY <1>1, <1>2 DEF Flat!Look, Flat!Part, Data, Answer, Flat!Answer
<1> QED BY <1>1, <1>3 DEF Flat!Looks, Data

LEMMA ReadImplements ==
    ASSUME NodesExact, NEW n \in 0..MaxLen, Read(n)
    PROVE  Flat!Takes \/ Flat!Breaks
<1>1. n \in Nat /\ rpos + n <= size
  <2>1. n \in Nat /\ size \in Nat /\ rpos \in Nat
    BY ByteArrayAssumption, Bounds DEF NodesExact
  <2> QED BY <2>1 DEF Read, ReadSize
<1>2. CASE rnode = Null
  BY <1>2, ReaderInBounds, CrashImplements DEF Read
<1>3. CASE rnode # Null
  <2>1. /\ out' = Answer(rpos, Fetched(rpos, n)) /\ rpos' = rpos + n
        /\ rnode' = NodeAt(rpos + n, nodes) \/ rnode' # Null
        /\ UNCHANGED <<cells, size, wpos, crash>>
    BY <1>3, ReadsAtPosition DEF Read
  <2> QED BY <1>1, <1>3, <2>1, TakeImplements
<1> QED BY <1>2, <1>3

LEMMA SendImplements ==
    ASSUME NodesExact, NEW n \in 0..MaxLen, NEW len \in 1..MaxLen, Send(len, n)
    PROVE  Flat!Takes \/ Flat!Breaks
<1>1. n \in Nat /\ rpos + n <= size
  <2>1. n \in Nat /\ len \in Nat /\ size \in Nat /\ rpos \in Nat
    BY ByteArrayAssumption, Bounds DEF NodesExact
  <2> QED BY <2>1 DEF Send, ReadSize, Lesser
<1>2. CASE rnode = Null
  BY <1>2, ReaderInBounds, CrashImplements DEF Send
<1>3. CASE rnode # Null
  <2>1. /\ out' = Answer(rpos, Fetched(rpos, n)) /\ rpos' = rpos + n
        /\ rnode' = NodeAt(rpos + n, nodes)
        /\ UNCHANGED <<cells, size, wpos, crash>>
    BY <1>3, ReadsAtPosition DEF Send
  <2> QED BY <1>1, <1>3, <2>1, TakeImplements
<1> QED BY <1>2, <1>3

LEMMA PeekImplements ==
    ASSUME NodesExact, NEW pos \in 0..(MaxNodes * Base + 1), NEW n \in 0..MaxLen,
           Peek(pos, n)
    PROVE  Flat!Looks \/ Flat!Strays \/ Flat!Breaks
<1> DEFINE node == IF pos \div Base = rpos \div Base THEN rnode ELSE NodeAt(pos, nodes)
<1>1. /\ TypeOK /\ n \in Nat /\ pos \in Nat /\ size \in Nat /\ Capacity \in Nat
      /\ Len(Data) = size /\ (pos <= size => n <= size - pos)
  BY ByteArrayAssumption, Bounds, DataFacts DEF NodesExact, Peek
<1>2. /\ node # Null => Start(node, pos) \in Nat
      /\ pos <= size /\ node # Null =>
             Start(node, pos) = pos /\ pos + n <= size /\ pos + n <= Capacity
      /\ node = Null => rnode = Null \/ pos > size \/ (pos = size /\ pos > 0)
  BY <1>1, PeekFacts
<1>3. CASE node = Null \/ Start(node, pos) + n > Capacity
  <2>1. Crash(pos)
    BY <1>3 DEF Peek
  <2>2. rnode = Null \/ pos > size \/ (pos = size /\ pos > 0)
    <3> HIDE DEF node
    <3> QED BY <1>1, <1>2, <1>3
  <2> QED BY <2>1, <2>2, CrashImplements
<1>4. CASE ~(node = Null \/ Start(node, pos) + n > Capacity)
  <2>1. /\ out' = Answer(pos, Fetched(Start(node, pos), n))
        /\ UNCHANGED <<cells, size, rpos, wpos, rnode, crash>>
    BY <1>4 DEF Peek
  <2> HIDE DEF node
  <2>2. CASE pos <= size
    BY <1>1, <1>2, <1>4, <2>1, <2>2, LookImplements
  <2>3. CASE ~(pos <= size)
    <3>1. Start(node, pos) \in Nat /\ Start(node, pos) + n <= Capacity
      BY <1>1, <1>2, <1>4
    <3>2. Fetched(Start(node, pos), n) \in [1..n -> Contents]
      BY <1>1, <3>1, FetchedFacts
    <3>3. pos > size /\ Data' = Data
      BY <1>1, <2>1, <2>3 DEF Data
    <3>4. Flat!Stray(pos, Fetched(Start(node, pos), n))
      BY <1>1, <2>1, <3>3 DEF Flat!Stray, Data, Answer, Flat!Answer
    <3> QED BY <3>2, <3>4 DEF Flat!Strays
  <2> QED BY <2>2, <2>3
<1> QED BY <1>3, <1>4

LEMMA WriteToFileImplements ==
    ASSUME NodesExact, WriteToFile
    PROVE  Flat!Looks \/ Flat!Breaks
<1>1. ReadSize \in Nat /\ rpos \in Nat /\ rpos + ReadSize <= size
  BY Bounds DEF NodesExact, ReadSize
<1>2. CASE rnode = Null
  BY <1>2, ReaderInBounds, CrashImplements DEF WriteToFile
<1>3. CASE rnode # Null
  <2>1. /\ out' = Answer(rpos, Fetched(rpos, ReadSize))
        /\ UNCHANGED <<cells, size, rpos, wpos, rnode, crash>>
    BY <1>3, ReadsAtPosition DEF WriteToFile
  <2> QED BY <1>1, <2>1, LookImplements
<1> QED BY <1>2, <1>3

LEMMA SetReadPositionImplements ==
    ASSUME NodesExact, NEW v \in 0..Capacity, SetReadPosition(v)
    PROVE  Flat!MoveReaders
<1>1. /\ Len(Data) = size /\ Data' = Data /\ v \in 0..Len(Data) /\ v <= Len(Data)
      /\ rpos' = v /\ out' = Flat!Nothing /\ wpos' = wpos /\ crash' = crash
      /\ v \in Nat /\ v <= size /\ rnode' = NodeAt(v, nodes)
  BY DataFacts, Bounds
     DEF NodesExact, Data, SetReadPosition, Nothing, Answer, Flat!Nothing, Flat!Answer
<1>2. Flat!Arrive(v)
  BY <1>1, ReaderArrives
<1>3. Flat!MoveReader(v)
  BY <1>1, <1>2 DEF Flat!MoveReader, Data
<1> QED BY <1>1, <1>3 DEF Flat!MoveReaders, Data

\* Behind the valid bytes there are cells that hold something.
LEMMA SetWritePositionImplements ==
    ASSUME NodesExact, NEW v \in 0..Capacity, SetWritePosition(v)
    PROVE  Flat!MoveWriter(v) /\ v \in 0..(MaxNodes * Base)
<1>1. /\ TypeOK /\ v \in Nat /\ v <= Capacity /\ size \in Nat /\ size <= Capacity
      /\ Capacity \in Nat
      /\ Data \in Seq(Contents) /\ Len(Data) = size
      /\ \A i \in 1..size : Data[i] = cells[i - 1]
  BY DataFacts, Bounds DEF NodesExact
<1>2. /\ wpos' = v /\ out' = Flat!Nothing /\ size' = Greater(size, v)
      /\ UNCHANGED <<cells, rpos, rnode, crash>>
  BY DEF SetWritePosition, Nothing, Answer, Flat!Nothing, Flat!Answer
<1>3. v \in 0..(MaxNodes * Base)
  BY <1>1, Bounds
<1>4. CASE v <= size
  <2>1. Data' = Data
    BY <1>1, <1>2, <1>4 DEF Greater, Data
  <2> QED BY <1>1, <1>2, <1>3, <1>4, <2>1 DEF Flat!MoveWriter, Data
<1>5. CASE v > size
  <2>0. PICK k \in Nat : k = v - size
    BY <1>1, <1>5
  <2> DEFINE gap == [i \in 1..k |-> cells[size + i - 1]]
  <2>1. Data' = [i \in 1..v |-> cells[i - 1]]
    BY <1>1, <1>2, <1>5 DEF Greater, Data
  <2>2. \A i \in 1..v : cells[i - 1] \in Contents
    <3>1. \A i \in 1..v : i - 1 \in Nat /\ i - 1 < Capacity
      BY <1>1
    <3> QED BY <1>1, <3>1, Bounds DEF TypeOK
  <2>3. Data' \in Seq(Contents) /\ Len(Data') = v /\ \A i \in 1..v : Data'[i] = cells[i - 1]
    BY <1>1, <2>1, <2>2
  <2>4. /\ v = size + k
        /\ \A i \in 1..k : size + i \in 1..v /\ size + i - 1 = (size + i) - 1
    BY <1>1, <1>5, <2>0
  <2>5. gap \in [1..k -> Contents]
    BY <2>2, <2>4
  <2>6. gap \in Seq(Contents) /\ Len(gap) = k
    BY <2>5
  <2>7. \A i \in 1..k : gap[i] = cells[size + i - 1]
    OBVIOUS
  <2> HIDE DEF gap
  <2>8. /\ Data \o gap \in Seq(Contents) /\ Len(Data \o gap) = size + k
        /\ \A i \in 1..(size + k) :
              (Data \o gap)[i] = IF i <= size THEN Data[i] ELSE gap[i - size]
    <3>1. /\ Data \o gap \in Seq(Contents) /\ Len(Data \o gap) = Len(Data) + Len(gap)
          /\ \A i \in 1..(Len(Data) + Len(gap)) :
                (Data \o gap)[i] = IF i <= Len(Data) THEN Data[i] ELSE gap[i - Len(Data)]
      BY <1>1, <2>6, ConcatProperties
    <3> QED BY <1>1, <2>6, <3>1
  <2>9. size + k = v
    BY <2>4
  <2>10. ASSUME NEW i \in 1..v PROVE (Data \o gap)[i] = cells[i - 1]
    <3>1. CASE i <= size
      <4>1. i \in 1..size
        BY <1>1, <3>1
      <4> QED BY <1>1, <2>8, <2>9, <3>1, <4>1
    <3>2. CASE i > size
      <4>1. i - size \in 1..k /\ size + (i - size) - 1 = i - 1 /\ ~(i <= size)
        BY <1>1, <2>4, <3>2
      <4> QED BY <2>7, <2>8, <2>9, <4>1
    <3>3. i <= size \/ i > size
      BY <1>1
    <3> QED BY <3>1, <3>2, <3>3
  <2>11. Data' = Data \o gap
    BY <2>3, <2>8, <2>9, <2>10, SeqEqual
  <2> QED BY <1>1, <1>2, <1>3, <1>5, <2>0, <2>5, <2>11 DEF Flat!MoveWriter, Data
<1> QED BY <1>1, <1>4, <1>5

LEMMA ClearImplements ==
    ASSUME NodesExact, Clear
    PROVE  Flat!Clear
<1>1. [i \in 1..0 |-> cells'[i - 1]] = <<>>
  OBVIOUS
<1>2. rnode' # Null
  BY ByteArrayAssumption DEF Clear
<1> QED BY <1>1, <1>2 DEF Clear, Flat!Clear, Nothing, Answer, Flat!Nothing, Flat!Answer

\* A longer chain is the same array.
LEMMA ReceiveFailsImplements ==
    ASSUME NEW len, ReceiveFails(len)
    PROVE  UNCHANGED Flat!vars
BY DEF ReceiveFails, Flat!vars

LEMMA NextImplements ==
    ASSUME NodesExact, [Next]_vars
    PROVE  [Flat!Next]_(Flat!vars)
<1>1. ASSUME NEW b \in Inputs, Write(b) \/ \E len \in 1..MaxLen : Receive(len, b)
      PROVE  Flat!Puts /\ ~crash
  <2>1. ~crash
    BY <1>1 DEF Write, Receive
  <2> QED BY <1>1, <2>1, WriteStores, ReceiveStores, StoresImplements
<1>2. ASSUME NEW n \in 0..MaxLen, Read(n) \/ \E len \in 1..MaxLen : Send(len, n)
      PROVE  (Flat!Takes \/ Flat!Breaks) /\ ~crash
  <2>1. ~crash
    BY <1>2 DEF Read, Send
  <2> QED BY <1>2, <2>1, ReadImplements, SendImplements
<1>3. ASSUME NEW pos \in 0..(MaxNodes * Base + 1), NEW n \in 0..MaxLen, Peek(pos, n)
      PROVE  (Flat!Looks \/ Flat!Strays \/ Flat!Breaks) /\ ~crash
  BY <1>3, PeekImplements DEF Peek
<1>4. ASSUME WriteToFile PROVE (Flat!Looks \/ Flat!Breaks) /\ ~crash
  BY <1>4, WriteToFileImplements DEF WriteToFile
<1>5. ASSUME NEW v \in 0..Capacity, SetReadPosition(v) PROVE Flat!MoveReaders /\ ~crash
  BY <1>5, SetReadPositionImplements DEF SetReadPosition
<1>6. ASSUME NEW v \in 0..Capacity, SetWritePosition(v)
      PROVE  Flat!MoveWriters /\ ~crash
  BY <1>6, SetWritePositionImplements DEF SetWritePosition, Flat!MoveWriters
<1>7. ASSUME Clear PROVE Flat!Clear /\ ~crash
  BY <1>7, ClearImplements DEF Clear
<1>8. ASSUME UNCHANGED vars PROVE UNCHANGED Flat!vars
  BY <1>8 DEF vars, Flat!vars
<1>9. ASSUME Next PROVE Flat!Next \/ UNCHANGED Flat!vars
  BY <1>1, <1>2, <1>3, <1>4, <1>5, <1>6, <1>7, <1>9, ReceiveFailsImplements
     DEF Next, Flat!Next
<1> QED BY <1>8, <1>9

\* A user of ByteArray sees one array of bytes: what was written, received,
\* skipped or overwritten across any node boundaries is what is read, sent or
\* dumped afterwards, up to what Break and Stray of FlatBytes allow
\* (Bytearray.cc:74-230, 410-600).
THEOREM ArrayImplementsFlat == Spec => ImplementsFlat
<1>1. Init => Flat!Init
  BY InitImplements
<1>2. NodesExact /\ [Next]_vars => [Flat!Next]_(Flat!vars)
  BY NextImplements
<1>3. Spec => []NodesExact
  BY NodesAreExact
<1> QED BY <1>1, <1>2, <1>3, PTL DEF Spec, ImplementsFlat, Flat!Spec

-----------------------------------------------------------------------------
(* Induction *)

\* The order of the natural numbers, as a relation.
LessThan == {ss \in Nat \X Nat : ss[1] < ss[2]}

\* A set of natural numbers that is not empty has a least element.
LEMMA LeastNat ==
    ASSUME NEW T \in SUBSET Nat, T # {}
    PROVE  \E x \in T : \A y \in T : x <= y
<1>1. LessThan = OpToRel(<, Nat)
  BY DEF LessThan, OpToRel
<1>2. IsWellFoundedOn(LessThan, Nat)
  BY <1>1, NatLessThanWellFounded
<1>3. PICK x \in T : \A y \in T : ~ (<<y, x>> \in LessThan)
  BY <1>2, WFMin, Zenon
<1>4. \A y \in T : ~(y < x)
  BY <1>3 DEF LessThan
<1> QED BY <1>4

\* Induction over a set of numbers, which needs no operator as a parameter.
LEMMA InductionOnSet ==
    ASSUME NEW T \in SUBSET Nat, 0 \in T, \A n \in T : n + 1 \in T
    PROVE  T = Nat
<1> SUFFICES ASSUME Nat \ T # {} PROVE FALSE
  OBVIOUS
<1>1. PICK x \in Nat \ T : \A y \in Nat \ T : x <= y
  BY LeastNat
<1>2. x # 0 /\ x - 1 \in Nat
  BY <1>1
<1>3. x - 1 \in T
  BY <1>1, <1>2
<1> QED BY <1>1, <1>2, <1>3

-----------------------------------------------------------------------------
(* Powers of two *)

TwoToBody(f, n) == IF n = 0 THEN 1 ELSE 2 * f[n - 1]

\* The recursive function is defined.
LEMMA TwoToDef == \A n \in Nat : TwoTo[n] = TwoToBody(TwoTo, n)
<1> DEFINE Good(m, g) == g = [i \in 0..m |-> TwoToBody(g, i)]
           M == {m \in Nat : \E g : Good(m, g)}
<1>1. 0 \in M
  <2> DEFINE g == [i \in 0..0 |-> 1]
  <2>1. \A i \in 0..0 : TwoToBody(g, i) = 1
    BY DEF TwoToBody
  <2>2. Good(0, g)
    BY <2>1
  <2> QED BY <2>2
<1>2. ASSUME NEW m \in M PROVE m + 1 \in M
  <2>1. m \in Nat
    OBVIOUS
  <2>2. PICK g : Good(m, g)
    <3> HIDE DEF Good
    <3> QED OBVIOUS
  <2> DEFINE h == [i \in 0..(m + 1) |-> IF i = m + 1 THEN TwoToBody(g, m + 1) ELSE g[i]]
  <2>3. \A i \in 0..m : g[i] = TwoToBody(g, i) /\ h[i] = g[i]
    <3> SUFFICES ASSUME NEW i \in 0..m PROVE g[i] = TwoToBody(g, i) /\ h[i] = g[i]
      OBVIOUS
    <3>1. i \in 0..(m + 1) /\ i # m + 1
      BY <2>1
    <3>2. g[i] = TwoToBody(g, i)
      BY <2>2
    <3> QED BY <3>1, <3>2
  <2>4. ASSUME NEW i \in 0..(m + 1) PROVE TwoToBody(h, i) = TwoToBody(g, i)
    <3>1. CASE i = 0
      BY <3>1 DEF TwoToBody
    <3>2. CASE i # 0
      <4>1. i - 1 \in 0..m
        BY <2>1, <3>2
      <4>2. h[i - 1] = g[i - 1]
        BY <2>3, <4>1
      <4> QED BY <4>2 DEF TwoToBody
    <3> QED BY <3>1, <3>2
  <2>5. ASSUME NEW i \in 0..(m + 1) PROVE h[i] = TwoToBody(g, i)
    <3>1. CASE i = m + 1
      BY <3>1
    <3>2. CASE i # m + 1
      <4>1. i \in 0..m
        BY <2>1, <3>2
      <4> HIDE DEF h
      <4> QED BY <2>3, <4>1
    <3> QED BY <3>1, <3>2
  <2>6. h = [i \in 0..(m + 1) |-> TwoToBody(h, i)]
    BY <2>4, <2>5
  <2>7. Good(m + 1, h) /\ m + 1 \in Nat
    BY <2>1, <2>6
  <2> HIDE DEF Good, h
  <2> QED BY <2>7
<1>3. M = Nat
  <2>1. M \in SUBSET Nat
    OBVIOUS
  <2> HIDE DEF M
  <2> QED BY <1>1, <1>2, <2>1, InductionOnSet
<1> DEFINE Part(m) == CHOOSE g : Good(m, g)
<1>4. ASSUME NEW m \in Nat
      PROVE  /\ DOMAIN Part(m) = 0..m
             /\ \A i \in 0..m : Part(m)[i] = TwoToBody(Part(m), i)
  <2>1. \E g : Good(m, g)
    <3> HIDE DEF Good
    <3> QED BY <1>3
  <2>2. Good(m, Part(m))
    <3> HIDE DEF Good
    <3> QED BY <2>1
  <2> HIDE DEF Part
  <2>3. Part(m) = [i \in 0..m |-> TwoToBody(Part(m), i)]
    BY <2>2
  <2> QED BY <2>3
<1> HIDE DEF Part
<1> DEFINE Same == {i \in Nat : \A m \in Nat : i <= m => Part(m)[i] = Part(i)[i]}
<1>5. Same = Nat
  <2>1. 0 \in Same
    <3>1. ASSUME NEW m \in Nat PROVE Part(m)[0] = 1
      <4>1. 0 \in 0..m
        OBVIOUS
      <4> QED BY <1>4, <4>1 DEF TwoToBody
    <3> QED BY <3>1
  <2>2. ASSUME NEW i \in Same PROVE i + 1 \in Same
    <3>1. i \in Nat /\ \A m \in Nat : i <= m => Part(m)[i] = Part(i)[i]
      OBVIOUS
    <3>2. ASSUME NEW m \in Nat, i + 1 <= m PROVE Part(m)[i + 1] = 2 * Part(i)[i]
      <4>1. i + 1 \in 0..m /\ i + 1 # 0 /\ i + 1 - 1 = i /\ i <= m
        BY <3>1, <3>2
      <4>2. Part(m)[i + 1] = TwoToBody(Part(m), i + 1)
        BY <1>4, <4>1
      <4>3. TwoToBody(Part(m), i + 1) = 2 * Part(m)[i]
        BY <4>1 DEF TwoToBody
      <4> QED BY <3>1, <4>1, <4>2, <4>3
    <3>3. i + 1 \in Nat /\ i + 1 <= i + 1
      BY <3>1
    <3> QED BY <3>2, <3>3
  <2>3. Same \in SUBSET Nat
    OBVIOUS
  <2> HIDE DEF Same
  <2> QED BY <2>1, <2>2, <2>3, InductionOnSet
<1> DEFINE all == [n \in Nat |-> Part(n)[n]]
           IsTwoTo(f) == f = [n \in Nat |-> IF n = 0 THEN 1 ELSE 2 * f[n - 1]]
<1>6. ASSUME NEW n \in Nat PROVE all[n] = IF n = 0 THEN 1 ELSE 2 * all[n - 1]
  <2>1. n \in 0..n /\ all[n] = Part(n)[n]
    OBVIOUS
  <2>2. all[n] = TwoToBody(Part(n), n)
    BY <1>4, <2>1
  <2>3. CASE n = 0
    BY <2>2, <2>3 DEF TwoToBody
  <2>4. CASE n # 0
    <3>1. n - 1 \in Nat /\ n - 1 <= n
      BY <2>4
    <3>2. n - 1 \in Same
      BY <1>5, <3>1
    <3>3. Part(n)[n - 1] = Part(n - 1)[n - 1]
      BY <3>1, <3>2
    <3>4. all[n - 1] = Part(n - 1)[n - 1]
      BY <3>1
    <3> HIDE DEF all
    <3> QED BY <2>2, <2>4, <3>3, <3>4 DEF TwoToBody
  <2> QED BY <2>3, <2>4
<1>7. IsTwoTo(all)
  <2> DEFINE body == [n \in Nat |-> IF n = 0 THEN 1 ELSE 2 * all[n - 1]]
  <2>1. \A n \in Nat : all[n] = body[n]
    <3> HIDE DEF all
    <3> QED BY <1>6
  <2>2. all = body
    <3>1. all = [n \in Nat |-> all[n]] /\ body = [n \in Nat |-> body[n]]
      OBVIOUS
    <3> HIDE DEF all, body
    <3> QED BY <2>1, <3>1
  <2> HIDE DEF all
  <2> QED BY <2>2
<1>8. IsTwoTo(CHOOSE f : IsTwoTo(f))
  <2> HIDE DEF IsTwoTo, all
  <2> QED BY <1>7
<1>9. TwoTo = CHOOSE f : IsTwoTo(f)
  BY DEF TwoTo
<1>10. IsTwoTo(TwoTo)
  <2> HIDE DEF IsTwoTo
  <2> QED BY <1>8, <1>9
<1>11. TwoTo = [n \in Nat |-> TwoToBody(TwoTo, n)]
  BY <1>10 DEF TwoToBody
<1> QED BY <1>11

LEMMA TwoToFacts ==
    /\ TwoTo[0] = 1
    /\ \A n \in Nat : TwoTo[n] \in Nat \ {0} /\ TwoTo[n + 1] = 2 * TwoTo[n]
<1>1. TwoTo[0] = 1
  BY TwoToDef DEF TwoToBody
<1>2. ASSUME NEW n \in Nat PROVE TwoTo[n + 1] = 2 * TwoTo[n]
  <2>1. n + 1 \in Nat /\ n + 1 # 0 /\ n + 1 - 1 = n
    OBVIOUS
  <2>2. TwoTo[n + 1] = TwoToBody(TwoTo, n + 1)
    BY <2>1, TwoToDef
  <2> QED BY <2>1, <2>2 DEF TwoToBody
<1> DEFINE M == {n \in Nat : TwoTo[n] \in Nat \ {0}}
<1>3. M = Nat
  <2>1. M \in SUBSET Nat /\ 0 \in M
    BY <1>1
  <2>2. ASSUME NEW n \in M PROVE n + 1 \in M
    <3>1. n \in Nat /\ TwoTo[n] \in Nat \ {0} /\ TwoTo[n + 1] = 2 * TwoTo[n]
      BY <1>2
    <3> QED BY <3>1
  <2> HIDE DEF M
  <2> QED BY <2>1, <2>2, InductionOnSet
<1> QED BY <1>1, <1>2, <1>3

LEMMA TwoToSum ==
    ASSUME NEW n \in Nat, NEW m \in Nat
    PROVE  TwoTo[n + m] = TwoTo[n] * TwoTo[m]
<1> DEFINE M == {k \in Nat : TwoTo[n + k] = TwoTo[n] * TwoTo[k]}
<1>1. 0 \in M
  <2>1. n + 0 = n /\ TwoTo[n] \in Nat
    BY TwoToFacts
  <2> QED BY <2>1, TwoToFacts
<1>2. ASSUME NEW k \in M PROVE k + 1 \in M
  <2>1. /\ k \in Nat /\ n + k \in Nat /\ n + (k + 1) = n + k + 1
        /\ TwoTo[n + k] = TwoTo[n] * TwoTo[k]
    OBVIOUS
  <2> PICK a \in Nat : a = TwoTo[n]
    BY TwoToFacts
  <2> PICK b \in Nat : b = TwoTo[k]
    BY <2>1, TwoToFacts
  <2>2. TwoTo[n + k + 1] = 2 * (a * b) /\ TwoTo[k + 1] = 2 * b
    BY <2>1, TwoToFacts
  <2>3. 2 * (a * b) = a * (2 * b)
    OBVIOUS
  <2> QED BY <2>1, <2>2, <2>3
<1>3. M = Nat
  <2>1. M \in SUBSET Nat
    OBVIOUS
  <2> HIDE DEF M
  <2> QED BY <1>1, <1>2, <2>1, InductionOnSet
<1> QED BY <1>3

LEMMA TwoToGrows ==
    ASSUME NEW n \in Nat, NEW m \in Nat, n <= m
    PROVE  TwoTo[n] <= TwoTo[m]
<1> PICK d \in Nat : d = m - n
  OBVIOUS
<1>1. TwoTo[m] = TwoTo[n] * TwoTo[d]
  <2>1. n + d = m
    OBVIOUS
  <2> QED BY <2>1, TwoToSum
<1> PICK a \in Nat \ {0} : a = TwoTo[n]
  BY TwoToFacts
<1> PICK b \in Nat \ {0} : b = TwoTo[d]
  BY TwoToFacts
<1>2. a <= a * b
  OBVIOUS
<1> QED BY <1>1, <1>2

-----------------------------------------------------------------------------
(* Digits *)

NumberBody(s, bits, f, k) ==
    IF k = 0 THEN 0 ELSE f[k - 1] + s[k] * TwoTo[bits * (k - 1)]

\* The sums of a number are defined.
LEMMA NumberDef ==
    ASSUME NEW s, NEW bits, Len(s) \in Nat
    PROVE  \E f : /\ Number(s, bits) = f[Len(s)]
                  /\ \A k \in 0..Len(s) : f[k] = NumberBody(s, bits, f, k)
<1> PICK N \in Nat : N = Len(s)
  OBVIOUS
<1> DEFINE Good(m, g) == g = [i \in 0..m |-> NumberBody(s, bits, g, i)]
           M == {m \in Nat : \E g : Good(m, g)}
<1>1. 0 \in M
  <2> DEFINE g == [i \in 0..0 |-> 0]
  <2>1. \A i \in 0..0 : NumberBody(s, bits, g, i) = 0
    BY DEF NumberBody
  <2>2. Good(0, g)
    BY <2>1
  <2> QED BY <2>2
<1>2. ASSUME NEW m \in M PROVE m + 1 \in M
  <2>1. m \in Nat
    OBVIOUS
  <2>2. PICK g : Good(m, g)
    <3> HIDE DEF Good
    <3> QED OBVIOUS
  <2> DEFINE h == [i \in 0..(m + 1) |->
                       IF i = m + 1 THEN NumberBody(s, bits, g, m + 1) ELSE g[i]]
  <2>3. \A i \in 0..m : g[i] = NumberBody(s, bits, g, i) /\ h[i] = g[i]
    <3> SUFFICES ASSUME NEW i \in 0..m PROVE g[i] = NumberBody(s, bits, g, i) /\ h[i] = g[i]
      OBVIOUS
    <3>1. i \in 0..(m + 1) /\ i # m + 1
      BY <2>1
    <3>2. g[i] = NumberBody(s, bits, g, i)
      BY <2>2
    <3> QED BY <3>1, <3>2
  <2>4. ASSUME NEW i \in 0..(m + 1) PROVE NumberBody(s, bits, h, i) = NumberBody(s, bits, g, i)
    <3>1. CASE i = 0
      BY <3>1 DEF NumberBody
    <3>2. CASE i # 0
      <4>1. i - 1 \in 0..m
        BY <2>1, <3>2
      <4>2. h[i - 1] = g[i - 1]
        BY <2>3, <4>1
      <4> QED BY <4>2 DEF NumberBody
    <3> QED BY <3>1, <3>2
  <2>5. ASSUME NEW i \in 0..(m + 1) PROVE h[i] = NumberBody(s, bits, g, i)
    <3>1. CASE i = m + 1
      BY <3>1
    <3>2. CASE i # m + 1
      <4>1. i \in 0..m
        BY <2>1, <3>2
      <4> HIDE DEF h
      <4> QED BY <2>3, <4>1
    <3> QED BY <3>1, <3>2
  <2>6. h = [i \in 0..(m + 1) |-> NumberBody(s, bits, h, i)]
    BY <2>4, <2>5
  <2>7. Good(m + 1, h) /\ m + 1 \in Nat
    BY <2>1, <2>6
  <2> HIDE DEF Good, h
  <2> QED BY <2>7
<1>3. M = Nat
  <2>1. M \in SUBSET Nat
    OBVIOUS
  <2> HIDE DEF M
  <2> QED BY <1>1, <1>2, <2>1, InductionOnSet
<1>4. PICK g : Good(N, g)
  <2> HIDE DEF Good
  <2> QED BY <1>3
<1> DEFINE IsSum(f) ==
        f = [k \in 0..Len(s) |-> IF k = 0 THEN 0 ELSE f[k - 1] + s[k] * TwoTo[bits * (k - 1)]]
<1>5. IsSum(g)
  BY <1>4 DEF NumberBody
<1>6. IsSum(CHOOSE f : IsSum(f))
  <2> HIDE DEF IsSum
  <2> QED BY <1>5
<1> PICK f : f = CHOOSE x : IsSum(x)
  OBVIOUS
<1>7. Number(s, bits) = f[N]
  BY DEF Number
<1>8. IsSum(f)
  <2> HIDE DEF IsSum
  <2> QED BY <1>6
<1>9. \A k \in 0..N : f[k] = NumberBody(s, bits, f, k)
  BY <1>8 DEF NumberBody
<1> QED BY <1>7, <1>9

\* The number n is y and what is left of it after j digits, which is x and the
\* digit d, so that sum is y with this digit.
AddsDigit(bits, j, n, x, d, y, sum) ==
    /\ n = y + TwoTo[bits * j] * (TwoTo[bits] * x + d)
    /\ sum = y + d * TwoTo[bits * j]

LEMMA OneDigitMore ==
    ASSUME NEW bits \in Nat, NEW j \in Nat, NEW n, NEW x \in Nat, NEW d \in Nat,
           NEW y \in Nat, NEW sum, AddsDigit(bits, j, n, x, d, y, sum)
    PROVE  sum \in Nat /\ n = sum + TwoTo[bits * (j + 1)] * x
<1>1. bits * j \in Nat /\ bits * (j + 1) = bits * j + bits
  OBVIOUS
<1> PICK P \in Nat : P = TwoTo[bits * j]
  BY <1>1, TwoToFacts
<1> PICK B \in Nat : B = TwoTo[bits]
  BY TwoToFacts
<1>2. TwoTo[bits * (j + 1)] = P * B
  BY <1>1, TwoToSum
<1>3. P * (B * x + d) = d * P + (P * B) * x
  <2>1. P * (B * x + d) = P * (B * x) + P * d /\ P * d = d * P
    OBVIOUS
  <2>2. P * (B * x) = (P * B) * x
    OBVIOUS
  <2> QED BY <2>1, <2>2
<1> PICK dp \in Nat : dp = d * P
  OBVIOUS
<1> PICK rest \in Nat : rest = (P * B) * x
  OBVIOUS
<1>4. n = y + P * (B * x + d) /\ sum = y + dp
  BY DEF AddsDigit
<1>5. n = y + (dp + rest) /\ sum = y + dp
  BY <1>3, <1>4
<1>6. n = sum + rest /\ sum \in Nat
  BY <1>5
<1> QED BY <1>2, <1>6

\* q[k] is what is left of a number after k digits, the digits of s.
LeavesDigits(q, s, bits) ==
    /\ \A k \in 0..Len(s) : q[k] \in Nat
    /\ \A k \in 1..Len(s) : s[k] \in Nat /\ q[k - 1] = TwoTo[bits] * q[k] + s[k]

\* A number is the sum of its digits.
LEMMA NumberOfDigits ==
    ASSUME NEW s, NEW bits \in Nat, NEW N \in Nat, N = Len(s),
           NEW q, LeavesDigits(q, s, bits)
    PROVE  /\ Number(s, bits) \in Nat
           /\ q[0] = Number(s, bits) + TwoTo[bits * N] * q[N]
<1> PICK f : /\ Number(s, bits) = f[Len(s)]
             /\ \A k \in 0..Len(s) : f[k] = NumberBody(s, bits, f, k)
  BY NumberDef
<1> DEFINE M == {k \in Nat : k <= N => f[k] \in Nat /\ q[0] = f[k] + TwoTo[bits * k] * q[k]}
<1>1. 0 \in M
  <2>1. bits * 0 = 0 /\ TwoTo[0] = 1 /\ q[0] \in Nat
    BY TwoToFacts DEF LeavesDigits
  <2>2. f[0] = 0
    BY DEF NumberBody
  <2> QED BY <2>1, <2>2
<1>2. ASSUME NEW j \in M PROVE j + 1 \in M
  <2> SUFFICES ASSUME j + 1 <= N
               PROVE  f[j + 1] \in Nat /\ q[0] = f[j + 1] + TwoTo[bits * (j + 1)] * q[j + 1]
    OBVIOUS
  <2>0. PICK k \in 1..N : k = j + 1
    OBVIOUS
  <2>1. /\ j \in Nat /\ j = k - 1 /\ j \in 0..N /\ k \in 0..N
        /\ f[j] \in Nat /\ q[0] = f[j] + TwoTo[bits * j] * q[j]
    BY <2>0
  <2>2. f[k] = f[j] + s[k] * TwoTo[bits * j]
    BY <2>1 DEF NumberBody
  <2>3. q[k] \in Nat /\ s[k] \in Nat /\ q[j] = TwoTo[bits] * q[k] + s[k]
    BY <2>1 DEF LeavesDigits
  <2>4. AddsDigit(bits, j, q[0], q[k], s[k], f[j], f[k])
    BY <2>1, <2>2, <2>3 DEF AddsDigit
  <2>5. f[k] \in Nat /\ q[0] = f[k] + TwoTo[bits * (j + 1)] * q[k]
    BY <2>1, <2>3, <2>4, OneDigitMore
  <2> QED BY <2>0, <2>5
<1>3. M = Nat
  <2>1. M \in SUBSET Nat
    OBVIOUS
  <2> HIDE DEF M
  <2> QED BY <1>1, <1>2, <2>1, InductionOnSet
<1>4. N \in M
  <2> HIDE DEF M
  <2> QED BY <1>3
<1>5. f[N] \in Nat /\ q[0] = f[N] + TwoTo[bits * N] * q[N]
  BY <1>4
<1> HIDE DEF M
<1> QED BY <1>5

-----------------------------------------------------------------------------
(* Signed numbers *)

\* What a word, and half of one, is.
LEMMA WordFacts ==
    \E h \in Nat \ {0} :
        /\ TwoTo[WordBits - 1] = h /\ TwoTo[WordBits] = 2 * h
        /\ Word = 0..(2 * h - 1) /\ Signed = (-h)..(h - 1)
<1>1. WordBits - 1 \in Nat /\ WordBits - 1 + 1 = WordBits
  BY WidthAssumption
<1> PICK h \in Nat \ {0} : h = TwoTo[WordBits - 1]
  BY <1>1, TwoToFacts
<1>2. TwoTo[WordBits] = 2 * h
  BY <1>1, TwoToFacts
<1> QED BY <1>2 DEF Word, Signed

LEMMA SmallRemainder ==
    ASSUME NEW w \in Nat \ {0}, NEW x \in 0..(w - 1)
    PROVE  x % w = x /\ x \div w = 0
OBVIOUS

\* A signed number comes back from its zigzag code, the least one of the width too,
\* whose opposite wraps; of the others a small one has a small code
\* (Bytearray.cc:231-249).
THEOREM ZigzagBack ==
    ASSUME NEW v \in Signed
    PROVE  Zigzag(v) \in Word /\ Unzigzag(Zigzag(v)) = v
           /\ (v > -(TwoTo[WordBits - 1]) => Zigzag(v) <= 2 * (IF v < 0 THEN -v ELSE v))
<1> PICK h \in Nat \ {0} :
        /\ TwoTo[WordBits - 1] = h /\ TwoTo[WordBits] = 2 * h
        /\ Word = 0..(2 * h - 1) /\ Signed = (-h)..(h - 1)
  BY WordFacts
<1>1. v \in (-h)..(h - 1) /\ v \in Int
  OBVIOUS
<1>2. CASE v < 0
  <2>1. (-v) % (2 * h) = -v
    <3>1. -v \in 0..(2 * h - 1)
      BY <1>1, <1>2
    <3> QED BY <3>1, SmallRemainder
  <2> PICK z \in 0..(2 * h - 1) : z = (-v) * 2 - 1
    BY <1>1, <1>2
  <2>2. z % (2 * h) = z
    <3> PICK w \in Nat \ {0} : w = 2 * h
      OBVIOUS
    <3> QED BY SmallRemainder
  <2>3. Zigzag(v) = z
    BY <1>2, <2>1, <2>2 DEF Zigzag, ToWord
  <2>4. z % 2 # 0 /\ z \div 2 = -v - 1
    BY <1>1, <1>2
  <2>5. Unzigzag(z) = ToSigned(2 * h - 1 - (-v - 1))
    BY <2>4 DEF Unzigzag
  <2>6. 2 * h - 1 - (-v - 1) = 2 * h + v /\ ~(2 * h + v < h)
    BY <1>1
  <2>7. ToSigned(2 * h + v) = v
    BY <1>1, <2>6 DEF ToSigned
  <2> QED BY <1>1, <1>2, <2>3, <2>5, <2>6, <2>7
<1>3. CASE ~(v < 0)
  <2>1. v \in 0..(h - 1)
    BY <1>1, <1>3
  <2> PICK z \in 0..(2 * h - 1) : z = v * 2
    BY <2>1
  <2>2. Zigzag(v) = z
    BY <1>3 DEF Zigzag
  <2>3. z % 2 = 0 /\ z \div 2 = v
    BY <2>1
  <2>4. Unzigzag(z) = v
    BY <2>1, <2>3 DEF Unzigzag, ToSigned
  <2> QED BY <1>3, <2>1, <2>2, <2>4
<1> QED BY <1>2, <1>3

\* A word that a signed number was made is that number again.
LEMMA SignedBack ==
    ASSUME NEW v \in Signed
    PROVE  ToWord(v) \in Word /\ ToSigned(ToWord(v)) = v
<1> PICK h \in Nat \ {0} :
        /\ TwoTo[WordBits - 1] = h /\ TwoTo[WordBits] = 2 * h
        /\ Word = 0..(2 * h - 1) /\ Signed = (-h)..(h - 1)
  BY WordFacts
<1>1. v \in (-h)..(h - 1) /\ v \in Int
  OBVIOUS
<1>2. CASE v < 0
  <2>1. v % (2 * h) = v + 2 * h
    BY <1>1, <1>2
  <2>2. ToWord(v) = v + 2 * h
    BY <2>1 DEF ToWord
  <2> QED BY <1>1, <1>2, <2>2 DEF ToSigned
<1>3. CASE ~(v < 0)
  <2>1. v \in 0..(2 * h - 1)
    BY <1>1, <1>3
  <2>2. ToWord(v) = v
    <3> PICK w \in Nat \ {0} : w = 2 * h
      OBVIOUS
    <3>1. v % w = v
      BY <2>1, SmallRemainder
    <3> QED BY <3>1 DEF ToWord
  <2> QED BY <1>1, <1>3, <2>1, <2>2 DEF ToSigned
<1> QED BY <1>2, <1>3

LEMMA ZigzagHolds == ZigzagExact
BY ZigzagBack DEF ZigzagExact

-----------------------------------------------------------------------------
(* Numbers of fixed size *)

LEMMA QuotientIs ==
    ASSUME NEW B \in Nat \ {0}, NEW v \in Nat, NEW u \in Nat, NEW r \in 0..(B - 1),
           v = B * u + r
    PROVE  v \div B = u
<1> PICK x \in Nat, y \in 0..(B - 1) : x = v \div B /\ y = v % B /\ v = B * x + y
  BY Division
<1>1. CASE x < u
  <2>1. B * (x + 1) <= B * u /\ B * (x + 1) = B * x + B
    BY <1>1
  <2> QED BY <2>1
<1>2. CASE x > u
  <2>1. B * (u + 1) <= B * x /\ B * (u + 1) = B * u + B
    BY <1>2
  <2> QED BY <2>1
<1> QED BY <1>1, <1>2

\* A number divided twice.
LEMMA QuotientTwice ==
    ASSUME NEW P \in Nat \ {0}, NEW B \in Nat \ {0}, NEW v \in Nat
    PROVE  (v \div P) \div B = v \div (P * B)
<1>1. PICK q \in Nat, r \in 0..(P - 1) : q = v \div P /\ v = P * q + r
  BY Division
<1>2. PICK x \in Nat, d \in 0..(B - 1) : x = q \div B /\ q = B * x + d
  BY Division
<1>3. PICK S \in Nat \ {0} : S = P * B
  OBVIOUS
<1>4. PICK t \in Nat : t = P * d
  OBVIOUS
<1>5. P * q = S * x + t
  <2>1. P * (B * x + d) = P * (B * x) + P * d
    OBVIOUS
  <2>2. P * (B * x) = (P * B) * x
    OBVIOUS
  <2> QED BY <1>2, <1>3, <1>4, <2>1, <2>2
<1>6. t + r \in 0..(S - 1)
  <2>1. P * d <= P * (B - 1) /\ P * (B - 1) = P * B - P
    OBVIOUS
  <2> QED BY <1>3, <1>4, <2>1
<1>7. PICK z \in 0..(S - 1) : z = t + r
  BY <1>6
<1>8. v = S * x + z
  <2>1. PICK y \in Nat : y = S * x
    OBVIOUS
  <2>2. PICK w \in Nat : w = P * q
    OBVIOUS
  <2>3. w = y + t /\ v = w + r
    BY <1>1, <1>5, <2>1, <2>2
  <2>4. v = y + z
    BY <1>7, <2>3
  <2> QED BY <2>1, <2>4
<1>9. v \div S = x
  BY <1>8, QuotientIs
<1> QED BY <1>1, <1>2, <1>3, <1>9

LEMMA ByteFacts ==
    /\ ByteBits \in Nat \ {0} /\ TwoTo[ByteBits] \in Nat \ {0}
    /\ TwoTo[ByteBits] = 2 * TwoTo[GroupBits] /\ TwoTo[GroupBits] \in Nat /\ TwoTo[GroupBits] > 1
    /\ WordBytes \in Nat \ {0} /\ ByteBits * WordBytes = WordBits
<1>1. /\ WordBits \in Nat \ {0} /\ GroupBits \in Nat \ {0}
      /\ ByteBits = GroupBits + 1 /\ WordBits % ByteBits = 0
  BY WidthAssumption
<1>2. ByteBits \in Nat \ {0}
  BY <1>1
<1>3. WordBytes \in Nat /\ WordBits = ByteBits * WordBytes + (WordBits % ByteBits)
  BY <1>1, <1>2, Division DEF WordBytes
<1>4. WordBytes # 0 /\ ByteBits * WordBytes = WordBits
  <2>1. ByteBits * WordBytes \in Nat
    BY <1>2, <1>3
  <2>2. ByteBits * WordBytes = WordBits
    BY <1>1, <1>3, <2>1
  <2>3. ByteBits * 0 = 0
    BY <1>2
  <2> QED BY <1>1, <2>2, <2>3
<1>5. TwoTo[ByteBits] = 2 * TwoTo[GroupBits] /\ TwoTo[ByteBits] \in Nat \ {0}
  BY <1>1, <1>2, TwoToFacts
<1>6. TwoTo[GroupBits] \in Nat /\ TwoTo[GroupBits] > 1
  <2>1. GroupBits - 1 \in Nat /\ GroupBits - 1 + 1 = GroupBits
    BY <1>1
  <2>2. TwoTo[GroupBits] = 2 * TwoTo[GroupBits - 1] /\ TwoTo[GroupBits - 1] \in Nat \ {0}
    BY <2>1, TwoToFacts
  <2> QED BY <2>2
<1> QED BY <1>2, <1>3, <1>4, <1>5, <1>6

\* The bytes of a number, and what is read of them, in the order of the machine.
LEMMA MemoryBack ==
    ASSUME NEW v \in Nat, NEW n \in Nat, v < TwoTo[ByteBits * n]
    PROVE  /\ InMemory(v, n) \in Seq(0..(TwoTo[ByteBits] - 1)) /\ Len(InMemory(v, n)) = n
           /\ FromMemory(InMemory(v, n)) = v
<1> PICK B \in Nat \ {0} : B = TwoTo[ByteBits]
  BY ByteFacts
<1> DEFINE s == InMemory(v, n)
           q == [k \in 0..n |-> v \div TwoTo[ByteBits * k]]
<1>1. ASSUME NEW k \in Nat
      PROVE  /\ ByteBits * k \in Nat /\ TwoTo[ByteBits * k] \in Nat \ {0}
             /\ v \div TwoTo[ByteBits * k] \in Nat
  <2>1. ByteBits * k \in Nat
    BY ByteFacts
  <2>2. TwoTo[ByteBits * k] \in Nat \ {0}
    BY <2>1, TwoToFacts
  <2> QED BY <2>1, <2>2, Division
<1>2. ASSUME NEW k \in 1..n
      PROVE  /\ s[k] = (v \div TwoTo[ByteBits * (k - 1)]) % B /\ s[k] \in 0..(B - 1)
             /\ v \div TwoTo[ByteBits * (k - 1)] = B * (v \div TwoTo[ByteBits * k]) + s[k]
  <2>1. s[k] = (v \div TwoTo[ByteBits * (k - 1)]) % B
    BY DEF InMemory
  <2>2. k - 1 \in Nat /\ k \in Nat
    OBVIOUS
  <2> PICK P \in Nat \ {0} : P = TwoTo[ByteBits * (k - 1)]
    BY <1>1, <2>2
  <2>3. TwoTo[ByteBits * k] = P * B
    <3>1. ByteBits * (k - 1) \in Nat /\ ByteBits * k = ByteBits * (k - 1) + ByteBits
      BY <2>2, ByteFacts
    <3> QED BY <3>1, ByteFacts, TwoToSum
  <2> PICK u \in Nat : u = v \div P
    BY <1>1, <2>2
  <2>4. u \div B = v \div TwoTo[ByteBits * k]
    BY <2>3, QuotientTwice
  <2>5. u = B * (u \div B) + (u % B) /\ u % B \in 0..(B - 1)
    BY Division
  <2> QED BY <2>1, <2>4, <2>5
<1>3. s \in Seq(0..(B - 1)) /\ Len(s) = n
  <2>1. s = [i \in 1..n |-> (v \div TwoTo[ByteBits * (i - 1)]) % B]
    BY DEF InMemory
  <2>2. \A i \in 1..n : s[i] \in 0..(B - 1)
    BY <1>2
  <2>3. s \in [1..n -> 0..(B - 1)]
    <3>1. s = [i \in 1..n |-> s[i]]
      BY <2>1
    <3> HIDE DEF s
    <3> QED BY <2>2, <3>1
  <2> HIDE DEF s
  <2> QED BY <2>3
<1>4. LeavesDigits(q, s, ByteBits)
  <2>1. \A k \in 0..Len(s) : q[k] \in Nat
    <3>1. \A k \in 0..n : q[k] = v \div TwoTo[ByteBits * k]
      OBVIOUS
    <3> HIDE DEF q, s
    <3>2. ASSUME NEW k \in 0..n PROVE q[k] \in Nat
      <4>1. k \in Nat
        OBVIOUS
      <4> QED BY <1>1, <3>1, <4>1
    <3>3. Len(s) = n
      BY <1>3
    <3> QED BY <3>2, <3>3
  <2>2. ASSUME NEW k \in 1..Len(s) PROVE s[k] \in Nat /\ q[k - 1] = TwoTo[ByteBits] * q[k] + s[k]
    <3>1. k \in 1..n /\ k \in 0..n /\ k - 1 \in 0..n
      BY <1>3
    <3>2. q[k] = v \div TwoTo[ByteBits * k] /\ q[k - 1] = v \div TwoTo[ByteBits * (k - 1)]
      BY <3>1
    <3> HIDE DEF q, s
    <3> QED BY <1>2, <3>1, <3>2
  <2> HIDE DEF q, s
  <2> QED BY <2>1, <2>2 DEF LeavesDigits
<1>5. q[0] = v
  <2>1. ByteBits * 0 = 0 /\ TwoTo[0] = 1 /\ v \div 1 = v
    BY ByteFacts, TwoToFacts
  <2> QED BY <2>1
<1>6. q[n] = 0
  <2>1. TwoTo[ByteBits * n] \in Nat \ {0} /\ v \in 0..(TwoTo[ByteBits * n] - 1)
    BY <1>1
  <2>2. v \div TwoTo[ByteBits * n] = 0
    BY <2>1, SmallRemainder
  <2> QED BY <2>2
<1>7. FromMemory(s) = v
  <2> HIDE DEF q, s
  <2>1. /\ Number(s, ByteBits) \in Nat
        /\ q[0] = Number(s, ByteBits) + TwoTo[ByteBits * n] * q[n]
    BY <1>3, <1>4, ByteFacts, NumberOfDigits
  <2>2. TwoTo[ByteBits * n] * 0 = 0
    BY <1>1
  <2> QED BY <1>5, <1>6, <2>1, <2>2 DEF FromMemory
<1> QED BY <1>3, <1>7

LEMMA ReverseTwice ==
    ASSUME NEW C, NEW s \in Seq(C)
    PROVE  Reverse(s) \in Seq(C) /\ Len(Reverse(s)) = Len(s) /\ Reverse(Reverse(s)) = s
<1> PICK n \in Nat : n = Len(s)
  OBVIOUS
<1> PICK r : r = Reverse(s)
  OBVIOUS
<1>1. r = [i \in 1..n |-> s[(n - i) + 1]]
  BY DEF Reverse
<1>2. \A i \in 1..n : (n - i) + 1 \in 1..n /\ (n - ((n - i) + 1)) + 1 = i
  OBVIOUS
<1>3. \A i \in 1..n : s[i] \in C
  OBVIOUS
<1>4. r \in [1..n -> C]
  BY <1>1, <1>2, <1>3
<1>5. r \in Seq(C) /\ Len(r) = n
  BY <1>4
<1>6. Reverse(r) = [i \in 1..n |-> r[(n - i) + 1]]
  BY <1>5 DEF Reverse
<1>7. \A i \in 1..n : r[(n - i) + 1] = s[i]
  BY <1>1, <1>2
<1>8. s = [i \in 1..n |-> s[i]]
  OBVIOUS
<1>9. Reverse(r) = s
  BY <1>6, <1>7, <1>8
<1> QED BY <1>5, <1>9

\* A number of any size that it fits in is read back in the byte order it was
\* written in (Bytearray.cc:215-267, Endian.h:12-64).
THEOREM FixedBack ==
    ASSUME NEW v \in Nat, NEW n \in Nat, v < TwoTo[ByteBits * n], NEW littleEndian \in BOOLEAN
    PROVE  LET s == WriteFixed(v, n, littleEndian)
           IN  /\ s \in Seq(0..(TwoTo[ByteBits] - 1)) /\ Len(s) = n
               /\ ReadFixed(s, littleEndian) = v
<1>1. /\ InMemory(v, n) \in Seq(0..(TwoTo[ByteBits] - 1)) /\ Len(InMemory(v, n)) = n
      /\ FromMemory(InMemory(v, n)) = v
  BY MemoryBack
<1>2. CASE littleEndian
  BY <1>1, <1>2 DEF WriteFixed, ReadFixed
<1>3. CASE ~littleEndian
  BY <1>1, <1>3, ReverseTwice DEF WriteFixed, ReadFixed
<1> QED BY <1>2, <1>3

LEMMA TopDigit ==
    ASSUME NEW P \in Nat \ {0}, NEW B \in Nat \ {0}, NEW v \in Nat, v < P * B
    PROVE  (v \div P) % B = v \div P
<1> PICK u \in Nat : u = v \div P
  BY Division
<1>1. v = P * u + (v % P) /\ v % P \in Nat
  BY Division
<1>2. u < B
  <2> SUFFICES ASSUME u >= B PROVE FALSE
    OBVIOUS
  <2>1. P * u >= P * B
    OBVIOUS
  <2> QED BY <1>1, <2>1
<1>3. u \in 0..(B - 1)
  BY <1>2
<1> QED BY <1>3, SmallRemainder

LEMMA FixedHolds == FixedExact
<1>1. ASSUME NEW littleEndian \in BOOLEAN, NEW v \in Signed
      PROVE  ToSigned(ReadFixed(WriteFixed(ToWord(v), WordBytes, littleEndian), littleEndian)) = v
  <2>1. ToWord(v) \in Word /\ ToSigned(ToWord(v)) = v
    BY SignedBack
  <2>2. ToWord(v) \in Nat /\ ToWord(v) < TwoTo[ByteBits * WordBytes]
    BY <2>1, ByteFacts, WordFacts
  <2>3. ReadFixed(WriteFixed(ToWord(v), WordBytes, littleEndian), littleEndian) = ToWord(v)
    BY <2>2, ByteFacts, FixedBack
  <2> QED BY <2>1, <2>3
<1>2. ASSUME NEW v \in Word
      PROVE  WriteFixed(v, WordBytes, FALSE)[1] = v \div TwoTo[ByteBits * (WordBytes - 1)]
  <2> PICK n \in Nat \ {0} : n = WordBytes /\ ByteBits * n = WordBits
    BY ByteFacts
  <2> PICK B \in Nat \ {0} : B = TwoTo[ByteBits]
    BY ByteFacts
  <2>1. n - 1 \in Nat /\ ByteBits * (n - 1) \in Nat /\ WordBits = ByteBits * (n - 1) + ByteBits
    BY ByteFacts
  <2> PICK P \in Nat \ {0} : P = TwoTo[ByteBits * (n - 1)]
    BY <2>1, TwoToFacts
  <2>2. TwoTo[WordBits] = P * B
    <3>1. ByteBits \in Nat
      BY ByteFacts
    <3>2. TwoTo[ByteBits * (n - 1) + ByteBits] = TwoTo[ByteBits * (n - 1)] * TwoTo[ByteBits]
      BY <2>1, <3>1, TwoToSum, Zenon
    <3>3. TwoTo[WordBits] = TwoTo[ByteBits * (n - 1)] * TwoTo[ByteBits]
      BY <2>1, <3>2, Zenon
    <3> QED BY <3>3
  <2>3. v \in Nat /\ v < P * B /\ v < TwoTo[ByteBits * n]
    BY <2>2, WordFacts
  <2>4. (v \div P) % B = v \div P
    BY <2>3, TopDigit
  <2> PICK m : m = InMemory(v, n)
    OBVIOUS
  <2>5. m[n] = v \div P
    <3>1. n \in 1..n
      OBVIOUS
    <3> QED BY <2>4, <3>1 DEF InMemory
  <2>6. Len(m) = n
    BY <2>3, MemoryBack
  <2>7. Reverse(m)[1] = m[n]
    <3>1. Reverse(m) = [i \in 1..n |-> m[(n - i) + 1]]
      BY <2>6 DEF Reverse
    <3>2. 1 \in 1..n /\ (n - 1) + 1 = n
      OBVIOUS
    <3> QED BY <3>1, <3>2
  <2> QED BY <2>5, <2>7 DEF WriteFixed
<1> QED BY <1>1, <1>2 DEF FixedExact

-----------------------------------------------------------------------------
(* Varints *)

VarintBody(f, v) ==
    IF v < TwoTo[GroupBits] THEN <<v>>
    ELSE <<(v % TwoTo[GroupBits]) + TwoTo[GroupBits]>> \o f[v \div TwoTo[GroupBits]]

LEMMA SmallerQuotient ==
    ASSUME NEW G \in Nat, G > 1, NEW v \in Nat, v > 0
    PROVE  v \div G \in 0..(v - 1)
<1>1. PICK q \in Nat, r \in Nat : q = v \div G /\ v = G * q + r
  BY Division
<1>2. q < v
  <2>1. CASE q = 0
    BY <2>1
  <2>2. CASE q # 0
    <3>1. G * q >= 2 * q
      OBVIOUS
    <3> QED BY <1>1, <2>2, <3>1
  <2> QED BY <2>1, <2>2
<1> QED BY <1>1, <1>2

LEMMA GroupFacts ==
    ASSUME NEW v \in Nat, ~(v < TwoTo[GroupBits])
    PROVE  v \div TwoTo[GroupBits] \in 0..(v - 1)
<1>1. PICK G \in Nat : G = TwoTo[GroupBits] /\ G > 1
  BY ByteFacts
<1>2. v > 0
  BY <1>1
<1> QED BY <1>1, <1>2, SmallerQuotient

\* The recursive function is defined.
LEMMA VarintDef == \A v \in Word : Varint[v] = VarintBody(Varint, v)
<1> DEFINE Good(m, g) == g = [i \in 0..m |-> VarintBody(g, i)]
           M == {m \in Nat : \E g : Good(m, g)}
<1>1. 0 \in M
  <2> DEFINE g == [i \in 0..0 |-> <<0>>]
  <2>1. \A i \in 0..0 : VarintBody(g, i) = <<0>>
    BY ByteFacts DEF VarintBody
  <2>2. Good(0, g)
    BY <2>1
  <2> QED BY <2>2
<1>2. ASSUME NEW m \in M PROVE m + 1 \in M
  <2>1. m \in Nat
    OBVIOUS
  <2>2. PICK g : Good(m, g)
    <3> HIDE DEF Good
    <3> QED OBVIOUS
  <2> DEFINE h == [i \in 0..(m + 1) |-> IF i = m + 1 THEN VarintBody(g, m + 1) ELSE g[i]]
  <2>3. \A i \in 0..m : g[i] = VarintBody(g, i) /\ h[i] = g[i]
    <3> SUFFICES ASSUME NEW i \in 0..m PROVE g[i] = VarintBody(g, i) /\ h[i] = g[i]
      OBVIOUS
    <3>1. i \in 0..(m + 1) /\ i # m + 1
      BY <2>1
    <3>2. g[i] = VarintBody(g, i)
      BY <2>2
    <3> QED BY <3>1, <3>2
  <2>4. ASSUME NEW i \in 0..(m + 1) PROVE VarintBody(h, i) = VarintBody(g, i)
    <3>1. CASE i < TwoTo[GroupBits]
      BY <3>1 DEF VarintBody
    <3>2. CASE ~(i < TwoTo[GroupBits])
      <4>1. i \in Nat
        BY <2>1
      <4>2. i \div TwoTo[GroupBits] \in 0..(i - 1)
        BY <3>2, <4>1, GroupFacts
      <4>3. PICK j \in 0..m : j = i \div TwoTo[GroupBits]
        BY <2>1, <4>2
      <4>4. h[j] = g[j]
        BY <2>3
      <4> HIDE DEF h
      <4> QED BY <3>2, <4>3, <4>4 DEF VarintBody
    <3> QED BY <3>1, <3>2
  <2>5. ASSUME NEW i \in 0..(m + 1) PROVE h[i] = VarintBody(g, i)
    <3>1. CASE i = m + 1
      BY <3>1
    <3>2. CASE i # m + 1
      <4>1. i \in 0..m
        BY <2>1, <3>2
      <4> HIDE DEF h
      <4> QED BY <2>3, <4>1
    <3> QED BY <3>1, <3>2
  <2>6. h = [i \in 0..(m + 1) |-> VarintBody(h, i)]
    BY <2>4, <2>5
  <2>7. Good(m + 1, h) /\ m + 1 \in Nat
    BY <2>1, <2>6
  <2> HIDE DEF Good, h
  <2> QED BY <2>7
<1>3. M = Nat
  <2>1. M \in SUBSET Nat
    OBVIOUS
  <2> HIDE DEF M
  <2> QED BY <1>1, <1>2, <2>1, InductionOnSet
<1>4. PICK N \in Nat : Word = 0..N
  <2>1. PICK h \in Nat \ {0} : Word = 0..(2 * h - 1)
    BY WordFacts
  <2>2. 2 * h - 1 \in Nat
    OBVIOUS
  <2> QED BY <2>1, <2>2
<1>5. PICK g : Good(N, g)
  <2> HIDE DEF Good
  <2> QED BY <1>3
<1> DEFINE IsVar(f) ==
        f = [v \in Word |->
                IF v < TwoTo[GroupBits] THEN <<v>>
                ELSE <<(v % TwoTo[GroupBits]) + TwoTo[GroupBits]>> \o f[v \div TwoTo[GroupBits]]]
<1>6. IsVar(g)
  BY <1>4, <1>5 DEF VarintBody
<1>7. IsVar(CHOOSE f : IsVar(f))
  <2> HIDE DEF IsVar
  <2> QED BY <1>6
<1>8. Varint = CHOOSE f : IsVar(f)
  BY DEF Varint
<1>9. IsVar(Varint)
  <2> HIDE DEF IsVar
  <2> QED BY <1>7, <1>8
<1>10. Varint = [v \in Word |-> VarintBody(Varint, v)]
  BY <1>9 DEF VarintBody
<1> QED BY <1>10

\* s encodes v in at most m groups: every byte but the last says that another
\* follows, and the groups are what v leaves.
Groups(s) == [k \in 1..Len(s) |-> s[k] % TwoTo[GroupBits]]
Encodes(s, v, m, q) ==
    /\ s \in Seq(Nat) /\ Len(s) \in 1..m /\ s[Len(s)] < TwoTo[GroupBits]
    /\ \A k \in 1..(Len(s) - 1) : s[k] >= TwoTo[GroupBits]
    /\ LeavesDigits(q, Groups(s), GroupBits) /\ q[0] = v /\ q[Len(s)] = 0

\* A number of one group.
LEMMA OneGroup ==
    ASSUME NEW v \in Nat, v < TwoTo[GroupBits], NEW m \in Nat \ {0}
    PROVE  \E q : Encodes(<<v>>, v, m, q)
<1> PICK G \in Nat \ {0} : G = TwoTo[GroupBits]
  BY ByteFacts
<1> PICK s : s = <<v>>
  OBVIOUS
<1>1. s \in Seq(Nat) /\ Len(s) = 1 /\ s[1] = v
  OBVIOUS
<1>2. v % G = v
  <2>1. v \in 0..(G - 1)
    OBVIOUS
  <2> QED BY <2>1, SmallRemainder
<1> PICK q : q = [k \in {0, 1} |-> IF k = 0 THEN v ELSE 0]
  OBVIOUS
<1>3. q[0] = v /\ q[1] = 0
  OBVIOUS
<1>4. LeavesDigits(q, Groups(s), GroupBits)
  <2>1. Groups(s) = [k \in 1..1 |-> s[k] % G]
    BY <1>1 DEF Groups
  <2>2. Len(Groups(s)) = 1 /\ Groups(s)[1] = v
    BY <1>1, <1>2, <2>1
  <2>3. ASSUME NEW k \in 0..Len(Groups(s)) PROVE q[k] \in Nat
    <3>1. k = 0 \/ k = 1
      BY <2>2
    <3> QED BY <1>3, <3>1
  <2>4. ASSUME NEW k \in 1..Len(Groups(s))
        PROVE  Groups(s)[k] \in Nat /\ q[k - 1] = TwoTo[GroupBits] * q[k] + Groups(s)[k]
    <3>1. k = 1
      <4>1. k \in 1..1
        BY <2>2, Zenon
      <4> QED BY <4>1
    <3>2. TwoTo[GroupBits] * 0 + v = v
      OBVIOUS
    <3> QED BY <1>3, <2>2, <3>1, <3>2
  <2> QED BY <2>3, <2>4 DEF LeavesDigits
<1>5. Encodes(s, v, m, q)
  BY <1>1, <1>3, <1>4 DEF Encodes
<1> QED BY <1>5

\* A group before those of what is left.
TakesGroup(v, u, d) == d \in 0..(TwoTo[GroupBits] - 1) /\ v = TwoTo[GroupBits] * u + d

LEMMA OneRound ==
    ASSUME NEW G \in Nat, NEW d \in 0..(G - 1)
    PROVE  (d + G) % G = d
OBVIOUS

LEMMA GroupBefore ==
    ASSUME NEW v \in Nat, NEW m \in Nat, NEW u \in Nat, NEW d, TakesGroup(v, u, d),
           NEW s, NEW p, Encodes(s, u, m, p)
    PROVE  \E q : Encodes(<<d + TwoTo[GroupBits]>> \o s, v, m + 1, q)
<1>0. PICK G \in Nat \ {0} : G = TwoTo[GroupBits]
  BY ByteFacts
<1> PICK n \in 1..m : n = Len(s)
  BY DEF Encodes
<1>1. /\ s \in Seq(Nat) /\ s[n] < G /\ \A k \in 1..(n - 1) : s[k] >= G
      /\ LeavesDigits(p, Groups(s), GroupBits) /\ p[0] = u /\ p[n] = 0
  BY <1>0 DEF Encodes
<1>2. PICK x \in Nat : x = d + G /\ x >= G /\ x % G = d /\ d \in Nat
  <2>1. d \in 0..(G - 1)
    BY <1>0 DEF TakesGroup
  <2>2. d + G \in Nat /\ d + G >= G /\ (d + G) % G = d /\ d \in Nat
    BY <2>1, OneRound
  <2> QED BY <2>2
<1> PICK r : r = <<x>> \o s
  OBVIOUS
<1>3. r \in Seq(Nat) /\ Len(r) = n + 1 /\ r[1] = x /\ \A k \in 1..n : r[1 + k] = s[k]
  <2> PICK one : one = <<x>>
    OBVIOUS
  <2>1. one \in Seq(Nat) /\ Len(one) = 1 /\ one[1] = x
    OBVIOUS
  <2>2. /\ r \in Seq(Nat) /\ Len(r) = Len(one) + Len(s)
        /\ \A k \in 1..Len(one) : r[k] = one[k]
        /\ \A k \in 1..Len(s) : r[Len(one) + k] = s[k]
    <3>1. r = one \o s
      OBVIOUS
    <3> QED BY <1>1, <2>1, <3>1, ConcatProperties
  <2> QED BY <2>1, <2>2
<1>4. ASSUME NEW k \in 2..(n + 1)
      PROVE  \E j \in 1..n : j = k - 1 /\ k = 1 + j /\ r[k] = s[j]
  <2> PICK j \in 1..n : j = k - 1 /\ k = 1 + j
    OBVIOUS
  <2>1. r[1 + j] = s[j]
    BY <1>3
  <2> QED BY <2>1
<1> PICK q : q = [k \in 0..(n + 1) |-> IF k = 0 THEN v ELSE p[k - 1]]
  OBVIOUS
<1>5. q[0] = v /\ \A j \in 0..n : q[j + 1] = p[j]
  <2>1. q[0] = v
    OBVIOUS
  <2>2. ASSUME NEW j \in 0..n PROVE q[j + 1] = p[j]
    <3>1. j + 1 \in 0..(n + 1) /\ j + 1 # 0 /\ (j + 1) - 1 = j
      OBVIOUS
    <3> QED BY <3>1
  <2> QED BY <2>1, <2>2
<1>6. Len(Groups(s)) = n /\ \A k \in 1..n : Groups(s)[k] = s[k] % G
  BY <1>0 DEF Groups
<1>7. Len(Groups(r)) = n + 1 /\ \A k \in 1..(n + 1) : Groups(r)[k] = r[k] % G
  <2>1. Groups(r) = [k \in 1..(n + 1) |-> r[k] % G]
    BY <1>0, <1>3 DEF Groups
  <2>2. \A k \in 1..(n + 1) : r[k] % G \in Nat
    <3> SUFFICES ASSUME NEW k \in 1..(n + 1) PROVE r[k] % G \in Nat
      OBVIOUS
    <3>1. PICK y \in Nat : y = r[k]
      BY <1>3
    <3>2. y % G \in 0..(G - 1)
      BY <1>0, Division
    <3>3. y % G \in Nat
      BY <1>0, <3>2
    <3> QED BY <3>1, <3>3
  <2> PICK g : g = Groups(r)
    OBVIOUS
  <2>3. g \in [1..(n + 1) -> Nat] /\ \A k \in 1..(n + 1) : g[k] = r[k] % G
    BY <2>1, <2>2
  <2>4. Len(g) = n + 1
    BY <2>3
  <2> QED BY <2>3, <2>4
<1>8. /\ \A k \in 0..n : p[k] \in Nat
      /\ \A k \in 1..n : /\ Groups(s)[k] \in Nat
                         /\ p[k - 1] = TwoTo[GroupBits] * p[k] + Groups(s)[k]
  BY <1>1, <1>6 DEF LeavesDigits
<1>9. LeavesDigits(q, Groups(r), GroupBits)
  <2>1. ASSUME NEW k \in 0..(n + 1) PROVE q[k] \in Nat
    <3>1. CASE k = 0
      BY <1>5, <3>1
    <3>2. CASE k # 0
      <4> PICK j \in 0..n : k = j + 1
        BY <3>2
      <4> QED BY <1>5, <1>8
    <3> QED BY <3>1, <3>2
  <2>2. ASSUME NEW k \in 1..(n + 1)
        PROVE  Groups(r)[k] \in Nat /\ q[k - 1] = TwoTo[GroupBits] * q[k] + Groups(r)[k]
    <3>1. CASE k = 1
      <4>1. 0 \in 0..n /\ 0 + 1 = 1 /\ 1 \in 1..(n + 1)
        OBVIOUS
      <4>2. Groups(r)[1] = d
        BY <1>2, <1>3, <1>7, <4>1
      <4>3. q[1] = u /\ q[0] = v
        BY <1>1, <1>5, <4>1
      <4>4. v = TwoTo[GroupBits] * u + d
        BY DEF TakesGroup
      <4>5. Groups(r)[1] \in Nat /\ q[0] = TwoTo[GroupBits] * q[1] + Groups(r)[1]
        BY <1>2, <4>2, <4>3, <4>4, Zenon
      <4> QED BY <3>1, <4>5
    <3>2. CASE k # 1
      <4>1. k \in 2..(n + 1)
        BY <3>2
      <4>2. PICK j \in 1..n : j = k - 1 /\ k = 1 + j /\ r[k] = s[j]
        BY <1>4, <4>1
      <4>3. Groups(r)[k] = Groups(s)[j]
        BY <1>6, <1>7, <4>2
      <4>4. j \in 0..n /\ j - 1 \in 0..n /\ k = j + 1 /\ k - 1 = (j - 1) + 1
        BY <4>2
      <4>5. q[k] = p[j] /\ q[k - 1] = p[j - 1]
        BY <1>5, <4>4
      <4> QED BY <1>8, <4>3, <4>5
    <3> QED BY <3>1, <3>2
  <2> QED BY <1>7, <2>1, <2>2 DEF LeavesDigits
<1>10. ASSUME NEW k \in 1..n PROVE r[k] >= G
  <2>1. CASE k = 1
    BY <1>2, <1>3, <2>1
  <2>2. CASE k # 1
    <3>1. k \in 2..(n + 1)
      BY <2>2
    <3>2. PICK j \in 1..n : j = k - 1 /\ r[k] = s[j]
      BY <1>4, <3>1
    <3>3. j \in 1..(n - 1)
      BY <3>2
    <3> QED BY <1>1, <3>2, <3>3
  <2> QED BY <2>1, <2>2
<1>11. r[n + 1] < G /\ q[n + 1] = 0
  <2>1. n \in 1..n /\ n \in 0..n /\ 1 + n = n + 1
    OBVIOUS
  <2> QED BY <1>1, <1>3, <1>5, <2>1
<1>12. Encodes(r, v, m + 1, q)
  <2>1. n + 1 \in 1..(m + 1) /\ (n + 1) - 1 = n
    OBVIOUS
  <2> QED BY <1>0, <1>3, <1>5, <1>9, <1>10, <1>11, <2>1 DEF Encodes
<1> QED BY <1>0, <1>2, <1>12

\* Every word is encoded, in as many groups as its bits take.
LEMMA VarintEncodes ==
    ASSUME NEW m \in Nat
    PROVE  \A v \in Word :
               v < TwoTo[GroupBits * (m + 1)] => \E q : Encodes(Varint[v], v, m + 1, q)
<1> DEFINE M == {i \in Nat : \A v \in Word :
                     v < TwoTo[GroupBits * (i + 1)] => \E q : Encodes(Varint[v], v, i + 1, q)}
<1>1. GroupBits \in Nat /\ Word \subseteq Nat
  <2>1. PICK h \in Nat \ {0} : Word = 0..(2 * h - 1)
    BY WordFacts
  <2> QED BY <2>1, WidthAssumption
<1>2. PICK G \in Nat : G = TwoTo[GroupBits] /\ G > 1
  BY ByteFacts
<1>3. ASSUME NEW v \in Word, v < G, NEW i \in Nat PROVE \E q : Encodes(Varint[v], v, i + 1, q)
  <2>1. Varint[v] = <<v>>
    BY <1>2, <1>3, VarintDef DEF VarintBody
  <2>2. v \in Nat /\ v < TwoTo[GroupBits] /\ i + 1 \in Nat \ {0}
    BY <1>1, <1>2, <1>3
  <2>3. \E q : Encodes(<<v>>, v, i + 1, q)
    BY <2>2, OneGroup
  <2> QED BY <2>1, <2>3
<1>4. 0 \in M
  <2>1. GroupBits * (0 + 1) = GroupBits
    BY <1>1
  <2> QED BY <1>2, <1>3, <2>1
<1>5. ASSUME NEW i \in M PROVE i + 1 \in M
  <2>1. i \in Nat /\ i + 1 \in Nat
    OBVIOUS
  <2>2. ASSUME NEW v \in Word, v < TwoTo[GroupBits * (i + 1 + 1)]
        PROVE  \E q : Encodes(Varint[v], v, i + 1 + 1, q)
    <3>1. CASE v < G
      BY <1>3, <2>1, <3>1
    <3>2. CASE ~(v < G)
      <4>0. v \in Nat
        BY <1>1
      <4>1. PICK u \in Nat, d \in 0..(G - 1) : u = v \div G /\ d = v % G /\ v = G * u + d
        <5>1. G \in Nat \ {0}
          BY <1>2
        <5>2. v \div G \in Nat /\ v % G \in 0..(G - 1) /\ v = G * (v \div G) + (v % G)
          BY <4>0, <5>1, Division
        <5> QED BY <5>2
      <4>2. u \in 0..(v - 1)
        BY <1>2, <3>2, <4>0, <4>1, GroupFacts
      <4>3. u \in Word
        <5>1. PICK h \in Nat \ {0} : Word = 0..(2 * h - 1)
          BY WordFacts
        <5> QED BY <4>2, <5>1
      <4>4. u < TwoTo[GroupBits * (i + 1)]
        <5>1. PICK P \in Nat \ {0} : P = TwoTo[GroupBits * (i + 1)]
          <6>1. GroupBits * (i + 1) \in Nat
            BY <1>1, <2>1
          <6> QED BY <6>1, TwoToFacts
        <5>2. TwoTo[GroupBits * (i + 1 + 1)] = P * G
          <6>1. /\ GroupBits * (i + 1) \in Nat
                /\ GroupBits * (i + 1 + 1) = GroupBits * (i + 1) + GroupBits
            BY <1>1, <2>1
          <6> QED BY <1>1, <1>2, <5>1, <6>1, TwoToSum
        <5>3. v < P * G
          BY <2>2, <5>2
        <5> SUFFICES ASSUME u >= P PROVE FALSE
          BY <5>1
        <5>4. G * u >= G * P
          BY <1>2
        <5>5. G * P = P * G
          BY <1>2
        <5> QED BY <4>1, <5>3, <5>4, <5>5
      <4>5. PICK p : Encodes(Varint[u], u, i + 1, p)
        BY <4>3, <4>4
      <4>6. TakesGroup(v, u, d)
        BY <1>2, <4>1 DEF TakesGroup
      <4>7. \E q : Encodes(<<d + TwoTo[GroupBits]>> \o Varint[u], v, i + 1 + 1, q)
        BY <2>1, <4>0, <4>5, <4>6, GroupBefore
      <4>8. Varint[v] = <<d + TwoTo[GroupBits]>> \o Varint[u]
        BY <1>2, <3>2, <4>1, VarintDef DEF VarintBody
      <4> QED BY <4>7, <4>8
    <3> QED BY <3>1, <3>2
  <2> QED BY <2>1, <2>2
<1>6. M = Nat
  <2>1. M \in SUBSET Nat
    OBVIOUS
  <2> HIDE DEF M
  <2> QED BY <1>4, <1>5, <2>1, InductionOnSet
<1>7. m \in M
  <2> HIDE DEF M
  <2> QED BY <1>6
<1> QED BY <1>7

\* A varint is read back as it was written, from exactly its own bytes, whatever
\* follows it (Bytearray.cc:269-327).
THEOREM VarintBack ==
    ASSUME NEW v \in Word, NEW t \in Seq(Nat)
    PROVE  /\ Varint[v] \in Seq(Nat) /\ VarintLast(Varint[v] \o t) = Len(Varint[v])
           /\ VarintValue(Varint[v] \o t) = v
<1>1. PICK most \in Nat \ {0} : /\ most = (WordBits + GroupBits - 1) \div GroupBits
                                /\ v < TwoTo[GroupBits * most]
  <2>1. WordBits \in Nat \ {0} /\ GroupBits \in Nat \ {0}
    BY WidthAssumption
  <2>2. PICK a \in Nat : a = WordBits + GroupBits - 1
    BY <2>1
  <2>3. PICK most \in Nat, r \in 0..(GroupBits - 1) :
            most = a \div GroupBits /\ a = GroupBits * most + r
    BY <2>1, Division
  <2>4. PICK b \in Nat : b = GroupBits * most
    BY <2>1
  <2>5. b >= WordBits
    BY <2>1, <2>2, <2>3, <2>4
  <2>6. most # 0
    <3>1. GroupBits * 0 = 0
      BY <2>1
    <3> QED BY <2>1, <2>4, <2>5, <3>1
  <2>7. TwoTo[WordBits] <= TwoTo[b] /\ TwoTo[WordBits] \in Nat /\ TwoTo[b] \in Nat
    BY <2>1, <2>5, TwoToGrows, TwoToFacts
  <2>8. v \in Nat /\ v < TwoTo[WordBits]
    BY WordFacts
  <2>9. v < TwoTo[GroupBits * most]
    BY <2>4, <2>7, <2>8
  <2> QED BY <2>2, <2>3, <2>6, <2>9
<1> PICK s : s = Varint[v]
  OBVIOUS
<1>2. PICK q : Encodes(s, v, most, q)
  <2>1. PICK m \in Nat : most = m + 1
    <3>1. most - 1 \in Nat /\ most = (most - 1) + 1
      OBVIOUS
    <3> QED BY <3>1
  <2> QED BY <1>1, <2>1, VarintEncodes
<1>3. PICK G \in Nat \ {0} : G = TwoTo[GroupBits]
  BY ByteFacts
<1>4. PICK n \in 1..most : n = Len(s)
  BY <1>2 DEF Encodes
<1>5. /\ s \in Seq(Nat) /\ s[n] < G /\ \A k \in 1..(n - 1) : s[k] >= G
      /\ LeavesDigits(q, Groups(s), GroupBits) /\ q[0] = v /\ q[n] = 0
  BY <1>2, <1>3, <1>4 DEF Encodes
<1> PICK all : all = s \o t
  OBVIOUS
<1>6. /\ all \in Seq(Nat) /\ Len(all) = n + Len(t) /\ Len(t) \in Nat
      /\ \A k \in 1..n : all[k] = s[k]
  <2>1. /\ all \in Seq(Nat) /\ Len(all) = Len(s) + Len(t)
        /\ \A k \in 1..Len(s) : all[k] = s[k]
    BY <1>5, ConcatProperties
  <2> QED BY <1>4, <2>1
<1> DEFINE ends == {k \in 1..Len(all) : all[k] < G \/ k = most}
<1>7. n \in ends /\ \A j \in ends : n <= j
  <2>1. n \in ends
    BY <1>5, <1>6
  <2>2. ASSUME NEW j \in ends PROVE n <= j
    <3> SUFFICES ASSUME j < n PROVE FALSE
      BY <1>6
    <3>1. j \in 1..(n - 1) /\ j # most /\ j \in 1..n
      BY <1>6
    <3>2. all[j] >= G /\ all[j] \in Nat
      BY <1>5, <1>6, <3>1
    <3>3. ~(all[j] < G)
      BY <1>3, <3>2
    <3> QED BY <3>1, <3>3
  <2> HIDE DEF ends
  <2> QED BY <2>1, <2>2
<1>8. VarintLast(all) = n
  <2>1. VarintLast(all) = CHOOSE k \in ends : \A j \in ends : k <= j
    BY <1>1, <1>3 DEF VarintLast
  <2>2. ends \subseteq Nat
    BY <1>6
  <2>3. ASSUME NEW k \in ends, \A j \in ends : k <= j PROVE k = n
    <3> HIDE DEF ends
    <3> QED BY <1>7, <2>2, <2>3
  <2> HIDE DEF ends
  <2> QED BY <1>7, <2>1, <2>3
<1>9. [k \in 1..VarintLast(all) |-> all[k] % TwoTo[GroupBits]] = Groups(s)
  <2>1. [k \in 1..n |-> all[k] % TwoTo[GroupBits]] = [k \in 1..n |-> s[k] % TwoTo[GroupBits]]
    BY <1>6
  <2> QED BY <1>4, <1>8, <2>1 DEF Groups
<1>10. Number(Groups(s), GroupBits) = v
  <2>1. Len(Groups(s)) = n /\ n \in Nat
    <3>1. Groups(s) = [k \in 1..n |-> s[k] % G]
      BY <1>3, <1>4 DEF Groups
    <3>2. \A k \in 1..n : s[k] % G \in Nat
      <4> SUFFICES ASSUME NEW k \in 1..n PROVE s[k] % G \in Nat
        OBVIOUS
      <4>1. PICK y \in Nat : y = s[k]
        BY <1>4, <1>5
      <4>2. y % G \in Nat
        BY Division
      <4> QED BY <4>1, <4>2
    <3> PICK g : g = Groups(s)
      OBVIOUS
    <3>3. g \in [1..n -> Nat]
      BY <3>1, <3>2
    <3>4. Len(g) = n
      BY <3>3
    <3> QED BY <3>4
  <2>2. GroupBits \in Nat
    BY WidthAssumption
  <2>3. /\ Number(Groups(s), GroupBits) \in Nat
        /\ q[0] = Number(Groups(s), GroupBits) + TwoTo[GroupBits * n] * q[n]
    BY <1>5, <2>1, <2>2, NumberOfDigits
  <2>4. GroupBits * n \in Nat
    BY <2>1, <2>2
  <2>5. TwoTo[GroupBits * n] * 0 = 0
    <3>1. PICK P \in Nat : P = TwoTo[GroupBits * n]
      BY <2>4, TwoToFacts
    <3>2. P * 0 = 0
      OBVIOUS
    <3> QED BY <3>1, <3>2
  <2> QED BY <1>5, <2>3, <2>5
<1>11. ToWord(v) = v
  <2>1. v \in 0..(TwoTo[WordBits] - 1) /\ TwoTo[WordBits] \in Nat \ {0}
    BY WidthAssumption, TwoToFacts DEF Word
  <2> QED BY <2>1, SmallRemainder DEF ToWord
<1>12. VarintValue(all) = v
  BY <1>9, <1>10, <1>11 DEF VarintValue
<1> QED BY <1>4, <1>5, <1>8, <1>12

LEMMA VarintHolds == VarintExact
<1> SUFFICES ASSUME NEW v \in Word, NEW next \in {0, TwoTo[ByteBits] - 1}
             PROVE  LET s == Varint[v] \o <<next>>
                    IN  VarintValue(s) = v /\ VarintLast(s) = Len(s) - 1
  BY DEF VarintExact
<1>1. next \in Nat
  BY ByteFacts
<1> PICK t : t = <<next>>
  OBVIOUS
<1>2. t \in Seq(Nat) /\ Len(t) = 1
  BY <1>1
<1>3. /\ Varint[v] \in Seq(Nat) /\ VarintLast(Varint[v] \o t) = Len(Varint[v])
      /\ VarintValue(Varint[v] \o t) = v
  BY <1>2, VarintBack
<1>4. Len(Varint[v] \o t) = Len(Varint[v]) + 1 /\ Len(Varint[v]) \in Nat
  BY <1>2, <1>3, ConcatProperties
<1> QED BY <1>3, <1>4

-----------------------------------------------------------------------------
(* Strings *)

\* What is between a head and what follows.
LEMMA Middle ==
    ASSUME NEW C, NEW head \in Seq(C), NEW str \in Seq(C), NEW t \in Seq(C),
           NEW h, h = Len(head), NEW n, n = Len(str)
    PROVE  /\ SubSeq((head \o str) \o t, 1, h) = head
           /\ SubSeq((head \o str) \o t, h + 1, h + n) = str
           /\ (head \o str) \o t = head \o (str \o t)
<1>1. h \in Nat /\ n \in Nat /\ Len(t) \in Nat
  OBVIOUS
<1>2. PICK hs : hs = head \o str
  OBVIOUS
<1>3. PICK all : all = hs \o t
  OBVIOUS
<1>4. /\ hs \in Seq(C) /\ Len(hs) = h + n
      /\ \A i \in 1..h : hs[i] = head[i]
      /\ \A i \in 1..n : hs[h + i] = str[i]
  BY <1>2, ConcatProperties
<1>5. /\ all \in Seq(C) /\ Len(all) = (h + n) + Len(t)
      /\ \A i \in 1..(h + n) : all[i] = hs[i]
      /\ \A i \in 1..Len(t) : all[(h + n) + i] = t[i]
  <2>0. hs \in Seq(C)
    BY <1>4
  <2>1. /\ all \in Seq(C) /\ Len(all) = Len(hs) + Len(t)
        /\ \A i \in 1..Len(hs) : all[i] = hs[i]
        /\ \A i \in 1..Len(t) : all[Len(hs) + i] = t[i]
    BY <1>3, <2>0, ConcatProperties
  <2>2. Len(hs) = h + n
    BY <1>4
  <2> QED BY <2>1, <2>2, Zenon
<1>6. SubSeq(all, 1, h) = head
  <2>1. PICK x : x = SubSeq(all, 1, h)
    OBVIOUS
  <2>2. \A i \in 1..h : i \in 1..(h + n) /\ i \in 1..Len(all) /\ all[i] = head[i] /\ all[i] \in C
    BY <1>1, <1>4, <1>5
  <2>3. x \in Seq(C) /\ Len(x) = h /\ \A i \in 1..h : x[i] = all[i]
    <3>1. 1 \in Int /\ h \in Int /\ \A i \in 1..h : all[i] \in C
      BY <1>1, <2>2
    <3>2. /\ x \in Seq(C) /\ Len(x) = IF 1 <= h THEN h - 1 + 1 ELSE 0
          /\ \A i \in 1..(h - 1 + 1) : x[i] = all[1 + i - 1]
      BY <2>1, <3>1, SubSeqProperties
    <3>3. \A i \in 1..h : i \in 1..(h - 1 + 1) /\ 1 + i - 1 = i
      BY <1>1
    <3> QED BY <1>1, <3>2, <3>3
  <2>4. x = head
    BY <2>2, <2>3, SeqEqual
  <2> QED BY <2>1, <2>4
<1>7. SubSeq(all, h + 1, h + n) = str
  <2>1. PICK x : x = SubSeq(all, h + 1, h + n)
    OBVIOUS
  <2>2. ASSUME NEW i \in 1..n PROVE all[h + i] = str[i] /\ all[h + i] \in C
    <3>1. h + i \in 1..(h + n)
      BY <1>1
    <3> QED BY <1>4, <1>5, <3>1
  <2>3. x \in Seq(C) /\ Len(x) = n /\ \A i \in 1..n : x[i] = all[h + i]
    <3>1. h + 1 \in Int /\ h + n \in Int /\ \A i \in (h + 1)..(h + n) : all[i] \in C
      <4>1. ASSUME NEW i \in (h + 1)..(h + n) PROVE all[i] \in C
        <5>1. i \in 1..Len(all)
          BY <1>1, <1>5
        <5> QED BY <1>5, <5>1
      <4> QED BY <1>1, <4>1
    <3>2. /\ x \in Seq(C)
          /\ Len(x) = IF h + 1 <= h + n THEN h + n - (h + 1) + 1 ELSE 0
          /\ \A i \in 1..(h + n - (h + 1) + 1) : x[i] = all[h + 1 + i - 1]
      BY <2>1, <3>1, SubSeqProperties
    <3>3. Len(x) = n
      BY <1>1, <3>2
    <3>4. \A i \in 1..n : i \in 1..(h + n - (h + 1) + 1) /\ h + 1 + i - 1 = h + i
      BY <1>1
    <3> QED BY <3>2, <3>3, <3>4
  <2>4. x = str
    BY <2>2, <2>3, SeqEqual
  <2> QED BY <2>1, <2>4
<1>8. all = head \o (str \o t)
  BY <1>2, <1>3
<1> QED BY <1>2, <1>3, <1>6, <1>7, <1>8

\* A string comes back as it was, whatever follows it, if its length fits the
\* field of n bytes before it (Bytearray.cc:361-401).
THEOREM StringBack ==
    ASSUME NEW str \in Seq(Nat), NEW n \in Nat, Len(str) < TwoTo[ByteBits * n],
           NEW t \in Seq(Nat)
    PROVE  ReadString(WriteString(str, n) \o t, n) = str
<1>1. PICK k \in Nat : k = Len(str)
  OBVIOUS
<1>2. k % TwoTo[ByteBits * n] = k
  <2>1. ByteBits * n \in Nat
    BY ByteFacts
  <2>2. TwoTo[ByteBits * n] \in Nat \ {0}
    BY <2>1, TwoToFacts
  <2>3. k \in 0..(TwoTo[ByteBits * n] - 1)
    BY <1>1, <2>2
  <2> QED BY <2>2, <2>3, SmallRemainder
<1>3. PICK head : head = WriteFixed(k, n, FALSE)
  OBVIOUS
<1>4. WriteString(str, n) = head \o str
  BY <1>1, <1>2, <1>3 DEF WriteString
<1>5. head \in Seq(Nat) /\ Len(head) = n /\ ReadFixed(head, FALSE) = k
  <2>1. /\ head \in Seq(0..(TwoTo[ByteBits] - 1)) /\ Len(head) = n
        /\ ReadFixed(head, FALSE) = k
    BY <1>1, <1>3, FixedBack
  <2>2. PICK S : S = 0..(TwoTo[ByteBits] - 1)
    OBVIOUS
  <2>3. S \subseteq Nat
    BY <2>2, ByteFacts
  <2>4. head \in Seq(S)
    BY <2>1, <2>2
  <2>5. head \in [1..n -> Nat]
    <3>1. head \in [1..Len(head) -> S]
      BY <2>4
    <3> QED BY <2>1, <2>3, <3>1
  <2>6. head \in Seq(Nat)
    BY <2>5
  <2> QED BY <2>1, <2>6
<1>6. /\ SubSeq((head \o str) \o t, 1, n) = head
      /\ SubSeq((head \o str) \o t, n + 1, n + k) = str
  <2>1. /\ SubSeq((head \o str) \o t, 1, Len(head)) = head
        /\ SubSeq((head \o str) \o t, Len(head) + 1, Len(head) + Len(str)) = str
    BY <1>5, Middle
  <2>2. Len(head) = n /\ Len(str) = k
    BY <1>1, <1>5
  <2> QED BY <2>1, <2>2, Zenon
<1> QED BY <1>4, <1>5, <1>6 DEF ReadString

\* A string with a varint before it comes back as it was, whatever follows it
\* (Bytearray.cc:373-376, 402-408).
THEOREM StringVintBack ==
    ASSUME NEW str \in Seq(Nat), Len(str) \in Word, NEW t \in Seq(Nat)
    PROVE  ReadStringVint(WriteStringVint(str) \o t) = str
<1>1. PICK head : head = Varint[Len(str)]
  OBVIOUS
<1>2. head \in Seq(Nat)
  <2>1. <<>> \in Seq(Nat)
    OBVIOUS
  <2> QED BY <1>1, <2>1, VarintBack
<1>3. /\ SubSeq((head \o str) \o t, Len(head) + 1, Len(head) + Len(str)) = str
      /\ (head \o str) \o t = head \o (str \o t)
  BY <1>2, Middle
<1>4. str \o t \in Seq(Nat)
  OBVIOUS
<1>5. /\ VarintLast(head \o (str \o t)) = Len(head)
      /\ VarintValue(head \o (str \o t)) = Len(str)
  BY <1>1, <1>4, VarintBack
<1> QED BY <1>1, <1>3, <1>5 DEF ReadStringVint, WriteStringVint

LEMMA StringsHold == StringsExact
<1> SUFFICES ASSUME NEW n \in 0..(TwoTo[ByteBits] - 1)
             PROVE  LET str == [i \in 1..n |-> i % 2]
                    IN  /\ ReadString(WriteString(str, 1) \o <<1, 1>>, 1) = str
                        /\ ReadStringVint(WriteStringVint(str) \o <<1, 1>>) = str
  BY DEF StringsExact
<1> PICK str : str = [i \in 1..n |-> i % 2]
  OBVIOUS
<1>1. PICK B \in Nat \ {0} : B = TwoTo[ByteBits] /\ ByteBits * 1 = ByteBits
  BY ByteFacts
<1>2. n \in Nat /\ n < B
  BY <1>1
<1>3. str \in Seq(Nat) /\ Len(str) = n
  <2>1. \A i \in 1..n : i % 2 \in Nat
    BY <1>2
  <2>2. str \in [1..n -> Nat]
    BY <2>1
  <2> QED BY <1>2, <2>2
<1>4. Len(str) \in Word
  <2>1. ByteBits \in Nat /\ WordBits \in Nat /\ ByteBits <= WordBits
    <3>1. PICK b \in Nat \ {0}, w \in Nat \ {0} : b = ByteBits /\ w = WordBytes /\ b * w = WordBits
      BY ByteFacts
    <3>2. b <= b * w /\ b * w \in Nat
      OBVIOUS
    <3> QED BY <3>1, <3>2
  <2>2. TwoTo[ByteBits] <= TwoTo[WordBits] /\ TwoTo[WordBits] \in Nat
    BY <2>1, TwoToGrows, TwoToFacts
  <2> QED BY <1>1, <1>2, <1>3, <2>2 DEF Word
<1>5. <<1, 1>> \in Seq(Nat)
  OBVIOUS
<1>6. ReadString(WriteString(str, 1) \o <<1, 1>>, 1) = str
  <2>1. Len(str) < TwoTo[ByteBits * 1]
    BY <1>1, <1>2, <1>3
  <2> QED BY <1>3, <1>5, <2>1, StringBack
<1>7. ReadStringVint(WriteStringVint(str) \o <<1, 1>>) = str
  BY <1>3, <1>4, <1>5, StringVintBack
<1> QED BY <1>6, <1>7

\* What any of the encodings writes is read back (Bytearray.cc:215-408).
THEOREM CodecsAreExact == Spec => []CodecsExact
<1>1. CodecsExact
  BY VarintHolds, ZigzagHolds, FixedHolds, StringsHold DEF CodecsExact
<1> QED BY <1>1, PTL
=============================================================================
