------------------------------ MODULE ByteArray ------------------------------
(***************************************************************************)
(* ByteArray (Bytearray.cc): bytes in a chain of nodes of equal size, with *)
(* a read and a write position and, for each, a pointer to its node.  The  *)
(* pointers are what can go wrong: they are moved by the loops of read and *)
(* write, and not looked up again.                                         *)
(*                                                                         *)
(* read, write and the buffers handed to recvmsg and sendmsg work at       *)
(* "offset of the position in its node" from the start of the node the     *)
(* pointer names; cells are numbered through all nodes.  The calls that    *)
(* throw change nothing and are left out.                                  *)
(***************************************************************************)
EXTENDS Naturals, Sequences

CONSTANTS
    Base,      \* m_base_node_size
    Bytes,     \* the bytes that are written
    Garbage,   \* what an uninitialised cell holds
    Null,      \* the null pointer
    MaxNodes,  \* bound: nodes of the chain
    MaxLen     \* bound: bytes of one call

ASSUME ByteArrayAssumption ==
    /\ Base \in Nat \ {0} /\ MaxNodes \in Nat \ {0} /\ MaxLen \in Nat \ {0}
    /\ Garbage \notin Bytes /\ Null \notin Nat

VARIABLES
    cells,         \* the memory of the nodes
    nodes,         \* nodes in the chain: m_capacity = nodes * Base
    size,          \* m_size
    rpos, wpos,    \* m_read_position, m_write_position
    rnode, wnode,  \* m_read_node, m_write_node: the index of the node, or Null
    out,           \* what the last call returned, and from which position
    crash          \* a null pointer was dereferenced, by the call out tells of

vars == <<cells, nodes, size, rpos, wpos, rnode, wnode, out, crash>>

Capacity == nodes * Base
ReadSize == size - rpos
Addresses == 0..(MaxNodes * Base - 1)
Greater(a, b) == IF a > b THEN a ELSE b
Lesser(a, b) == IF a < b THEN a ELSE b

Answer(pos, b) == [from |-> pos, bytes |-> b]
Nothing == Answer(0, <<>>)

Init ==
    /\ cells = [a \in Addresses |-> Garbage]
    /\ nodes = 1 /\ size = 0
    /\ rpos = 0 /\ wpos = 0 /\ rnode = 0 /\ wnode = 0
    /\ out = Nothing /\ crash = FALSE

\* The node that the loops of read, write, setReadPosition and setWritePosition
\* end at when they have come to address a of a chain of n nodes: past the last
\* byte of a node it is the next one, past the last node there is none.
NodeAt(a, n) == IF a \div Base < n THEN a \div Base ELSE Null

Start(node, pos) == node * Base + (pos % Base)

Stored(start, b) ==
    [a \in Addresses |-> IF a \in start..(start + Len(b) - 1)
                         THEN b[a - start + 1] ELSE cells[a]]

Fetched(start, n) == [i \in 1..n |-> cells[start + i - 1]]

-----------------------------------------------------------------------------
\* Mutant of WriteNode: addCapacity leaves the pointer at the last node.
WriteNodeKept(n) == IF wnode = Null THEN nodes - 1 ELSE wnode

\* addCapacity(n): enough nodes are appended; the write pointer moves to the
\* first of them if there was no room left at all.
Missing(n) == n - Lesser(n, Capacity - wpos)
Grown(n) == nodes + (Missing(n) + Base - 1) \div Base
WriteNode(n) == IF n > 0 /\ wpos = Capacity THEN nodes ELSE wnode

\* write(): all fixed-size, varint and string writes end here, and so does
\* readFromFile.
Write(b) ==
    LET start == Start(WriteNode(Len(b)), wpos) IN
    /\ ~crash /\ b # <<>>
    /\ Grown(Len(b)) <= MaxNodes
    /\ nodes' = Grown(Len(b))
    /\ cells' = Stored(start, b)
    /\ wpos' = wpos + Len(b)
    /\ wnode' = NodeAt(start + Len(b), nodes')
    /\ size' = Greater(size, wpos')
    /\ out' = Nothing
    /\ UNCHANGED <<rpos, rnode, crash>>

\* A call that reads from pos finds no node.
Crash(pos) == crash' = TRUE /\ out' = Answer(pos, <<>>)
              /\ UNCHANGED <<cells, nodes, size, rpos, wpos, rnode, wnode>>

\* Mutant of Read: the pointer stays at a node that has been read to its end.
ReadStaysAtNode(n) ==
    /\ ~crash /\ n <= ReadSize
    /\ IF rnode = Null THEN Crash(rpos)
       ELSE LET start == Start(rnode, rpos) IN
            /\ out' = Answer(rpos, Fetched(start, n))
            /\ rpos' = rpos + n
            /\ rnode' = IF n = 0 THEN rnode ELSE (start + n - 1) \div Base
            /\ UNCHANGED <<cells, nodes, size, wpos, wnode, crash>>

\* read(): the pointer is dereferenced even if there is nothing to read.
Read(n) ==
    /\ ~crash /\ n <= ReadSize
    /\ IF rnode = Null THEN Crash(rpos)
       ELSE LET start == Start(rnode, rpos) IN
            /\ out' = Answer(rpos, Fetched(start, n))
            /\ rpos' = rpos + n
            /\ rnode' = IF n = 0 THEN rnode ELSE NodeAt(start + n, nodes)
            /\ UNCHANGED <<cells, nodes, size, wpos, wnode, crash>>

\* read() from a position, as toString uses it, and getReadBuffers from one: the
\* read pointer is taken if it is in the same node, otherwise the chain is
\* followed.  From behind the valid bytes any n is allowed, as the difference of
\* the two wraps, until the chain ends.
Peek(pos, n) ==
    LET node == IF pos \div Base = rpos \div Base THEN rnode ELSE NodeAt(pos, nodes)
    IN  /\ ~crash
        /\ pos <= size => n <= size - pos
        /\ IF node = Null \/ Start(node, pos) + n > Capacity THEN Crash(pos)
           ELSE /\ out' = Answer(pos, Fetched(Start(node, pos), n))
                /\ UNCHANGED <<cells, nodes, size, rpos, wpos, rnode, wnode, crash>>

\* writeToFile: what there is to read goes to the file; the position stays.
WriteToFile ==
    /\ ~crash
    /\ IF rnode = Null THEN Crash(rpos)
       ELSE /\ out' = Answer(rpos, Fetched(Start(rnode, rpos), ReadSize))
            /\ UNCHANGED <<cells, nodes, size, rpos, wpos, rnode, wnode, crash>>

-----------------------------------------------------------------------------
SetReadPosition(v) ==
    /\ ~crash /\ v <= size
    /\ rpos' = v /\ rnode' = NodeAt(v, nodes) /\ out' = Nothing
    /\ UNCHANGED <<cells, nodes, size, wpos, wnode, crash>>

\* The valid bytes reach at least to the new position.
SetWritePosition(v) ==
    /\ ~crash /\ v <= Capacity
    /\ wpos' = v /\ wnode' = NodeAt(v, nodes) /\ out' = Nothing
    /\ size' = Greater(size, v)
    /\ UNCHANGED <<cells, nodes, rpos, rnode, crash>>

\* Only the root is kept, with its bytes.
Clear ==
    /\ ~crash
    /\ nodes' = 1 /\ size' = 0 /\ rpos' = 0 /\ wpos' = 0 /\ rnode' = 0 /\ wnode' = 0
    /\ cells' = [a \in Addresses |-> IF a < Base THEN cells[a] ELSE Garbage]
    /\ out' = Nothing /\ UNCHANGED crash

\* SocketStream::read(ByteArray): getWriteBuffers makes room for len bytes and
\* recvmsg fills the first of them; then the position is set.
Receive(len, b) ==
    LET start == Start(WriteNode(len), wpos) IN
    /\ ~crash /\ b # <<>> /\ Len(b) <= len
    /\ Grown(len) <= MaxNodes
    /\ nodes' = Grown(len)
    /\ cells' = Stored(start, b)
    /\ wpos' = wpos + Len(b)
    /\ wnode' = NodeAt(wpos', nodes')
    /\ size' = Greater(size, wpos')
    /\ out' = Nothing
    /\ UNCHANGED <<rpos, rnode, crash>>

\* ... unless recvmsg returns nothing: the room stays.
ReceiveFails(len) ==
    /\ ~crash /\ Grown(len) <= MaxNodes
    /\ nodes' = Grown(len) /\ wnode' = WriteNode(len)
    /\ UNCHANGED <<cells, size, rpos, wpos, rnode, out, crash>>

\* SocketStream::write(ByteArray): sendmsg takes n of the bytes getReadBuffers
\* offers.
Send(len, n) ==
    /\ ~crash /\ n > 0 /\ n <= Lesser(len, ReadSize)
    /\ IF rnode = Null THEN Crash(rpos)
       ELSE /\ out' = Answer(rpos, Fetched(Start(rnode, rpos), n))
            /\ rpos' = rpos + n /\ rnode' = NodeAt(rpos', nodes)
            /\ UNCHANGED <<cells, nodes, size, wpos, wnode, crash>>

-----------------------------------------------------------------------------
Inputs == UNION {[1..n -> Bytes] : n \in 1..MaxLen}

Next ==
    \/ \E b \in Inputs : Write(b) \/ \E len \in 1..MaxLen : Receive(len, b)
    \/ \E n \in 0..MaxLen : Read(n) \/ \E len \in 1..MaxLen : Send(len, n)
    \/ \E len \in 1..MaxLen : ReceiveFails(len)
    \/ \E pos \in 0..(MaxNodes * Base + 1) : \E n \in 0..MaxLen : Peek(pos, n)
    \/ WriteToFile
    \/ \E v \in 0..Capacity : SetReadPosition(v) \/ SetWritePosition(v)
    \/ Clear

Spec == Init /\ [][Next]_vars
==============================================================================
