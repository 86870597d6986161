--------------------------- MODULE ByteArrayProps ---------------------------
(* What module ByteArray promises, and that it implements FlatBytes, and
   what the encodings of module Codecs promise. *)
EXTENDS ByteArray, Codecs

Contents == Bytes \cup {Garbage}

\* Every variable has its type: the one type invariant of the module.
TypeOK ==
    /\ cells \in [Addresses -> Contents]
    /\ nodes \in 1..MaxNodes
    /\ rpos \in 0..size /\ wpos \in 0..size /\ size \in 0..Capacity
    /\ rnode \in 0..(nodes - 1) \cup {Null} /\ wnode \in 0..(nodes - 1) \cup {Null}
    /\ out \in [from : Nat, bytes : Seq(Contents)] /\ crash \in BOOLEAN

\* The write pointer is always the node of the write position, and null exactly
\* when the chain is full: write and getWriteBuffers never follow a null
\* pointer (Bytearray.cc:81, 95-96, 205-212).
WriteNodeExact == wnode = NodeAt(wpos, nodes)

\* The read pointer never names a wrong node.  It may be null although there
\* are nodes left: if it was null at the end of the chain and the chain has
\* grown since (Bytearray.cc:124-125); reading then is a crash, not wrong data.
ReadNodeNotStale ==
    \/ rnode = NodeAt(rpos, nodes)
    \/ rnode = Null /\ rpos > 0 /\ rpos % Base = 0

\* The positions and the nodes they are said to be in agree after every sequence of
\* calls: what read and write rely on without looking (Bytearray.cc:74-230).
NodesExact == TypeOK /\ WriteNodeExact /\ ReadNodeNotStale

\* A user of ByteArray sees an array of bytes: whatever was written, received,
\* skipped or overwritten, in any pieces and across any node boundaries, is
\* what is read, sent or dumped afterwards; a receive that fails changes nothing.
\* It goes wrong only for a reader that has read to the end and was not moved since,
\* even if more was written (Bytearray.cc:118-125), and for who looks at the end of
\* the bytes or behind it, where no exception is thrown (Bytearray.cc:141).
Flat == INSTANCE FlatBytes WITH
            data <- [i \in 1..size |-> cells[i - 1]], stuck <- (rnode = Null),
            usable <- ~crash, MaxPos <- MaxNodes * Base
ImplementsFlat == Flat!Spec

-----------------------------------------------------------------------------
\* The encodings of module Codecs are functions: what is stated of them here
\* does not depend on the state, and Init only says where TLC evaluates it.

\* A varint is read back as it was written, from exactly its own bytes, whatever
\* follows it (Bytearray.cc:269-327).
VarintExact ==
    Init =>
        \A v \in Word : \A next \in {0, TwoTo[ByteBits] - 1} :
            LET s == Varint[v] \o <<next>>
            IN  VarintValue(s) = v /\ VarintLast(s) = Len(s) - 1

\* Zigzag maps the signed numbers onto the words and back, the smallest number
\* included, and a number of small magnitude to a small word
\* (Bytearray.cc:232-249).
ZigzagExact ==
    Init =>
        \A v \in Signed :
            /\ Unzigzag(Zigzag(v)) = v
            /\ v > -(TwoTo[WordBits - 1]) => Zigzag(v) <= 2 * (IF v < 0 THEN -v ELSE v)

\* Numbers of fixed size are read back in the byte order they were written in,
\* signed ones too; the default order sends the highest byte first
\* (Bytearray.cc:215-267, Endian.h:12-64).
FixedExact ==
    Init =>
        \A littleEndian \in BOOLEAN :
            /\ \A v \in Signed :
                   LET s == WriteFixed(ToWord(v), WordBytes, littleEndian)
                   IN  ToSigned(ReadFixed(s, littleEndian)) = v
            /\ \A v \in Word :
                   WriteFixed(v, WordBytes, FALSE)[1]
                       = v \div TwoTo[ByteBits * (WordBytes - 1)]

\* A string comes back as it was, the empty one too, if its length fits the
\* field; writeStringF16 does not check that it does (Bytearray.cc:361-408).
StringsExact ==
    Init =>
        \A n \in 0..(TwoTo[ByteBits] - 1) :
            LET str == [i \in 1..n |-> i % 2] IN
            /\ ReadString(WriteString(str, 1) \o <<1, 1>>, 1) = str
            /\ ReadStringVint(WriteStringVint(str) \o <<1, 1>>) = str

\* What any of the encodings writes is read back (Bytearray.cc:215-408).
CodecsExact == VarintExact /\ ZigzagExact /\ FixedExact /\ StringsExact
==============================================================================
