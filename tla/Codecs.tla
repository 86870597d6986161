------------------------------- MODULE Codecs -------------------------------
(***************************************************************************)
(* The encodings of ByteArray (Bytearray.cc, Endian.h): numbers of fixed   *)
(* size in either byte order, varints, zigzag and strings with a length,   *)
(* as functions from values to sequences of bytes and back.  The widths    *)
(* are parameters: the code has words of 32 and 64 bits, bytes of 8 bits   *)
(* and varint groups of 7.  The machine is little-endian.                  *)
(***************************************************************************)
EXTENDS Integers, Sequences, SequencesExt

CONSTANTS WordBits, GroupBits, ByteBits

ASSUME WidthAssumption ==
    /\ WordBits \in Nat \ {0} /\ GroupBits \in Nat \ {0}
    /\ ByteBits = GroupBits + 1 /\ WordBits % ByteBits = 0

\* 1 << n, where nothing is shifted out.
TwoTo[n \in Nat] == IF n = 0 THEN 1 ELSE 2 * TwoTo[n - 1]

\* The number whose digits are s, of so many bits each, the lowest one first.
Number(s, bits) ==
    LET Sum[k \in 0..Len(s)] ==
            IF k = 0 THEN 0 ELSE Sum[k - 1] + s[k] * TwoTo[bits * (k - 1)]
    IN  Sum[Len(s)]

Word   == 0..(TwoTo[WordBits] - 1)
Signed == (-(TwoTo[WordBits - 1]))..(TwoTo[WordBits - 1] - 1)
WordBytes == WordBits \div ByteBits
ToSigned(u) == IF u < TwoTo[WordBits - 1] THEN u ELSE u - TwoTo[WordBits]
ToWord(i) == i % TwoTo[WordBits]

-----------------------------------------------------------------------------
\* writeUint32 and writeUint64: groups of bits from the lowest, the top bit of a
\* byte says that another follows.
Varint[v \in Word] ==
    IF v < TwoTo[GroupBits] THEN <<v>>
    ELSE <<(v % TwoTo[GroupBits]) + TwoTo[GroupBits]>> \o Varint[v \div TwoTo[GroupBits]]

\* Mutant of VarintLast: one byte less than a word can take.
VarintLastEarly(s) ==
    LET most == WordBits \div GroupBits
        ends == {k \in 1..Len(s) : s[k] < TwoTo[GroupBits] \/ k = most}
    IN  CHOOSE k \in ends : \A j \in ends : k <= j

\* readUint32 and readUint64: they stop at a byte without the top bit, or when
\* the shift has come to the width of the word.
VarintLast(s) ==
    LET most == (WordBits + GroupBits - 1) \div GroupBits
        ends == {k \in 1..Len(s) : s[k] < TwoTo[GroupBits] \/ k = most}
    IN  CHOOSE k \in ends : \A j \in ends : k <= j

VarintValue(s) ==
    ToWord(Number([k \in 1..VarintLast(s) |-> s[k] % TwoTo[GroupBits]], GroupBits))

\* EncodeZigzag: the unsigned product wraps.
Zigzag(v) == IF v < 0 THEN ToWord(ToWord(-v) * 2 - 1) ELSE v * 2

\* DecodeZigzag: (v >> 1) ^ -(v & 1).
Unzigzag(u) ==
    ToSigned(IF u % 2 = 0 THEN u \div 2 ELSE TwoTo[WordBits] - 1 - (u \div 2))

-----------------------------------------------------------------------------
\* The bytes of v in memory.
InMemory(v, n) == [i \in 1..n |-> (v \div TwoTo[ByteBits * (i - 1)]) % TwoTo[ByteBits]]
FromMemory(s)   == Number(s, ByteBits)

\* WRITE_FIXED and READ_FIXED: byteswap unless m_endian is that of the machine.
WriteFixed(v, n, littleEndian) ==
    IF littleEndian THEN InMemory(v, n) ELSE Reverse(InMemory(v, n))

ReadFixed(s, littleEndian) ==
    IF littleEndian THEN FromMemory(s) ELSE FromMemory(Reverse(s))

\* writeStringF16, F32, F64: a length of n bytes, then all characters.
WriteString(str, n) == WriteFixed(Len(str) % TwoTo[ByteBits * n], n, FALSE) \o str

ReadString(s, n) ==
    SubSeq(s, n + 1, n + ReadFixed(SubSeq(s, 1, n), FALSE))

\* writeStringVint and readStringVint.
WriteStringVint(str) == Varint[Len(str)] \o str
ReadStringVint(s) ==
    SubSeq(s, VarintLast(s) + 1, VarintLast(s) + VarintValue(s))
==============================================================================
