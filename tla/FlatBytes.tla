----------------------------- MODULE FlatBytes -----------------------------
(***************************************************************************)
(* What a user of ByteArray.h relies on: one array of bytes with a         *)
(* position to read from and one to write at, of which what was written    *)
(* last at a place can be read there.  How the array is cut into nodes is  *)
(* not visible.                                                            *)
(***************************************************************************)
EXTENDS Naturals, Sequences

CONSTANTS
    Contents,  \* what a cell can hold
    MaxLen,    \* bound: bytes of one call
    MaxPos     \* bound: positions of the writer

VARIABLES
    data,   \* the valid bytes
    rpos, wpos,
    out,    \* what the last call returned, and from where
    stuck,  \* the reader may be unable to go on
    usable  \* no call has had an undefined effect

vars == <<data, rpos, wpos, out, stuck, usable>>

Answer(pos, b) == [from |-> pos, bytes |-> b]
Nothing == Answer(0, <<>>)

Init == /\ data = <<>> /\ rpos = 0 /\ wpos = 0 /\ out = Nothing
        /\ stuck = FALSE /\ usable = TRUE

Part(pos, n) == SubSeq(data, pos + 1, pos + n)

\* Bytes are written over what is there, or behind it.
Put(b) ==
    /\ Len(data) >= wpos /\ Len(b) > 0
    /\ data' = SubSeq(data, 1, wpos) \o b
                 \o SubSeq(data, wpos + Len(b) + 1, Len(data))
    /\ wpos' = wpos + Len(b)
    /\ out' = Nothing
    /\ UNCHANGED <<rpos, stuck, usable>>

\* A reader may get stuck only where the bytes end, by the move that takes it there.
Arrive(pos) == rpos' = pos /\ stuck' \in BOOLEAN /\ (stuck' => pos = Len(data) /\ pos > 0)

Take(n) ==
    /\ rpos + n <= Len(data) /\ ~stuck
    /\ out' = Answer(rpos, Part(rpos, n)) /\ Arrive(rpos + n)
    /\ UNCHANGED <<data, wpos, usable>>

Look(pos, n) ==
    /\ pos + n <= Len(data)
    /\ out' = Answer(pos, Part(pos, n))
    /\ UNCHANGED <<data, rpos, wpos, stuck, usable>>

\* Who looks behind the bytes is promised an exception (Bytearray.h:78), and gets
\* anything.
Stray(pos, b) ==
    /\ pos > Len(data)
    /\ out' = Answer(pos, b)
    /\ UNCHANGED <<data, rpos, wpos, stuck, usable>>

MoveReader(pos) ==
    /\ pos <= Len(data)
    /\ Arrive(pos) /\ out' = Nothing
    /\ UNCHANGED <<data, wpos, usable>>

\* The writer may leave a gap behind the valid bytes; the gap is valid then.
MoveWriter(pos) ==
    /\ wpos' = pos
    /\ \/ pos <= Len(data) /\ data' = data
       \/ /\ pos > Len(data)
          /\ \E gap \in [1..(pos - Len(data)) -> Contents] : data' = data \o gap
    /\ out' = Nothing
    /\ UNCHANGED <<rpos, stuck, usable>>

Clear ==
    /\ data' = <<>> /\ rpos' = 0 /\ wpos' = 0 /\ out' = Nothing
    /\ stuck' = FALSE /\ usable' = usable

\* A call that reads from pos goes wrong only if the reader is stuck, or if pos is
\* the end of the bytes, if there are any, or behind it.
Break(pos) ==
    /\ stuck \/ pos > Len(data) \/ (pos = Len(data) /\ pos > 0)
    /\ usable' = FALSE /\ out' = Answer(pos, <<>>)
    /\ UNCHANGED <<data, rpos, wpos, stuck>>

Puts        == \E n \in 1..MaxLen : \E b \in [1..n -> Contents] : Put(b)
Takes       == \E n \in 0..Len(data) : Take(n)
Looks       == \E pos, n \in 0..Len(data) : Look(pos, n)
Strays      == \E pos \in 0..(MaxPos + 1) : \E n \in 0..MaxLen :
                   \E b \in [1..n -> Contents] : Stray(pos, b)
MoveReaders == \E pos \in 0..Len(data) : MoveReader(pos)
MoveWriters == \E pos \in 0..MaxPos : MoveWriter(pos)
Breaks      == \E pos \in 0..(MaxPos + 1) : Break(pos)

Next == usable /\ (\/ Puts \/ Takes \/ Looks \/ Strays \/ MoveReaders \/ MoveWriters
                   \/ Clear \/ Breaks)

Spec == Init /\ [][Next]_vars
==============================================================================
