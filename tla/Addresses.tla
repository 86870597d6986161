----------------------------- MODULE Addresses -----------------------------
(***************************************************************************)
(* What Address.cc computes: how Lookup cuts a host into node and service,  *)
(* how addresses are ordered, and the addresses a prefix length makes of an *)
(* address.  Text is a sequence of characters, an IPv4 address the set of   *)
(* its one bits (bit 0 is the lowest), an IPv6 address a sequence of such   *)
(* sets, a byte each; putting the bytes of a number in network order        *)
(* renames the bits on both sides of |= alike.                              *)
(***************************************************************************)
EXTENDS Integers, Sequences

CONSTANTS
    V4Bits,   \* 32
    V6Bytes,  \* 16
    ByteSize  \* 8

ASSUME AddressAssumption ==
    V4Bits \in Nat \ {0} /\ V6Bytes \in Nat \ {0} /\ ByteSize \in Nat \ {0}

\* memchr from position `from` on: the first place of c, or one past the end.
Memchr(s, c, from) ==
    LET at == {i \in from..Len(s) : s[i] = c}
    IN  IF at = {} THEN Len(s) + 1 ELSE CHOOSE i \in at : \A j \in at : i <= j

\* Address::Lookup: [node]:service, else node:service, else node.  An empty
\* service stands for none.
HostParts(host) ==
    LET close   == Memchr(host, "]", 2)
        inside  == SubSeq(host, 2, close - 1)
        bracket == host # <<>> /\ host[1] = "[" /\ close <= Len(host)
        colon   == Memchr(host, ":", 1)
        before  == IF colon > Len(host) THEN <<>> ELSE SubSeq(host, 1, colon - 1)
        afterBracket ==
            IF bracket /\ close < Len(host) /\ host[close + 1] = ":"
            THEN SubSeq(host, close + 2, Len(host)) ELSE <<>>
        afterColon == SubSeq(host, colon + 1, Len(host))
    IN  IF bracket /\ inside # <<>> THEN [node |-> inside, service |-> afterBracket]
        ELSE [node    |-> IF before = <<>> THEN host ELSE before,
              service |-> IF afterColon = <<>> THEN afterBracket ELSE afterColon]

-----------------------------------------------------------------------------
\* memcmp of the first n bytes: the first difference decides.
Memcmp(a, b, n) ==
    LET differ == {i \in 1..n : a[i] # b[i]}
        first  == CHOOSE i \in differ : \A j \in differ : i <= j
    IN  IF differ = {} THEN 0 ELSE IF a[first] < b[first] THEN -1 ELSE 1

\* Address::operator< and operator== on the bytes of two sockaddr.
Less(a, b) ==
    LET c == Memcmp(a, b, IF Len(a) < Len(b) THEN Len(a) ELSE Len(b))
    IN  c = -1 \/ (c = 0 /\ Len(a) < Len(b))

Equal(a, b) == Len(a) = Len(b) /\ Memcmp(a, b, Len(a)) = 0

-----------------------------------------------------------------------------
\* Mutant of CreateMask: the prefix has one bit more.
CreateMaskShort(width, prefix) == 0..(width - prefix - 2)

\* CreateMask: the low width - prefix bits.
CreateMask(width, prefix) == 0..(width - prefix - 1)

\* 1 << 32 and (1 << 31) - 1 are undefined for an int: whatever comes out is used.
V4Masks(prefix) ==
    IF prefix <= 1 THEN SUBSET (0..(V4Bits - 1)) ELSE {CreateMask(V4Bits, prefix)}

\* IPv4Address::broadcastAddress and networkAddress: what they may return; there is
\* nothing for a prefix of 32 or more.
V4Broadcast(a, prefix) ==
    {a \cup mask : mask \in IF prefix >= V4Bits THEN {} ELSE V4Masks(prefix)}
V4Network(a, prefix) ==
    {a \cap mask : mask \in IF prefix >= V4Bits THEN {} ELSE V4Masks(prefix)}

\* IPv4Address::subnetMask masks an address that is 0.
V4Subnet(prefix) ==
    {{} \ mask : mask \in IF prefix >= V4Bits THEN {} ELSE V4Masks(prefix)}

V6Byte == 0..(ByteSize - 1)
Split(prefix) == (prefix \div ByteSize) + 1
ByteMask(prefix) == CreateMask(ByteSize, prefix % ByteSize)

\* IPv6Address::broadcastAddress, networkAddress and subnetMask, for a prefix below
\* 128; 128 itself writes past the address.
V6Broadcast(a, prefix) ==
    [i \in 1..V6Bytes |->
        IF i < Split(prefix) THEN a[i]
        ELSE IF i = Split(prefix) THEN a[i] \cup ByteMask(prefix) ELSE V6Byte]

V6Network(a, prefix) ==
    [i \in 1..V6Bytes |->
        IF i < Split(prefix) THEN a[i]
        ELSE IF i = Split(prefix) THEN a[i] \cap ByteMask(prefix) ELSE {}]

V6Subnet(prefix) ==
    [i \in 1..V6Bytes |->
        IF i < Split(prefix) THEN V6Byte
        ELSE IF i = Split(prefix) THEN V6Byte \ ByteMask(prefix) ELSE {}]
==============================================================================
