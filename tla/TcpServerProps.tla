--------------------------- MODULE TcpServerProps ---------------------------
(* What TcpServer promises. *)
EXTENDS TcpServer, Addresses

\* The instance TLC checks.
SomeBinds == {<<"l1">>, <<"l1", "l2">>, <<"l2", "l2">>}

\* Every variable has its type: the one type invariant of the module.
TcpTypeOK ==
    /\ threads \in 1..MaxThreads /\ isStop \in BOOLEAN
    /\ socks \in Seq(Listeners) /\ listening \subseteq Listeners
    /\ closing \subseteq Listeners /\ valid \subseteq Listeners
    /\ starts \in 0..MaxStarts /\ stops \in 0..MaxStarts
    /\ loop \in [Loops -> {"none", "queued", "check", "accept", "register",
                           "waiting", "woken", "retry", "done"}]
    /\ stopper \in [Stoppers -> [at : {"none", "queued", "cancel", "mark", "close", "reset",
                                       "done"},
                                 i : Nat]]
    /\ socks # <<>> => \A s \in Stoppers : stopper[s].i <= Len(socks) + 1
    /\ knocking \in [Listeners -> 0..MaxClients]
    /\ twice \in BOOLEAN /\ wild \in BOOLEAN

\* Once stop has set the flag a loop accepts at most one more client, even if
\* cancelAll wakes it while clients knock (Tcp_server.cc:72, 96-113).
AtMostOneLate == \A t \in Loops : late[t] <= 1

\* When the last lambda of stop is done, no socket of the server listens, although
\* two lambdas may have been closing them at once, and start may have made loops for
\* them in between (Tcp_server.cc:86-113).  Nothing is said of what comes after a
\* lambda that clears m_socks while another one, or start, goes through it (wild).
StoppedIsClosed ==
    isStop /\ stops > 0 /\ (\A s \in Stoppers : stopper[s].at \in {"none", "done"})
        => socks = <<>> /\ listening = {}

\* With one thread in the accept worker no loop is left waiting for a socket that
\* has been closed: cancelAll finds its event first.  (With two, a loop that close
\* has woken may register once more before the system closes the socket.)
NobodyWaitsForClosed ==
    threads = 1 => \A t \in Loops : loop[t] = "waiting" => t.sock \in listening

\* With one thread in the accept worker no number is closed twice, however often
\* the server is stopped: two lambdas never meet, and m_sockfd is -1 before the next
\* one looks at it (Socket.cc:269-281).  (With two threads one may close a number
\* that the system has given to somebody else.)
ClosedOnce == threads = 1 => ~twice

\* What stop promises of sockets and loops, in every order of its task, the loops,
\* their clients and a second start (Tcp_server.cc:50-120, Socket.cc:269-281).
SocketsExact ==
    TcpTypeOK /\ AtMostOneLate /\ StoppedIsClosed /\ NobodyWaitsForClosed /\ ClosedOnce

\* A loop or a lambda of stop has not finished.
Active ==
    \/ \E t \in Loops : loop[t] \notin {"none", "done"}
    \/ \E s \in Stoppers : stopper[s].at \notin {"none", "done"}

\* stop ends: with one thread in the accept worker every loop and every lambda
\* of stop finishes, unless the server is started again.
StopEnds == threads = 1 /\ isStop /\ Active ~> ~isStop \/ ~Active

\* Every loop of the first start leaves its thread again and again: it runs out of
\* clients, and accept does not fail for ever.
LoopsYield == \A l \in Listeners : []<>(loop[[n |-> 1, sock |-> l]] \in Off)

\* Nobody knocks for ever at a server that has been started, though clients keep
\* coming to all of its sockets: one who knocks is accepted, or refused because the
\* server stops, as long as no loop holds its thread for ever (LoopsYield), which
\* nothing in startAccept prevents: while accept finds clients, or fails (EMFILE),
\* the loop does not yield (Tcp_server.cc:72-83).  It ends with a second start: a
\* loop that meets a closed socket, or one its predecessor waits for, never leaves
\* its thread.
DoorAnswered ==
    LoopsYield =>
        \A l \in Listeners :
            knocking[l] > 0 /\ starts = 1 ~> knocking[l] = 0 \/ starts > 1

-----------------------------------------------------------------------------
\* What module Addresses computes of the addresses a server is bound to.  TcpInit
\* only says where TLC evaluates it: nothing here depends on the state.

Names    == {n \in BoundedSeq({"a", ":"}, 3) : n # <<>>}
Services == {<<>>, <<"1">>, <<"1", "2">>}
WithService(node, s) == IF s = <<>> THEN node ELSE node \o <<":">> \o s

\* Lookup takes host:port and [address]:port apart again, with or without a
\* port, when the address in brackets contains colons, too (Address.cc:113-138).
HostTakenApart ==
    TcpInit =>
        \A n \in Names, s \in Services :
            LET parts == [node |-> n, service |-> s]
            IN  /\ HostParts(WithService(<<"[">> \o n \o <<"]">>, s)) = parts
                /\ (\A i \in DOMAIN n : n[i] # ":") => HostParts(WithService(n, s)) = parts

SomeAddresses == BoundedSeq(0..2, 3) \ {<<>>}

\* operator< is a strict total order that agrees with operator==, for addresses
\* of families and lengths that differ (Address.cc:49-67): std::map and std::set
\* keep one entry per address.
AddressesOrdered ==
    TcpInit =>
        \A a, b \in SomeAddresses :
            /\ Cardinality({c \in {1, 2, 3} : \/ c = 1 /\ Less(a, b)
                                              \/ c = 2 /\ Less(b, a)
                                              \/ c = 3 /\ Equal(a, b)}) = 1
            /\ Equal(a, b) <=> a = b
            /\ \A c \in SomeAddresses : Less(a, b) /\ Less(b, c) => Less(a, c)

\* Bit i of an IPv6 address counted from its first one.
V6Bit(a, i) == (ByteSize - 1 - (i % ByteSize)) \in a[(i \div ByteSize) + 1]

\* A broadcast address keeps the prefix and has every other bit set, and an IPv6
\* subnet mask is the prefix, byte by byte and across them.  That is so for the
\* prefixes 2 to 31 of IPv4 (0 and 1 shift and overflow an int, 32 is refused) and 0
\* to 127 of IPv6 (128 writes past the address).  What Address.h:88-92 calls the
\* network's address and the subnet mask is something else in the code: IPv4 keeps
\* the bits of the host and drops the network's, IPv6 does so in the byte where the
\* prefix ends, and an IPv4 subnet mask is 0 (Address.cc:16-28, 419-450, 511-541).
MasksExact ==
    TcpInit =>
        /\ \A a \in SUBSET (0..(V4Bits - 1)), p \in 2..(V4Bits - 1) :
               \A b \in V4Broadcast(a, p), n \in V4Network(a, p), m \in V4Subnet(p) :
                   \A i \in 0..(V4Bits - 1) :
                       /\ i \in b <=> i < V4Bits - p \/ i \in a
                       /\ i \in n <=> i < V4Bits - p /\ i \in a
                       /\ i \notin m
        /\ \A a \in SUBSET (0..(V4Bits - 1)) :
               V4Broadcast(a, V4Bits) = {} /\ V4Network(a, V4Bits) = {}
        /\ \A a \in [1..V6Bytes -> SUBSET V6Byte], p \in 0..(V6Bytes * ByteSize - 1) :
               \A i \in 0..(V6Bytes * ByteSize - 1) :
                   /\ V6Bit(V6Broadcast(a, p), i) <=> i >= p \/ V6Bit(a, i)
                   /\ V6Bit(V6Subnet(p), i) <=> i < p
                   /\ V6Bit(V6Network(a, p), i) <=>
                          /\ V6Bit(a, i) /\ i \div ByteSize <= p \div ByteSize
                          /\ i \div ByteSize = p \div ByteSize => i >= p

\* What is computed of addresses (Address.cc:16-67, 113-138, 419-450, 511-541).
AddressesExact == HostTakenApart /\ AddressesOrdered /\ MasksExact
==============================================================================
