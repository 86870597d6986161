SPECIFICATION TcpFairSpec
CONSTANTS
    Listeners = {"l1", "l2"}
    Binds <- SomeBinds
    MaxClients = 1
    MaxThreads = 2
    MaxStarts = 2
    V4Bits = 4
    V6Bytes = 2
    ByteSize = 3
CHECK_DEADLOCK FALSE
INVARIANTS SocketsExact AddressesExact
PROPERTIES StopEnds DoorAnswered
