SPECIFICATION Spec
CONSTANTS
    Base = 2
    Bytes = {1, 2}
    Garbage = garbage
    Null = null
    MaxNodes = 2
    MaxLen = 3
    WordBits = 8
    GroupBits = 3
    ByteBits = 4
CHECK_DEADLOCK FALSE
INVARIANTS NodesExact CodecsExact
PROPERTIES ImplementsFlat
