SPECIFICATION TimerSpec
CONSTANTS
    Fds = {3}
    Fibers = {f1, f2}
    Sleepers = {f1}
    Kinds <- ReadAndConnect
    Timeouts = {"READ"}
    MaxChanges = 1
    MaxStale = 0
    Size0 = 64
    MaxOpens = 2
    None = None
CHECK_DEADLOCK FALSE
INVARIANTS CtxOfThisSocket NeverBlocks NothingLeftBehind
PROPERTIES WaitsEnd
