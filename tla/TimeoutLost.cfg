SPECIFICATION FairSpec
CONSTANTS
    Fds = {3}
    Fibers = {f1, f2}
    Sleepers = {}
    Kinds <- Reads
    Timeouts = {"READ"}
    Size0 = 64
    MaxOpens = 1
    MaxChanges = 0
    MaxStale = 0
    None = None
CHECK_DEADLOCK FALSE
PROPERTIES TimeoutHonoured
