SPECIFICATION Spec
CONSTANTS
    j1 = j1
    w1 = w1
    Jobs = {j1, j2}
    Workers = {w1, w2}
    Main = main
    UseMain = FALSE
    MaxWaits = 1
    PinOf <- PinJ1
    AnyThread = any
    None = none
    Efd = efd
INVARIANTS CountersExact StopIsClean StartedOnce
