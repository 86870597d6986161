SPECIFICATION FairSpec
CONSTANTS
    j1 = j1
    w1 = w1
    Jobs = {j1, j2}
    Workers = {w1}
    Main = main
    UseMain = FALSE
    MaxWaits = 2
    PinOf <- FreePins
    AnyThread = any
    None = none
    Efd = efd
PROPERTIES ImplementsPool HeldFiberNotReused EveryCallbackReturns
