SPECIFICATION FairSpec
CONSTANTS
    j1 = j1
    w1 = w1
    Jobs = {j1, j2}
    Workers = {w1, w2}
    Main = main
    UseMain = TRUE
    MaxWaits = 0
    PinOf <- FreePins
    AnyThread = any
    None = none
    Efd = efd
PROPERTIES EveryCallbackReturns StopReturns
