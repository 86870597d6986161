SPECIFICATION Spec
CONSTANTS
    Users = {u1, u2}
    Cleaner = cleaner
    Conns = {c1, c2}
    MaxRequest = 2
    MaxCalls = 2
    HeadLens = {2, 5}
    BufLen = 4
    BodyLens = {3}
    None = None
SYMMETRY Symmetry
CHECK_DEADLOCK FALSE
INVARIANTS PoolExact NothingOutlivesPool ResponsesExact
