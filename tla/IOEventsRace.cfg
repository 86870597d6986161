SPECIFICATION FairSpec
CONSTANTS
    Fds = {70}
    Waiters = {w1, w2, w3}
    Pollers = {p1, p2}
    Size0 = 64
    None = None
INVARIANTS PendingExact EventsExact NoMissedEvent
PROPERTIES WaiterResumed
