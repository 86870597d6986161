SPECIFICATION Spec
CONSTANTS
    Timers = {1, 2}
    Runners = {r1}
    Users = {u1}
    Periods = {0, 2}
    Start = 0
    MaxTime = 1
    MaxNext = 3
    MaxSetBacks = 1
    Hour = 0
    MaxTimeout = 2
    IntHalf = 100
    Forever = forever
INVARIANTS TimersExact OneShotOnce NoOversleep
PROPERTIES LaterTimerHelps
