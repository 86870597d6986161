SPECIFICATION FairSpec
CONSTANTS
    Vars = {"logs", "x"}
    Values <- SomeValues
    Default <- SomeDefaults
    Threads = {t1, t2}
    Depth = 2
    MaySet <- SomeSettings
    Listeners = {"initer", "other"}
    Slow = "initer"
    SlowVar = "logs"
    Files <- SomeFiles
    MaxLoads = 1
    MaxHooks = 2
    Bad = bad
    None = None
    Names = {"a", "root"}
    Root = "root"
    Writers = {w1}
    MaxEvents = 1
    Formatters = {"", "default", "f", "faulty"}
    Faulty = {"faulty"}
    Debug = 1
    Fatal = 2
    Unknown = 3
    EventLevels = {2}
    Letters <- SomeLetters
    Items <- SomeItems
CHECK_DEADLOCK FALSE
INVARIANTS ListenersUpToDate LoggersExact PatternExact
PROPERTIES Heard LoadEnds
