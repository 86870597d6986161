SPECIFICATION FairSpec
CONSTANTS
    Clients = {"c1"}
    Uris = {"a", "b"}
    Patterns = {"*", "a*"}
    Matches <- SomeMatches
    MaxEdits = 3
    Requests <- SomeRequests
    MaxSent = 3
    BufLen = 3
    KeepAlive = TRUE
    None = None
CHECK_DEADLOCK FALSE
INVARIANTS SessionsExact AnsweredInOrder ParamsExact
PROPERTIES Found SessionEnds
