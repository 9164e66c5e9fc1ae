\* start and stop race, from application threads and from handlers.
SPECIFICATION FairSpec
CONSTANTS
    c1 = c1
    c2 = c2
    Callers = {c1, c2}
    PoolSize = 2
    ThreadNum = 1
    NoOne = NoOne
    HandlerCalls = {"start", "stop"}
    MaxCalls = 3
    MaxHandlers = 1
INVARIANTS
    OwnedThreads
    QuietAfterStop
PROPERTIES
    CallsReturn
    PostedRuns
CHECK_DEADLOCK FALSE
