CONSTANTS
    Workers = {u, v}
    Policies <- MCPolicies
    Stores = {"recorder", "updater"}
    MaxTime = 4
    MaxMisses = 4
    Requests = {a, b}
    Handlers = {v, w}
    RequestLen = 1
    ResponseLens = {0, 1, 2}
    MaxSize = 4
    StaleTime = 2
    MaxClock = 3
    MaxApplied = 2
    MaxAccepts = 3
    MaxConns = 2
    MaxWorkers = 1
    MaxDatagrams = 2
SPECIFICATION AllSpec
CHECK_DEADLOCK FALSE
INVARIANTS
    FailuresBounded
    BoundsKept
    AppliedOnce
PROPERTIES
    LockKept
    ListenerEnds
