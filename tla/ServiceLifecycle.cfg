\* Three requests on a pool of two, a drain longer than the propagation of endpoints.
SPECIFICATION FairSpec
CONSTANTS
    r1 = r1
    r2 = r2
    r3 = r3
    Request = {r1, r2, r3}
    MaxConns = 2
    Drain = 2
    ShutdownTimeout = 3
    Grace = 7
    Propagation = 1
INVARIANTS
    TypeOK
    OrderlyShutdown
    FlushHasPool
    ToldToStopInTime
PROPERTIES
    StopsByItself
CHECK_DEADLOCK FALSE
