\* Requests on a pool of one, with the flush and the ping.
SPECIFICATION FairSpec
CONSTANTS
    r1 = r1
    r2 = r2
    Request <- TwoRequests
    MaxConns = 1
    MaxAttempts = 2
    MaxOutages = 1
    ProbePatience = TRUE
CHECK_DEADLOCK FALSE
INVARIANTS
    TypeOK
    MetricsExact
PROPERTIES
    DrainUnlists
    DownUnlists
    EveryRequestEnds
