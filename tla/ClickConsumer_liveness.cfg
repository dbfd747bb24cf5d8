\* Two replicas share the queue; a prefetch window smaller than the batch leaves
\* every flush to the ticker.
SPECIFICATION FairSpec
CONSTANTS
    r1 = r1
    r2 = r2
    m1 = m1
    m2 = m2
    m3 = m3
    bad = bad
    Replica <- TwoReplicas
    Msg <- TwoMessages
    Malformed <- OneBad
    Prefetch = 1
    BatchSize = 2
    MaxFaults = 1
    MaxFailures = 1
    MaxCloses = 1
CHECK_DEADLOCK FALSE
PROPERTIES
    EventuallyStored
    MalformedDrains
    CloseReturns
