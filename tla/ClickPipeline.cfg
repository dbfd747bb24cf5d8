\* Two clicks from the visitor to the table: a connection that breaks, a consumer that
\* fails and is closed, a prefetch window without limit.
SPECIFICATION PipeFairSpec
CONSTANTS
    r1 = r1
    Replica <- OneReplica
    Msg <- Clicks
    Malformed <- NoClick
    BufferSize = 1
    MaxClicks = 2
    MaxOutages = 1
    Prefetch = 0
    BatchSize = 2
    MaxFaults = 1
    MaxFailures = 1
    MaxCloses = 1
CHECK_DEADLOCK FALSE
INVARIANTS
    EveryClickExplained
    CounterMeetsTable
PROPERTIES
    WrittenIsStored
