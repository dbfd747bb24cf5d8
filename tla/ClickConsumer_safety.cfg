\* Two replicas, a batch of two, a prefetch window of three.
SPECIFICATION Spec
CONSTANTS
    r1 = r1
    r2 = r2
    m1 = m1
    m2 = m2
    m3 = m3
    bad = bad
    Replica <- TwoReplicas
    Msg <- ThreeMessages
    Malformed <- OneBad
    Prefetch = 3
    BatchSize = 2
    MaxFaults = 1
    MaxFailures = 1
    MaxCloses = 1
SYMMETRY Symmetry
CHECK_DEADLOCK FALSE
INVARIANTS
    TypeOK
    NoLoss
    AckCoversBatchOnly
    AnswersOutstandingTag
    DuplicatesNeedFaults
PROPERTIES
    ImplementsSink
