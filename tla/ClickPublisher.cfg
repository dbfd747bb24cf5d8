\* A buffer of two, and enough clicks to fill it while connections break.
SPECIFICATION FairSpec
CONSTANTS
    BufferSize = 2
    MaxClicks = 6
    MaxOutages = 2
CHECK_DEADLOCK FALSE
INVARIANTS
    TypeOK
    Accounting
    InOrder
PROPERTIES
    DropsHaveAReason
    KeepsDraining
    CloseReturns
    StaleChannelReplaced
