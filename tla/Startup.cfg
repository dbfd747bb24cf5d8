\* The environments of docker-compose, one edit and one fault.
SPECIFICATION FairSpec
CONSTANTS
    MaxInt = 65535
    Junk = Junk
    Nothing = Nothing
    AbsoluteURL <- BaseURLs
    Reachable <- Databases
    BaseEnvironment <- Compose
    Edit <- Edits
    LivenessPath = "/livez"
    BackoffLimit = 1
    MaxEdits = 1
    MaxReruns = 1
    MaxFaults = 1
CHECK_DEADLOCK FALSE
INVARIANTS
    TypeOK
    SuccessMeansSchema
    WiredTogether
PROPERTIES
    RoutedStaysRouted
    ServesInTheEnd
