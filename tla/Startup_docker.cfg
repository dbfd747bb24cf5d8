\* The liveness probe of deploy/k8s/docker.
SPECIFICATION FairSpec
CONSTANTS
    MaxInt = 65535
    Junk = Junk
    Nothing = Nothing
    AbsoluteURL <- BaseURLs
    Reachable <- Databases
    BaseEnvironment <- Compose
    Edit <- Edits
    LivenessPath = "/healthz"
    BackoffLimit = 1
    MaxEdits = 1
    MaxReruns = 1
    MaxFaults = 1
CHECK_DEADLOCK FALSE
PROPERTIES
    ProbeSpares
