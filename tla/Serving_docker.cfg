\* The probes of deploy/k8s/docker, which do not set timeoutSeconds.
SPECIFICATION Spec
CONSTANTS
    r1 = r1
    r2 = r2
    Request <- TwoRequests
    MaxConns = 1
    MaxAttempts = 2
    MaxOutages = 1
    ProbePatience = FALSE
CHECK_DEADLOCK FALSE
PROPERTY
    TimeoutsKeepListed
