\* Three requests compete for two codes.
SPECIFICATION FairSpec
CONSTANTS
    q1 = q1
    q2 = q2
    q3 = q3
    c1 = c1
    c2 = c2
    u1 = u1
    u2 = u2
    ftp = ftp
    NotFound = NotFound
    Request <- ThreeRequests
    Code <- TwoCodes
    Url <- TwoUrls
    Refused <- NotHttp
    MaxAttempts = 3
    MaxFaults = 1
CHECK_DEADLOCK FALSE
INVARIANTS
    TypeOK
    AnswersTrue
    OrphansNeedFaults
    OneRowPerRequest
PROPERTIES
    ImplementsDirectory
    EveryRequestAnswered
