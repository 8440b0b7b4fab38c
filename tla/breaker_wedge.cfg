SPECIFICATION FairSpec
CONSTANTS
    Nowhere = Nowhere
    Replicas = {r1}
    Requests = {c1, c2}
    FailureThreshold = 2
    SuccessThreshold = 2
    Transport = "http"
    UseRedis = FALSE
    Faults = FALSE
    LateHydration = FALSE
    MaxForced = 0
    MaxBacklog = 1
CHECK_DEADLOCK FALSE
PROPERTIES HalfOpenEnds
