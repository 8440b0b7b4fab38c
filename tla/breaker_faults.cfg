SPECIFICATION FairSpec
CONSTANTS
    Nowhere = Nowhere
    Replicas = {r1}
    Requests = {c1, c2, c3}
    FailureThreshold = 2
    SuccessThreshold = 2
    Transport = "stdio"
    UseRedis = TRUE
    Faults = TRUE
    LateHydration = TRUE
    MaxForced = 1
    MaxBacklog = 1
INVARIANTS TypeOK ProbesBounded ClosedBelowThreshold
PROPERTIES OpenIsProbed HalfOpenEnds
