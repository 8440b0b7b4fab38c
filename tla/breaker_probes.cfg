SPECIFICATION Spec
CONSTANTS
    Nowhere = Nowhere
    Replicas = {r1}
    Requests = {c1, c2, c3}
    FailureThreshold = 2
    SuccessThreshold = 2
    Transport = "http"
    UseRedis = FALSE
    Faults = FALSE
    LateHydration = FALSE
    MaxForced = 0
    MaxBacklog = 1
CHECK_DEADLOCK FALSE
INVARIANT OneProbe
