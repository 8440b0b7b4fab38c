SPECIFICATION Spec
CONSTANTS
    Nowhere = Nowhere
    Replicas = {r1, r2}
    Requests = {c1}
    FailureThreshold = 1
    SuccessThreshold = 1
    Transport = "http"
    UseRedis = TRUE
    Faults = FALSE
    LateHydration = FALSE
    MaxForced = 0
    MaxBacklog = 2
SYMMETRY Symmetry
INVARIANTS ReplicasAgree
CHECK_DEADLOCK FALSE
