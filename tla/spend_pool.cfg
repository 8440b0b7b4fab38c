CONSTANTS
  r1 = r1  r2 = r2  r3 = r3
  Requests = {r1, r2, r3}
  Est <- MixedEst
  Actuals = {0, 3}
  MinuteCap = 3
  DayCap = 4
  Via <- MixedVia
  Strict = FALSE
  SlowCalls = FALSE
  LastDay = 1
  MaxFaults = 2
SPECIFICATION Spec
INVARIANTS TypeOK InFlightCounted DayUndercountBounded FallbackIsSettled
CHECK_DEADLOCK FALSE
