CONSTANTS
  r1 = r1  r2 = r2  r3 = r3
  Requests = {r1, r2}
  Est <- TwoEst
  Actuals = {1, 2}
  MinuteCap = 3
  DayCap = 4
  Via <- StdioVia
  Strict = FALSE
  SlowCalls = FALSE
  LastDay = 0
  MaxFaults = 0
SPECIFICATION Spec
INVARIANTS AnsweredCallsCounted
CHECK_DEADLOCK FALSE
