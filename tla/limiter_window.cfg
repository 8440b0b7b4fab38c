SPECIFICATION FairSpec
CONSTANTS
  Processes = {p1}
  Calls = {c1, c2}
  Weights = {1, 2}
  Limits <- MCLimits
  MaxFaults = 0
PROPERTIES CounterEnds
CHECK_DEADLOCK FALSE
