CONSTANTS
  p1 = p1  p2 = p2
  c1 = c1  c2 = c2  c3 = c3
  tenant = tenant
  Shared = Shared
  Processes = {p1, p2}
  Calls = {c1, c2, c3}
  Genesis = Genesis
  Torn = Torn
  LedgerFaults = 2
  MaxQueue = 3
  BatchSize = 2
  Costed = {1, 3}
  LastJob = 5
  MaxFailures = 1
  Events = {c1, c2, c3}
  Unknown = {c3}
  MaxAttempts = 2
  Newest = 2
  Jobs = {c1, c2, c3}
  Global = Shared
  TenantOf <- TwoTenants
  SlotMax = 2
  TenantMax = 1
  DepthMax = 2
  Concurrency = 1
  Threshold = 1
  MaxFaults = 1
  Checks = {c1, c2}
  Weights = {1, 2}
  Limits <- SmallLimits
  Rows = {c1, c2}
  HotQueue = 2
  HotAttempts = 2
  MaxWrites = 2
  MaxLoads = 1
  HotFailures = 2
SPECIFICATION MCSpec
INVARIANTS
  TypesOK AcceptsOnlyAtTheEnd ValidMeansComplete WrittenInOrder ExitLosesOneBatch
  KeptUntilSent SentOnce SlotsAccounted NoStuckProbe
PROPERTIES
  AcceptedIsWritten QueuesEmpty FallbackWithinLimit BoundedWindowEnds
  Converges
CHECK_DEADLOCK FALSE
