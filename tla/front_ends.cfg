SPECIFICATION FrontSpec
CONSTANTS
  Streams = {s1}
  MaxBacklog = 2
  Rows = {a}
  MaxQueue = 2
  MaxAttempts = 2
  MaxWrites = 2
  MaxLoads = 1
  MaxFailures = 1
  Calls = {c1, c2}
  RequestIds = {i1}
  NoCall = NoCall
  Tools = {"read"}
  States = {"CLEAN"}
  Stay = "stay"
  NumWorkflows = 0
  Initial <- NoWorkflows
  Move <- NoWorkflows
  DenyInState <- NoWorkflows
  DenyInCertainty <- NoWorkflows
  CannotFollow <- NoWorkflows
  RequiresState <- NoWorkflows
  MaxOccurrences <- NoWorkflows
  Tags = {}
  Produces <- NoTags
  Disallowed <- NoTags
  AuditorOn = TRUE
  MaxInFlight = 2
  UniqueIds = FALSE
INVARIANTS CleanCloseIsDecided ShutdownFindsUndecided LoneShutdownFlushes
PROPERTIES WholeIsDecided SignalEndsProcess OnlyRetriesGoBack WaitsEnd
CHECK_DEADLOCK FALSE
