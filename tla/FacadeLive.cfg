SPECIFICATION FairSpec
CONSTANTS
  Releases = {"r1"}
  Running = "r0"
  None = None
  Starts <- AllStarts
  MaxPendingTasks = 1
  MaxRequests = 2
  MaxRuns = 1
CHECK_DEADLOCK FALSE
PROPERTIES RequestsServed ShutdownEnds
