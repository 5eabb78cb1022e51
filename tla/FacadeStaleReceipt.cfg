SPECIFICATION Spec
CONSTANTS
  Releases = {"r1"}
  Running = "r0"
  None = None
  Starts <- AfterRollback
  MaxPendingTasks = 2
  MaxRequests = 3
  MaxRuns = 0
CHECK_DEADLOCK FALSE
INVARIANT PersistedUntilApplied
