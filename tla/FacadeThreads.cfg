SPECIFICATION Spec
CONSTANTS
  Releases = {"r1"}
  Running = "r0"
  None = None
  Starts <- UsualStarts
  MaxPendingTasks = 2
  MaxRequests = 3
  MaxRuns = 1
CHECK_DEADLOCK FALSE
INVARIANTS NoLostTask ReadyAgrees PersistedUntilApplied ObservedState OneHelper ShutdownCancelsWork
PROPERTIES PeriodicKeepsReady QuietAfterShutdown
