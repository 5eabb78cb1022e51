SPECIFICATION Spec
CONSTANTS
  Processes = {p1, p2}
  Threads = {t1}
  Releases = {r1, r2, old}
  Legacy = {old}
  Kinds = {"accept", "commit", "save", "clearIf", "clear", "mutateResume", "loadResume"}
  None = None
  Missing = Missing
  Corrupt = Corrupt
  LockAttempts = 2
  MaxCalls = 2
  MaxFaults = 1
  MaxCrashes = 1
  MaxForeign = 1
CHECK_DEADLOCK FALSE
INVARIANT SuccessIsKept
PROPERTIES SnapshotDiscipline Refines
SYMMETRY Symmetry
