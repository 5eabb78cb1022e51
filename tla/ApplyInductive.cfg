SPECIFICATION Spec
CONSTANTS
  Paths <- MCPaths
  Contents = {"v0", "v1"}
  Missing = Missing
  AnyFile = AnyFile
  InstallPlans <- TwoPlans
  PlanDirs = {"dirA", "dirB"}
  TxIds = {t1, t2, t3}
  NoTx = NoTx
  NoPlan = NoPlan
  NoSummary = NoSummary
  NoRecord = NoRecord
  NoTerminal = NoTerminal
  NoRequest = NoRequest
  NoStamp = NoStamp
  Stamps = {1}
  InitialFiles <- MCFresh
  ForeignPaths = {"lib"}
  MaxFaults = 1
  MaxCrashes = 1
SYMMETRY Symmetric
INVARIANTS TypeOK SafetyInv
PROPERTY ImplementsAtomicInstall
