SPECIFICATION Spec
CONSTANTS
  Paths <- MCPaths
  Contents <- MCContents
  Missing = Missing
  AnyFile = AnyFile
  InstallPlans <- JustRemoval
  PlanDirs = {"dirA", "dirB"}
  TxIds = {t1, t2}
  NoTx = NoTx
  NoPlan = NoPlan
  NoSummary = NoSummary
  NoRecord = NoRecord
  NoTerminal = NoTerminal
  NoRequest = NoRequest
  NoStamp = NoStamp
  Stamps = {1}
  InitialFiles <- MCFull
  ForeignPaths = {"app", "lib"}
  MaxFaults = 1
  MaxCrashes = 1
SYMMETRY Symmetric
INVARIANTS EveryChangeIsUndoable DurableBackupsKept
PROPERTIES NoChangeAfterRestart NoForeignLoss CompletionIsFinal
