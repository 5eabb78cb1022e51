SPECIFICATION FairSpec
CONSTANTS
  Paths <- MCPaths
  Contents <- MCContents
  Missing = Missing
  AnyFile = AnyFile
  InstallPlans <- JustRemoval
  PlanDirs = {"dirA", "dirB"}
  TxIds = {t1, t2}
  NoTx = NoTx
  NoPlan = NoPlan
  NoSummary = NoSummary
  NoRecord = NoRecord
  NoTerminal = NoTerminal
  NoRequest = NoRequest
  NoStamp = NoStamp
  Stamps = {1, 2}
  InitialFiles <- MCFull
  ForeignPaths = {}
  MaxFaults = 2
  MaxCrashes = 1

INVARIANTS RestartAtMostOnce RecoveryAccepted ReceiptTrustworthy SuccessMeansInstalled
PROPERTY RecoveryTerminates
