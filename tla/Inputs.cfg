SPECIFICATION Spec
CONSTANTS
  None = None
  Sizes = {1, 2}
  home = home
  away = away
  override = override
  d1 = d1
  d2 = d2
  d3 = d3
  Urls = {home, away}
  First = home
  Override = override
  Allowed = {home}
  MaxManifestBytes = 1
  MaxIndexBytes = 2
  Signed = {d1, d2}
  Unsigned = {d3}
  MaxTargets = 3
  Paths <- MCPaths
  MaxArtifactBytes = 2
  MaxTotalBytes = 5
  MaxEntries = 3
  Keys = {1, 2, 3}
  Releases = {r1, r2}
  Weights = {1, 2}
  MaxAge = 1
  EntryLimit = 2
  ByteLimit = 3
  MaxClock = 2
  MaxBatches = 3
  Cores <- MCCores
  Identifiers <- MCIdentifiers
  MaxIdentifiers = 2
  LastYear = 2100
  MaxYear = 2100
  MaxInstant = 1148327
  Timeouts = {0, 1, 23, 24, 25}
  Remembered = 3
CHECK_DEADLOCK FALSE
INVARIANTS TrustedManifest ManifestInstallable ResumeRecordsSound VersionsOrdered DeadlinesExact
