CONSTANTS
    Downloads = {1, 2}
    Sizes = {0, 1, 2}
    MaxArtifactBytes = 2
    MaxTotalBytes = 3
    WordMax = 3
    MaxRetries = 1
    None = None
    Missing = Missing
    MaxRuns = 2
    MaxFaults = 1
    MaxCrashes = 1
    MaxForeign = 1
SPECIFICATION Spec
CHECK_DEADLOCK FALSE
INVARIANTS RecordsCoherent StagingSound
