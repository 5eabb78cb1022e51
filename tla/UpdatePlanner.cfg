CONSTANTS
    Versions = {1, 2, 3}
    MinVersions = {None, 2}
    Targets = {t1, t2}
    Whitelists = {{t1}, {t1, t2}}
    Hashes = {h1, h2}
    Other = Other
    Initially <- FirstInstallations
    Missing = Missing
    None = None
    MaxChecks = 2
    MaxForeign = 1
    t1 = t1
    t2 = t2
    h1 = h1
    h2 = h2
SPECIFICATION Spec
SYMMETRY Symmetric
CHECK_DEADLOCK FALSE
PROPERTIES VersionsMoveForward PlanIsExact
