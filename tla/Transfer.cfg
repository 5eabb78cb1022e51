SPECIFICATION FairSpec
CONSTANTS
  Https = {s1, s2}
  Http = {h1}
  Local = {f1}
  Outside = {x1}
  Limit = 2
  Chunks = {1, 2}
  MaxRedirects = 1
  None = None
  MaxFaults = 1
CHECK_DEADLOCK FALSE
INVARIANTS RequestsInScope PartialFileSound
PROPERTIES RequestEnds
