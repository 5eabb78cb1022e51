SPECIFICATION MCSpec
CONSTANTS
  None = None
  MaxForeign = 2
  MaxFaults = 3
CHECK_DEADLOCK FALSE
INVARIANTS NoFileIsLost ReplacementIsDurable
