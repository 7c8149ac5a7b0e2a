SPECIFICATION Spec
CONSTANTS
  HalfWord = 4
  Rates <- MCRates
  Walls <- MCWalls
  SecNsec = 4
  Delta = 1
  MaxTsc = 1
  MaxUpdates = 1
  MaxWalls = 1
  MaxTicks = 1
  MaxCalls = 1
INVARIANTS MainTimeAccurate SnapshotWhole
PROPERTY ReadReturns
CHECK_DEADLOCK FALSE
