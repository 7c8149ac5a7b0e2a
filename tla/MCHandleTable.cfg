SPECIFICATION TableSpec
CONSTANTS
  MinSize = 2
  Refs = {r1, r2}
  NoRef = NoRef
  ShortMod = 8
  MaxHandle = 16
INVARIANTS
  LookupSound
  UsedCountsHeld
  ShortHandleFinds
PROPERTIES
  AllocateReturns
  ImplementsMap
