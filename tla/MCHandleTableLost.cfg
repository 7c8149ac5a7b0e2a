SPECIFICATION TableSpec
CONSTANTS
  MinSize = 4
  Refs = {r1}
  NoRef = NoRef
  ShortMod = 16
  MaxHandle = 20
INVARIANT AllHandlesFound
