SPECIFICATION Spec
CONSTANTS
  Entries = 5
  Reserved = 2
  Frames = {f1, f2}
  Domains = {d1}
  NewFrame = NewFrame
  MaxGrants = 3
INVARIANTS
  ListIsUnused
  MapsOnlyGranted
PROPERTIES
  TransferYieldsNewFrame
  EndReturns
