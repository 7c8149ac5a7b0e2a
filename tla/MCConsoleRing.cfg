SPECIFICATION Spec
CONSTANTS
  OutSize = 4
  InSize = 4
  IdxMod = 32
  OutStarts <- Wrapping
  InStarts <- Ends
  Texts <- Line
  MaxPrints = 1
  MaxTyped = 2
INVARIANTS
  OutputWhole
  InputWhole
PROPERTIES
  InputTaken
  PrintReturns
CHECK_DEADLOCK FALSE
