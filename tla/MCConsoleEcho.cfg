SPECIFICATION Spec
CONSTANTS
  OutSize = 4
  InSize = 4
  IdxMod = 32
  OutStarts <- Wrapping
  InStarts <- Zero
  Texts <- Line
  MaxPrints = 1
  MaxTyped = 1
INVARIANT AllSent
CHECK_DEADLOCK FALSE
