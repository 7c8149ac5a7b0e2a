SPECIFICATION Spec
CONSTANTS
  Ring = 4
  IdxMod = 32
  ShortMod = 8
  Header = 2
  ReqLen = 3
  RepLen = 3
  Ops = {"request"}
  ReqStarts <- Zero
  RspStarts <- NearEnd
  MaxRequests = 1
  MaxChanges = 1
PROPERTY RequestAnswered
CHECK_DEADLOCK FALSE
