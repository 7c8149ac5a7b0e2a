SPECIFICATION Spec
CONSTANTS
  Ring = 4
  IdxMod = 32
  ShortMod = 5
  Header = 2
  ReqLen = 3
  RepLen = 3
  Ops = {"request", "watch", "watch_value"}
  ReqStarts <- ZeroOrEnd
  RspStarts <- NearEnd
  MaxRequests = 5
  MaxChanges = 1
INVARIANTS
  RequestsWhole
  ReplyIsMine
  BuffersFreed
PROPERTIES
  RequestReturns
  WatchNotices
CHECK_DEADLOCK FALSE
