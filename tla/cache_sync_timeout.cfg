CONSTANTS
  NumReq = 2
  ReqItems <- MCReqItems2
  Continuous = {}
  Strategy = "STATIC"
  BatchSize = 1
  Capacity = 2
  WaitForever = FALSE
  CanStop = FALSE
  CanDiscard = FALSE
  Sequential = FALSE
  Sync = {2}
SPECIFICATION Spec
INVARIANT NoCallbackAfterSyncTimeout
CHECK_DEADLOCK FALSE
