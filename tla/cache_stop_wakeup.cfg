CONSTANTS
  NumReq = 2
  ReqItems <- MCReqItems2
  Continuous = {}
  Strategy = "STATIC"
  BatchSize = 1
  Capacity = 2
  WaitForever = FALSE
  CanStop = TRUE
  CanDiscard = FALSE
  Sequential = FALSE
  Sync = {}
SPECIFICATION Spec
PROPERTY StopEndsDispatcher
CHECK_DEADLOCK FALSE
