CONSTANTS
  NumReq = 3
  ReqItems <- MCReqItems3
  Continuous = {}
  Strategy = "STATIC"
  BatchSize = 1
  Capacity = 1
  WaitForever = TRUE
  CanStop = FALSE
  CanDiscard = FALSE
  Sequential = FALSE
  Sync = {}
SPECIFICATION Spec
PROPERTY AllSentComplete
CHECK_DEADLOCK FALSE
