CONSTANTS
  NumReq = 3
  ReqItems <- MCReqItems3
  Continuous = {}
  Strategy = "DYNAMIC"
  BatchSize = 2
  Capacity = 2
  WaitForever = FALSE
  CanStop = TRUE
  CanDiscard = TRUE
  Sequential = FALSE
  Sync = {3}
SPECIFICATION Spec
INVARIANT ItemConservation BatchBound
PROPERTY CacheImplementsQueue
CHECK_DEADLOCK FALSE
