CONSTANTS
  NumReq = 2
  ReqItems <- MCReqItems2
  Continuous = {}
  Strategy = "DYNAMIC"
  BatchSize = 2
  Capacity = 2
  WaitForever = FALSE
  CanStop = FALSE
  CanDiscard = FALSE
  Sequential = FALSE
  Sync = {}
  NumEngines = 2
  NumNodes = 2
  w1 = w1
  w2 = w2
  Workers <- MCWorkers
  MayFail = TRUE
  NoWorker = NoWorker
SPECIFICATION ExecSpec
CHECK_DEADLOCK FALSE
PROPERTY ExecAllSentComplete
