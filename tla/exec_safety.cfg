CONSTANTS
  NumReq = 2
  ReqItems <- MCReqItems2
  Continuous = {}
  Strategy = "STATIC"
  BatchSize = 1
  Capacity = 2
  WaitForever = FALSE
  CanStop = TRUE
  CanDiscard = TRUE
  Sequential = FALSE
  Sync = {}
  NumEngines = 2
  NumNodes = 2
  w1 = w1
  w2 = w2
  Workers <- MCWorkers
  MayFail = TRUE
  NoWorker = NoWorker
SYMMETRY WorkerSymmetry
SPECIFICATION ExecSpec
INVARIANT ExecTypeOK ExecItemConservation BatchBound
PROPERTY CacheImplementsQueue
CHECK_DEADLOCK FALSE
