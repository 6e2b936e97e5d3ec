CONSTANTS
  NumReq = 2
  ReqItems <- MCReqItems2
  Continuous = {}
  Strategy = "STATIC"
  BatchSize = 1
  Capacity = 2
  WaitForever = FALSE
  CanStop = FALSE
  CanDiscard = FALSE
  Sequential = FALSE
  Sync = {}
  NumEngines = 1
  NumNodes = 2
  w1 = w1
  w2 = w2
  Workers <- MCWorkers
  MayFail = TRUE
  NoWorker = NoWorker
SYMMETRY WorkerSymmetry
SPECIFICATION ExecSpec
CHECK_DEADLOCK FALSE
INVARIANT TaskNumMatchesInFlight
