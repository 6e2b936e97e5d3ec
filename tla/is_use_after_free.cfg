SPECIFICATION Spec
CONSTANTS
  NumSessions = 2
  SigOf <- MCSigPair
  EngineNum = 1
  MaxThreads = 4
  CanDestroy = TRUE
  Sequential = FALSE
INVARIANT NoUseOfDeletedExecutor
CHECK_DEADLOCK FALSE
