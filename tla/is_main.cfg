SPECIFICATION Spec
CONSTANTS
  NumSessions = 3
  SigOf <- MCSigShared
  EngineNum = 1
  MaxThreads = 4
  CanDestroy = TRUE
  Sequential = FALSE
INVARIANT TypeOK MapTracksLive
CHECK_DEADLOCK FALSE
