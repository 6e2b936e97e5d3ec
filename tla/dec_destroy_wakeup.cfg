SPECIFICATION Spec
CONSTANTS
  NumPackets = 1
  KeyBits = 1
  MayFail = FALSE
  CanError = FALSE
  CanAbort = FALSE
  EosBeforeDestroy = FALSE
  Modes = {"video"}
  OutputBufNum = 1
  CanInitFail = FALSE
PROPERTY DestructorReturns
CHECK_DEADLOCK FALSE
