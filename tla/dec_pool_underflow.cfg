SPECIFICATION JSpec
CONSTANTS
  NumPackets = 2
  KeyBits = 2
  MayFail = FALSE
  CanError = FALSE
  CanAbort = FALSE
  EosBeforeDestroy = FALSE
  Modes = {"jpeg"}
  OutputBufNum = 1
  CanInitFail = FALSE
  JpegPackets <- MCJpegPackets2
INVARIANT BufferOwnership
CHECK_DEADLOCK FALSE
