SPECIFICATION JSpec
CONSTANTS
  NumPackets = 3
  KeyBits = 2
  MayFail = TRUE
  CanError = TRUE
  CanAbort = TRUE
  EosBeforeDestroy = FALSE
  Modes = {"video", "jpeg"}
  OutputBufNum = 2
  CanInitFail = TRUE
  JpegPackets <- MCJpegPackets3
INVARIANT TypeOK FramePtsMatch PtsEntriesTracked BufferOwnership ProgressiveModeCorrect
PROPERTY DestructorReturnsAfterEos
CHECK_DEADLOCK FALSE
