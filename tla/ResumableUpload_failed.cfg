SPECIFICATION Spec
CONSTANTS
  MediaSize = 5
  ChunkSize = 2
  MaxResume = 3
  MaxForgets = 1
INVARIANT FailureIsNoVideo
CHECK_DEADLOCK FALSE
