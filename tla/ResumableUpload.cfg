SPECIFICATION FairSpec
CONSTANTS
  MediaSize = 5
  ChunkSize = 2
  MaxResume = 3
  MaxForgets = 1
INVARIANTS TypeOK BytesConfirmed LossIsNoFailure AmbiguousAfterFinal
PROPERTY UploadEnds
CHECK_DEADLOCK FALSE
