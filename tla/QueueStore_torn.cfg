SPECIFICATION Spec
CONSTANTS
  Workers = {w1, w2}
  Keys = {1, 2}
  NoFile = NoFile
  Torn = Torn
  Lease = 1
  MaxClock = 2
  MaxTokens = 3
  MaxCrashes = 1
SYMMETRY WorkerSymmetry
INVARIANT PendingReadable
CHECK_DEADLOCK FALSE
