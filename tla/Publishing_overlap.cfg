SPECIFICATION Spec
CONSTANTS
  Workers = {w1, w2}
  Keys = {1, 2, 3}
  AccountOf <- OneAccount
  Configured = {1, 2, 3}
  Leftover = {}
  None = None
  Kinds = {"publish"}
  LiveFlags = {TRUE}
  Answers <- GoodAnswers
  GateFaults = {"network"}
  DailyCap = 1
  RetryLimit = 1
  Threshold = 5
  MaxRestarts = 2
  Recovers = FALSE
  MaxCommands = 4
  MaxCrashes = 1
  MaxResumes = 0
  MaxDay = 1
SYMMETRY WorkerSymmetry
INVARIANTS OverrunBounded
CHECK_DEADLOCK FALSE
