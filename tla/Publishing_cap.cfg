SPECIFICATION Spec
CONSTANTS
  Workers = {w1, w2}
  Keys = {1, 2}
  AccountOf <- OneAccount
  Configured = {1, 2}
  Leftover = {}
  None = None
  Kinds = {"add", "next", "campaign"}
  LiveFlags = {TRUE}
  Answers <- GoodAnswers
  GateFaults = {"network"}
  DailyCap = 1
  RetryLimit = 2
  Threshold = 5
  MaxRestarts = 2
  Recovers = FALSE
  MaxCommands = 4
  MaxCrashes = 0
  MaxResumes = 0
  MaxDay = 0
INVARIANT CapHolds
CHECK_DEADLOCK FALSE
