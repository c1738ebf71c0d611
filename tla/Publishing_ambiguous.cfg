SPECIFICATION Spec
CONSTANTS
  Workers = {w1, w2, w3}
  Keys = {1}
  AccountOf <- OneAccount
  Configured = {1}
  Leftover = {}
  None = None
  Kinds = {"next", "campaign"}
  LiveFlags = {TRUE}
  Answers <- AllAnswers
  GateFaults = {"network"}
  DailyCap = 5
  RetryLimit = 2
  Threshold = 5
  MaxRestarts = 2
  Recovers = FALSE
  MaxCommands = 3
  MaxCrashes = 0
  MaxResumes = 0
  MaxDay = 0
PROPERTY AmbiguousNotResubmitted
CHECK_DEADLOCK FALSE
