SPECIFICATION Spec
CONSTANTS
  Workers = {w1}
  Keys = {1, 2}
  AccountOf <- OneAccount
  Configured = {1, 2}
  Leftover = {}
  None = None
  Kinds = {"add", "next"}
  LiveFlags = {TRUE, FALSE}
  Answers <- AllAnswers
  GateFaults = {"network"}
  DailyCap = 5
  RetryLimit = 2
  Threshold = 5
  MaxRestarts = 2
  Recovers = FALSE
  MaxCommands = 3
  MaxCrashes = 0
  MaxResumes = 0
  MaxDay = 0
PROPERTY DryRunsKeepLiveWork
CHECK_DEADLOCK FALSE
