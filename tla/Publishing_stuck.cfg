SPECIFICATION FairSpec
CONSTANTS
  Workers = {w1, w2}
  Keys = {1}
  AccountOf <- OneAccount
  Configured = {1}
  Leftover = {}
  None = None
  Kinds = {"add", "publish", "next", "campaign"}
  LiveFlags = {TRUE}
  Answers <- GoodAnswers
  GateFaults = {"network"}
  DailyCap = 5
  RetryLimit = 2
  Threshold = 5
  MaxRestarts = 2
  Recovers = FALSE
  MaxCommands = 3
  MaxCrashes = 1
  MaxResumes = 0
  MaxDay = 0
PROPERTY ClaimsReleased
CHECK_DEADLOCK FALSE
