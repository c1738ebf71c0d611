SPECIFICATION FairSpec
CONSTANTS
  Workers = {w1, w2}
  Keys = {1, 2}
  AccountOf <- OneAccount
  Configured = {1}
  Leftover = {2}
  None = None
  Kinds = {"next", "campaign"}
  LiveFlags = {TRUE, FALSE}
  Answers <- GoodAnswers
  GateFaults = {"network"}
  DailyCap = 5
  RetryLimit = 2
  Threshold = 5
  MaxRestarts = 2
  Recovers = TRUE
  MaxCommands = 3
  MaxCrashes = 0
  MaxResumes = 0
  MaxDay = 0
PROPERTIES CommandsEnd ClaimsReleased ImplementsLedger
CHECK_DEADLOCK FALSE
