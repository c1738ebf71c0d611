SPECIFICATION Spec
CONSTANTS
  Workers = {w1}
  Keys = {1, 2}
  AccountOf <- OneAccount
  Configured = {1, 2}
  Leftover = {}
  None = None
  Kinds = {"publish", "next", "campaign"}
  LiveFlags = {TRUE, FALSE}
  Answers <- AllAnswers
  GateFaults = {"network"}
  DailyCap = 1
  RetryLimit = 2
  Threshold = 2
  MaxRestarts = 2
  Recovers = FALSE
  MaxCommands = 3
  MaxCrashes = 0
  MaxResumes = 1
  MaxDay = 1
INVARIANTS RetryBound OverrunBounded FailuresAreTheTail
PROPERTIES AmbiguousNotResubmitted PausedNotSubmitted
CHECK_DEADLOCK FALSE
