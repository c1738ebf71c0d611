SPECIFICATION FairSpec
CONSTANTS
  Apis = {"instagram", "facebook", "x"}
  MaxPolls = 2
  RetryLimit = 2
INVARIANT NeverDuplicated
CHECK_DEADLOCK FALSE
