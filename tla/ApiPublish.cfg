SPECIFICATION FairSpec
CONSTANTS
  Apis = {"instagram", "facebook", "x"}
  MaxPolls = 2
  RetryLimit = 2
INVARIANTS FinalOnlyWhenReady PostedOnce PublishedIsPosted
PROPERTY Settles
CHECK_DEADLOCK FALSE
