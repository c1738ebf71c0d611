SPECIFICATION Spec
CONSTANTS
  Workers = {w1, w2}
  Keys = {1, 2}
  NoFile = NoFile
  Torn = Torn
  Lease = 1
  MaxClock = 2
  MaxTokens = 3
  MaxCrashes = 1
INVARIANTS TypeOK OneHome OneOwner SuccessNeverQueued SettledHasReceipt
PROPERTIES ActiveClaimsKept ImplementsLedger
CHECK_DEADLOCK FALSE
