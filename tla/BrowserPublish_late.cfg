SPECIFICATION Spec
CONSTANTS
  Requests <- MCRequests
  EvidenceTimeout = 5
  PollInterval = 2
  LookTime = 1
  LateEvidence = TRUE
INVARIANT
  SuccessIsOurs
