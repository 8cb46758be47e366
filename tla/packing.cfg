SPECIFICATION Spec
CONSTANTS
  NRELength = 2
  MAX_REQUESTS = 2
  CP_COMPUTATION = 0
  CP_WITHHOLDING = 0
  CP_EXIT = 0
  development = TRUE
  MaxEROs = 5
  MaxEpoch = 10
  MaxBlock = 12
  MaxTime = 0
CHECK_DEADLOCK FALSE
INVARIANT OneSubmission
INVARIANT RequestBlocksInOrder
INVARIANT EpochRequests
PROPERTY SealedFrozen
