SPECIFICATION Spec
CONSTANTS
  NRELength = 1
  MAX_REQUESTS = 2
  CP_COMPUTATION = 1
  CP_WITHHOLDING = 2
  CP_EXIT = 1
  development = FALSE
  MaxEROs = 3
  MaxEpoch = 9
  MaxBlock = 10
  MaxTime = 4
CHECK_DEADLOCK FALSE
INVARIANT TypeOK
INVARIANT FinalizedPrefix
INVARIANT FinalizedRequestsMatured
INVARIANT MaturedIsFinalizable
INVARIANT AppliedOnce
 
PROPERTY ImplementsPipeline
