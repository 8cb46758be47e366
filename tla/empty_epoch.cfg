SPECIFICATION Spec
CONSTANTS
  NRELength = 1
  MAX_REQUESTS = 2
  CP_COMPUTATION = 0
  CP_WITHHOLDING = 0
  CP_EXIT = 0
  development = FALSE
  MaxEROs = 3
  MaxEpoch = 9
  MaxBlock = 10
  MaxTime = 0
CHECK_DEADLOCK FALSE
PROPERTY EmptyHasNoRequestBlock
