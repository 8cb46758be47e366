SPECIFICATION FairSpec
CONSTANTS
  Payloads = {p1}
  Foreign = Foreign
  NoTx = NoTx
  Workers = {w1}
  Duplicates = {FALSE}
  MaxNumPending = 3
  Confirmation = 1
  ConfirmationDelay = 1
  SendDelay = 1
  MinGasPrice = 100
  MaxGasPrice = 120
  DefaultGasPrice = 100
  MaxRaws = 1
  MaxNonce = 4
  InitialNonces = {0, 1}
  IdleBlocks = 1
  ReorgDepth = 1
  MaxReorgs = 1
  MaxRestarts = 0
  Faults = {}
PROPERTY EventuallyConfirmed
CHECK_DEADLOCK FALSE
