SPECIFICATION Spec
CONSTANTS
  Payloads = {p1, p2}
  Foreign = Foreign
  NoTx = NoTx
  Workers = {w1}
  Duplicates = {TRUE, FALSE}
  MaxNumPending = 3
  Confirmation = 1
  ConfirmationDelay = 1
  SendDelay = 1
  MinGasPrice = 100
  MaxGasPrice = 120
  DefaultGasPrice = 100
  MaxRaws = 2
  MaxNonce = 2
  InitialNonces = {0}
  IdleBlocks = 1
  ReorgDepth = 1
  MaxReorgs = 1
  MaxRestarts = 0
  Faults = {}
SYMMETRY Symmetry
INVARIANT TypeOK
INVARIANT EachQueuedOnce
INVARIANT ConfirmedFinal
INVARIANT RestartKeepsQueues
CHECK_DEADLOCK FALSE
