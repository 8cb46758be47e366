SPECIFICATION Spec
CONSTANTS
  Payloads = {p1, p2}
  Foreign = Foreign
  NoTx = NoTx
  Workers = {w1, w2}
  Duplicates = {FALSE}
  MaxNumPending = 2
  Confirmation = 1
  ConfirmationDelay = 4
  SendDelay = 4
  MinGasPrice = 100
  MaxGasPrice = 100
  DefaultGasPrice = 100
  MaxRaws = 2
  MaxNonce = 3
  InitialNonces = {1}
  IdleBlocks = 1
  ReorgDepth = 1
  MaxReorgs = 0
  MaxRestarts = 1
  Faults = {"send", "funds", "receipt", "nonceAt", "header", "crash", "tornAdd", "tornQueue"}
SYMMETRY Symmetry
 
INVARIANT SentIsStored
INVARIANT NeverFollowedTwice
CHECK_DEADLOCK FALSE
