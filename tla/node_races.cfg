SPECIFICATION Spec
CONSTANTS
  NRELength = 1
  MaxORBs = 2
  MaxEpochs = 3
  MaxBlocks = 4
  ResultQueue = 1
  MaxSignals = 1
  Racing = TRUE
  Faults = {"crash", "rpc", "subscription", "sync"}
  MaxFaults = 1
INVARIANT AcceptedIsMined
 
 
PROPERTY EpochsAdvance
CHECK_DEADLOCK FALSE
