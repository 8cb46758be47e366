SPECIFICATION Spec
CONSTANTS
  NRELength = 1
  MaxORBs = 1
  MaxEpochs = 3
  MaxBlocks = 5
  ResultQueue = 1
  MaxSignals = 2
  Racing = TRUE
  Faults = {}
  MaxFaults = 0
INVARIANT StopsAtEpochEnd
CHECK_DEADLOCK FALSE
