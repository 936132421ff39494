SPECIFICATION Spec
CONSTANTS
  NumWorkers = 2
  NumBatches = 5
  MaxDeaths = 1
INVARIANTS EachBatchOnce Accounting
PROPERTIES NextReturns ShutdownEnds WorkersExit
CHECK_DEADLOCK FALSE
