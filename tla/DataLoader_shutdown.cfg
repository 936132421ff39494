SPECIFICATION Spec
CONSTANTS
  NumWorkers = 2
  NumBatches = 5
  MaxDeaths = 1
PROPERTY ShutdownReturns
CHECK_DEADLOCK FALSE
