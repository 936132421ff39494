SPECIFICATION Spec
CONSTANTS
  Runs = {"r", "s"}
  Outer <- Separate
  NoRun = NoRun
  Overlap = FALSE
  MaxCallbacks = 3
INVARIANTS CallbacksRun OwnCallbacksOnly
CHECK_DEADLOCK FALSE
