SPECIFICATION Spec
CONSTANTS
  Threads = {"t"}
  Storages = {"x"}
  MaxSends = 2
INVARIANT NoDeadlock
CHECK_DEADLOCK FALSE
