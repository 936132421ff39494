SPECIFICATION FairSpec
CONSTANTS
  Threads = {p1, p2, p3}
  Tasks = {k1, k2, k3}
  Waiters = {w1, w2}
  Destroys = TRUE
  Spurious = TRUE
  NoTask = NoTask
INVARIANTS CompleteExact WaitSound WorkConserving
PROPERTIES TasksRun WaiterReturns DestructorReturns
CHECK_DEADLOCK FALSE
