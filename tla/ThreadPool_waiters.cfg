SPECIFICATION FairSpec
CONSTANTS
  Threads = {p1, p2}
  Tasks = {k1, k2}
  Waiters = {w1, w2}
  Destroys = FALSE
  Spurious = FALSE
  NoTask = NoTask
PROPERTIES WaitersReturn
CHECK_DEADLOCK FALSE
