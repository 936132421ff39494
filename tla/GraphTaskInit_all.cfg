SPECIFICATION FairSpec
CONSTANTS
  N = 3
  MaxEdges = 2
  NullFn = NullFn
  NullOutput = FALSE
INVARIANTS DependenciesExact NeededExact
PROPERTIES Terminates
CHECK_DEADLOCK FALSE
