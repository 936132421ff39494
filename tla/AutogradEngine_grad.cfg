SPECIFICATION Spec
CONSTANTS
  NumDevices = 1
  Fns <- MCFns
  NextEdges <- MCNextEdges
  InputNr <- MCInputNr
  InputDevice <- MCInputDevice
  SequenceNr <- MCSequenceNr
  Tasks = {"main", "grad"}
  Roots <- MCRoots
  RootInputNr <- MCRootInputNr
  Outputs <- MCOutputs
  CreateGraph <- MCCreateGraph
  Host <- MCHost
  MayThrow = {}
  AllowUndefined = TRUE
  Spurious = FALSE
  GraphRoot = GraphRoot
  NullFn = NullFn
  NoBuffer = NoBuffer
  NoTask = NoTask
  Caller = Caller
INVARIANTS GradientComplete ResultSound NoDangling
CHECK_DEADLOCK FALSE
