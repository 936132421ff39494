SPECIFICATION Spec
CONSTANTS
  NumDevices = 1
  Fns <- MCFns
  NextEdges <- MCNextEdges
  InputNr <- MCInputNr
  InputDevice <- MCInputDevice
  SequenceNr <- MCSequenceNr
  Tasks = {"main", "inner"}
  Roots <- MCRoots
  RootInputNr <- MCRootInputNr
  Outputs <- MCOutputs
  CreateGraph <- MCCreateGraph
  Host <- MCHost
  MayThrow = {}
  AllowUndefined = FALSE
  Spurious = FALSE
  GraphRoot = GraphRoot
  NullFn = NullFn
  NoBuffer = NoBuffer
  NoTask = NoTask
  Caller = Caller
INVARIANTS NoDangling
CHECK_DEADLOCK FALSE
