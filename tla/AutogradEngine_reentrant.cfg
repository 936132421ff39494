SPECIFICATION FairSpec
CONSTANTS
  NumDevices = 1
  Fns <- MCFns
  NextEdges <- MCNextEdges
  InputNr <- MCInputNr
  InputDevice <- MCInputDevice
  SequenceNr <- MCSequenceNr
  Tasks = {"main", "gradinner", "cross"}
  Roots <- MCRoots
  RootInputNr <- MCRootInputNr
  Outputs <- MCOutputs
  CreateGraph <- MCCreateGraph
  Host <- MCHost
  MayThrow = {"b", "c", "d"}
  AllowUndefined = FALSE
  Spurious = TRUE
  GraphRoot = GraphRoot
  NullFn = NullFn
  NoBuffer = NoBuffer
  NoTask = NoTask
  Caller = Caller
INVARIANTS TypeOK CounterExact PushedOnce NoConcurrentApply ResultSound QuiescentReturn CheckpointMeaning
PROPERTIES EveryCallReturns ImplementsBackwardPass
CHECK_DEADLOCK FALSE
