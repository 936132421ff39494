SPECIFICATION Spec
CONSTANTS
  Streams = {"a", "b"}
  Programs <- AllPrograms
  MaxLive = 3
  MaxKernels = 1
INVARIANTS HeapConsistent OomSound
PROPERTIES ReuseSafe
