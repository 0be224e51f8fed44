SPECIFICATION FairSpec
CONSTANTS
  AddrSpace = 6
  WordBytes = 2
  BusWords = 2
  Data = {d1, d2}
  Sizes <- MCSizes
  HostPointers <- MCHostPointers
  HostModes <- MCHostModes
  None = None
INVARIANTS TypeOK AckMeansDone
PROPERTIES BusCycleHeld ImplementsDebugMemory RequestIsAnswered
