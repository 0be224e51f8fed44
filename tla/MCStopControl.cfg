CONSTANTS
  LowEdges = 2
  Used <- MCUsed
  Commands <- MCCommands
  MaxInflight = 2
SPECIFICATION CoreFairSpec
INVARIANTS PipelineTypeOK StoppedIsEmpty
PROPERTIES StepsRunOneEach StopIsReached
