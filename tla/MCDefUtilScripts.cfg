CONSTANTS
  NoNet = NoNet
  NoFile = NoFile
  NoDesign = NoDesign
  OdbPaths <- MCOdbPaths
  DefPaths <- MCDefPaths
  Disks <- MCDisks
  Invocations <- MCInvocations
  MaxRuns = 2
SPECIFICATION Spec
INVARIANTS TypeOK RemoveNetsSpares MergeKeepsExisting RenameLosesNothing ObstructionsAsAsked
CHECK_DEADLOCK FALSE
