CONSTANTS
  NoNet = NoNet
  NoFile = NoFile
  NoDesign = NoDesign
  NoPins = NoPins
  OdbPaths <- MCOdbPaths
  DefPaths <- MCDefPaths
  Disks <- MCDisks
  Configs <- MCConfigs
  MaxRuns = 2
SPECIFICATION Spec
INVARIANTS TypeOK DatabaseLast WrittenIsApplied NoNewOffGrid
CHECK_DEADLOCK FALSE
