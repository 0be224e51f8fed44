SPECIFICATION FairSpec
CONSTANTS
  N = 4
  Core <- MCCore
  MaxBurst = 2
  Depth = 2
INVARIANTS TypeOK AnswersAreOwners
PROPERTIES LowPriorityYields
