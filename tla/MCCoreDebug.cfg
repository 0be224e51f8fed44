CONSTANTS
  LowEdges = 2
  Used <- MCUsed
  Commands <- MCCommands
SPECIFICATION FairSpec
INVARIANTS TypeOK WritesActOnce LogReadsInOrder
PROPERTIES AnswerIsFresh RequestIsAnswered
