CONSTANTS
  FifoDepth = 2
  Triggers = {1, 2}
  Data = {d1, d2}
  Timeout = 3
  CharTime = 2
SPECIFICATION FairSpec
INVARIANTS TypeOK
PROPERTIES ImplementsReceiveQueue WaitingIsAnnounced
