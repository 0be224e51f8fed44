CONSTANTS
  FifoDepth = 2
  Triggers = {1, 2}
  Data = {d1}
  Timeout = 3
  CharTime = 2
SPECIFICATION Spec
INVARIANTS ErrorBitIsTrue
