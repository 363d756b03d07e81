CONSTANTS
  Graphs <- Distributed
  MaxAxis = 1
  NProcs = 3
  Rows = 3
  Cols = 3
  MaxIter = 1
  MaxBuffered = 1
SPECIFICATION ProgSpec
CHECK_DEADLOCK FALSE
INVARIANTS
  Drained
  NoneStuck
