CONSTANTS
  Graphs <- Central
  MaxAxis = 1
  NProcs = 2
  Rows = 2
  Cols = 4
  MaxIter = 2
  MaxBuffered = 1
SPECIFICATION ProgSpec
CHECK_DEADLOCK FALSE
INVARIANTS
  RunTypeOK
  OperandsCurrent
  SnapshotCurrent
  UpdatesLast
  CollectivesAgree
PROPERTY ProgramEnds
