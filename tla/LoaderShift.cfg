CONSTANTS
  Loaders <- WholeFiles
  MaxBatches = 14
SPECIFICATION ShiftedSpec
CHECK_DEADLOCK FALSE
INVARIANT ShiftSkips
