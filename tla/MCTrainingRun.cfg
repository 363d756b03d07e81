CONSTANTS
  Loaders <- Programs
  MaxBatches = 8
  MaxCrashes = 2
SPECIFICATION FairRun
CHECK_DEADLOCK FALSE
INVARIANTS
  SnapshotsCount
  TrainsInOrder
  RunComplete
  ResumeRealigns
PROPERTY ProcessEnds
