CONSTANTS
  Loaders <- SmallLoaders
  MaxBatches = 14
SPECIFICATION Spec
INVARIANTS
  TypeOK
  Position
PROPERTIES
  Implements
  LoopEnds
