SPECIFICATION Spec
CONSTANTS
  Starts <- All
  NProcs = 2
  PopulationSize = 3
  NumberElites = 1
  NumGenerations = 2
  Costs = {0, 1, 2}
INVARIANTS StrategiesSound BestKept GradientsAdjoint
PROPERTY SearchEnds
