CONSTANTS
  Graphs <- AllGraphs
  MaxAxis = 1
SPECIFICATION FairSpec
CHECK_DEADLOCK FALSE
INVARIANTS
  TypeOK
  LayoutsSound
  SourcesSound
  TransformsImplemented
  SharedLayouts
  OutputsFresh
  UpdateReachesReaders
PROPERTY LoweringCompletes
