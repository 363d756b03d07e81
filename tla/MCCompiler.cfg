SPECIFICATION Spec
CONSTANTS
  Depth = 2
  Networks = {"inference", "training", "mkldnn", "branches", "import"}
INVARIANTS WalksOrdered Linked NamesDistinct Disjoint ImportFaithful CodeComputes WeightsLearn
PROPERTIES PassesPreserve
