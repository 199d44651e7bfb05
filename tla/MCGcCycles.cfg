CONSTANTS
  Objs = {"a1", "a2"}
  Kind <- MCKind
  Size <- MCSize
  Threshold = 3
  GrowFactor = 2
  MaxRefs = 1
  Cycles = TRUE
  None = None
SPECIFICATION FairSpec
PROPERTY CollectionEnds
