CONSTANTS
  Objs = {"a1", "f", "c"}
  Kind <- MCKind
  Size <- MCSize
  Threshold = 3
  GrowFactor = 2
  MaxRefs = 2
  Cycles = FALSE
  None = None
SPECIFICATION FairSpec
INVARIANTS TypeOK ReachableKept AccountsExact
PROPERTIES GarbageFreed CodeOutlivesFunction CollectionEnds
