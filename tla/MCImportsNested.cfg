CONSTANTS
  Names = {"<main>", "a", "b", "c"}
  Main = "<main>"
  Programs <- MCNested
  MaxDepth = 6
SPECIFICATION FairSpec
INVARIANTS EvaluatedOnce
CHECK_DEADLOCK FALSE
