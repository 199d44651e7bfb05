CONSTANTS
  Names = {"<main>", "a", "b", "c"}
  Main = "<main>"
  Programs <- MCPrograms
  MaxDepth = 6
SPECIFICATION FairSpec
INVARIANTS TypeOK EvaluatedOnce ImportsRunFirst
PROPERTY Ends
CHECK_DEADLOCK FALSE
