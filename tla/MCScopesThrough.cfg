CONSTANTS
  Names = {"x", "y"}
  Forms = {"anonymous", "through"}
  MaxSteps = 7
  MaxDepth = 3
  Unnamed = Unnamed
SPECIFICATION Spec
INVARIANTS ResolvesLexically
CHECK_DEADLOCK FALSE
