CONSTANTS
  Names = {"x", "y"}
  Forms = {"statement", "anonymous"}
  MaxSteps = 6
  MaxDepth = 3
  Unnamed = Unnamed
SPECIFICATION Spec
INVARIANTS ResolvesLexically WellFormed
CHECK_DEADLOCK FALSE
