CONSTANTS
  Names = {"x", "y"}
  Forms = {"statement", "assigned"}
  MaxSteps = 6
  MaxDepth = 3
  Unnamed = Unnamed
SPECIFICATION Spec
INVARIANTS ResolvesLexically
CHECK_DEADLOCK FALSE
