CONSTANTS
  Infix = {"||", "&&", "==", "*", "**"}
  MaxTokens = 6
SPECIFICATION Spec
INVARIANTS MeansItsTree WellFormed
CHECK_DEADLOCK FALSE
