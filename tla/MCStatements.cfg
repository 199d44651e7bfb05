CONSTANTS
  MaxSteps = 6
  MaxOperands = 2
SPECIFICATION Spec
INVARIANTS TypeOK JumpsLand HandlersMatchBlocks StatementsBalanced
CHECK_DEADLOCK FALSE
