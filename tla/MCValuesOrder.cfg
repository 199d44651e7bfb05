CONSTANTS
  Type <- MCType
  MaxLen <- MCMaxLen
  Least = 8
  Most = 7
  Scalars <- MCScalars
  Half = 8
  CStack = 3
  None = None
SPECIFICATION Spec
INVARIANTS IntegersOrdered
