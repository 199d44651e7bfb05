CONSTANTS
  Code <- MCCode
  Elements <- MCElements
  BoundTo <- MCBoundTo
  MethodOf <- MCMethodOf
  MethodParams = 0
  Data = {"null", "obj"}
  Error = "error"
  Junk = "junk"
  Null = "null"
  EvalLimit = 3
  MaxOperands = 3
  MaxArgs = 2
  MaxTry = 1
  MaxLeft = 1
  None = None
SPECIFICATION Spec
INVARIANTS TypeOK RoomSuffices
PROPERTIES ImplementsActivations
