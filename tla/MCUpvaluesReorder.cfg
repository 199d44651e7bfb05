CONSTANTS
  Vars = {x1, x2, x3}
  Values = {null, v1}
  Null = null
  Closures = {c1, c2}
  Upvals = {u1, u2, u3}
  MaxFrames = 2
  MaxLocals = 2
  MaxCaptures = 2
  Features = {"reorder"}
  None = None
SYMMETRY Symmetry
SPECIFICATION Spec
INVARIANTS UpdatesShared
