CONSTANTS
  Declared <- MCDeclared
  Addresses = {"x"}
  Layouts <- MCLayouts
  Loads <- MCLoads
  Stores <- MCStores
  Objects = {o, p}
  Names = {"b", "m"}
  Values = {"v"}
  Functions <- MCFunctions
  Null = "null"
  Error = "error"
  Junk = "junk"
  None = None
  Features = {}
SYMMETRY Symmetry
SPECIFICATION Spec
INVARIANTS TypeOK CachesAgree
PROPERTIES ImplementsRecords
