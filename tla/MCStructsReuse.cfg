CONSTANTS
  Declared <- MCDeclared
  Addresses = {"x"}
  Layouts <- MCSmaller
  Loads <- MCLoads
  Stores <- MCStores
  Objects = {o, p}
  Names = {"b", "m"}
  Values = {"v"}
  Functions <- MCFunctions
  Null = "null"
  Error = "error"
  Junk = "junk"
  None = None
  Features = {"reuse_address"}
SYMMETRY Symmetry
SPECIFICATION Spec
PROPERTIES ImplementsRecords
