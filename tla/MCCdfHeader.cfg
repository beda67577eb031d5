SPECIFICATION Spec
SYMMETRY NameSymmetry
CONSTANTS
  a = a
  b = b
  c = c
  OffsetLimit = 160
  DimNames <- MCDimNames
  DimLists <- MCDimLists
  VarNames = {a, b, c}
  VarDims <- MCVarDims
  Types = {"BYTE", "DOUBLE", "none"}
  AttTypes = {"SHORT", "none"}
  AttNames = {"u"}
  AttLens = {1}
  MaxVars = 3
  MaxAtts = 1
INVARIANTS TypeOK DefinedPassesCheck NoOverlap RoundTrip
PROPERTY FrozenStays
