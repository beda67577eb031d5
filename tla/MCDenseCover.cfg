\* minGrain stays below Limit: from there on its double overflows (README).
SPECIFICATION CoverSpec
CONSTANTS
  Bits = 3
  Sets <- MCSets
  MaxSizes = {0, 1, 2, 3, 4, 5}
  MinGrains = {0, 1, 2, 3, 4, 5, 7}
INVARIANTS CoverTypeOK CoverKeepsPromise LiveTree
PROPERTY CoverReturns
\* The call returns once.
CHECK_DEADLOCK FALSE
