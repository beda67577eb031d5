SPECIFICATION Spec
CONSTANTS
  Bits = 3
  Operands <- MCOperands
INVARIANTS TypeOK MergeExact Canonical QueriesAnswer
PROPERTIES ActsAsIntegerSets CallReturns
