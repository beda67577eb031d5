SPECIFICATION Spec
CONSTANTS
  Width = 3
  Poly = 11
  Coders <- MCCoders
  Matrices <- MCMatrices
  Deltas <- MCDeltas
INVARIANTS TypeOK ParityCurrent AnyShards
