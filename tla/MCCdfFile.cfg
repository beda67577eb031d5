SPECIFICATION Spec
SYMMETRY HandleSymmetry
CONSTANTS
  h1 = h1
  h2 = h2
  Nobody = Nobody
  OffsetLimit = 1000
  Header <- Mixed
  Handles = {h1, h2}
  Corners <- MixedCorners
  Counts = {3}
  Records = 2
  CountLimit = 2
  MaxMoved = 6
  MaxOthers = 1
INVARIANTS TypeOK OwnBytes FillOwnRecord
PROPERTY ActsAsVarStore
CHECK_DEADLOCK FALSE
