SPECIFICATION Spec
CONSTANTS
  h1 = h1
  Nobody = Nobody
  OffsetLimit = 1000
  Header <- Lone
  Handles = {h1}
  Corners <- LoneCorners
  Counts = {3}
  Records = 2
  CountLimit = 2
  MaxMoved = 6
  MaxOthers = 1
INVARIANT FillOwnRecord
CHECK_DEADLOCK FALSE
