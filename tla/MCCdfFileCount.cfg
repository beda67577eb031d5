SPECIFICATION Spec
CONSTANTS
  h1 = h1
  Nobody = Nobody
  OffsetLimit = 1000
  Header <- Mixed
  Handles = {h1}
  Corners <- CountCorners
  Counts = {3}
  Records = 2
  CountLimit = 2
  MaxMoved = 6
  MaxOthers = 3
INVARIANTS CountedRecordsExist WrittenRecordsCount
CHECK_DEADLOCK FALSE
