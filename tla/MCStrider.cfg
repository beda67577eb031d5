SPECIFICATION FairSpec
CONSTANTS
  Geometries <- AllGeometries
  Counts = {0, 1, 2, 5}
  Sizes <- MCSizes
  MaxMoved = 14
INVARIANTS TypeOK CursorExact CountExact PanicOnlyPastStripe
PROPERTIES TransferInside ShortOnlyAtEnd CallReturns
