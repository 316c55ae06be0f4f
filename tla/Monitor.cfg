SPECIFICATION BoundedSpec
CONSTANTS
  a = a
  x = x
  V4 = {a}
  V6 = {x}
  V6Opens = {1, 3}
  Exempt = {x}
  TOP = 1
  GLOBAL_LIMIT = 1
  GLOBAL_DEBT = 1
  MaxFrames = 2
  MaxBlocks = 1
  MaxFaults = 1
  MaxCrashes = 1
INVARIANTS
  TypeOK
  BooksBalance
PROPERTIES
  AlarmsAreReal
  RateNeverInflated
  RowsTellBlocks
  FloodIsCounted
