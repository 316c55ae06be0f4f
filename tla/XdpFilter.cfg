SPECIFICATION Spec
CONSTANTS
  a = a
  b = b
  V4 = {}
  V6 = {a, b}
  Nobody = Nobody
  Protos = {tcp}
  MAX_ENTRIES = 1
  MAX_ENTRIES_V6 = 1
  METER_WORD = 2
  RING_EVENTS = 1
  MaxPackets = 5
  MaxObservations = 1
  MaxClock = 4
  MaxStep = 4
  KERN_PPS_LIMIT = 2
  GLOBAL_PPS_LIMIT = 3
  GLOBAL_REFILL_NS = 1
  GLOBAL_DEBT = 1
  NS_PER_SEC = 2
  WORD = 8
SYMMETRY Symmetry
INVARIANTS
  TypeOK
  NoBlockWithinLimit
  AggregateCap
PROPERTIES
  ActsAsRateLimiter
  BlockHolds
  ShieldsComeDown
  EventsTellBlocks
