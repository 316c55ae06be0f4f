SPECIFICATION Spec
CONSTANTS
  c1 = c1
  c2 = c2
  a = a
  b = b
  e1 = e1
  e2 = e2
  Cpus = {c1, c2}
  Sources = {a, b}
  Elements = {e1, e2}
  MaxFrames = 5
  MaxClock = 2
  KERN_PPS_LIMIT = 2
  GLOBAL_PPS_LIMIT = 8
  GLOBAL_REFILL_NS = 0
  GLOBAL_DEBT = 1
  NS_PER_SEC = 2
  WORD = 64
SYMMETRY Symmetry
INVARIANTS
  TypeOK
  NoBlockWithinLimit
  BlockTakesHold
