SPECIFICATION Spec
CONSTANTS
  KERN_PPS_LIMIT = 3
  GLOBAL_PPS_LIMIT = 5
  GLOBAL_REFILL_NS = 2
  GLOBAL_DEBT = 3
  NS_PER_SEC = 8
  WORD = 64
  MaxClock = 24
  MaxStep = 9
  MaxSlips = 3
INVARIANTS
  TypeOK
  NeverMoreGenerous
  DebtBounded
PROPERTY
  SilencePays
