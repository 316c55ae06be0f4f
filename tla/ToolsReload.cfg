SPECIFICATION Spec
CONSTANTS
  a = a
  b = b
  x = x
  w = w
  Workers = {w}
  V4 = {a}
  V6 = {x}
  MAX_ALLOWED = 1
  MaxLoads = 2
INVARIANT
  PinsAreLoaded
