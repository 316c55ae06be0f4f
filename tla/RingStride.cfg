SPECIFICATION Spec
CONSTANTS
  c1 = c1
  c2 = c2
  a = a
  ra = ra
  x = x
  Cpus = {c1}
  V4 = {a, ra}
  V6 = {x}
  Emitters = {a, x}
  Reversed <- Swap
  RING = 13
  BigStride = 33
  Junk <- Lengths
  KEEP = 1
  MaxEvents = 2
INVARIANT
  ConsumerAtRecord
