SPECIFICATION ReadersSpec
CONSTANTS
  k1 = k1
  k2 = k2
  k3 = k3
  Keys = {k1, k2, k3}
  Hash <- HashValue
  MaxWrites = 5
  MaxFaults = 1
  c1 = c1
  c2 = c2
  a = a
  ra = ra
  x = x
  Cpus = {c1, c2}
  V4 = {a, ra}
  V6 = {x}
  Emitters = {a, x}
  Reversed <- Swap
  RING = 13
  BigStride = 33
  Junk <- Lengths
  KEEP = 1
  MaxEvents = 3
INVARIANTS
  DumpTypeOK
  DumpComplete
  NoGhosts
  TypeOK
PROPERTIES
  DumpEnds
  TrueAtRecord
  DrainEnds
