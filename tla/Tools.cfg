SPECIFICATION BoundedSpec
CONSTANTS
  a = a
  b = b
  x = x
  w = w
  V4 = {a, b}
  V6 = {x}
  Workers = {w}
  MAX_ALLOWED = 1
  MaxLoads = 2
SYMMETRY Symmetry
INVARIANTS
  TypeOK
  CleanReloadAgrees
  AckedIsEffective
PROPERTY
  ListsAgree
