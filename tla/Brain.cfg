SPECIFICATION Spec
CONSTANTS
  a = a
  x = x
  V4 = {a}
  V6 = {x}
  V6Opens = {0, 2, 3}
  cooldown_sec = 2
  allowlist_refresh_sec = 2
  poll_interval = 1
  MaxLag = 1
  MaxFaults = 0
  MaxCrashes = 1
  MaxStops = 0
  MaxReboots = 0
  MaxClock = 8
  Horizon = 3
INVARIANTS
  TypeOK
  NoTimerBeyondCooldown
  BlockEndsInTime
PROPERTY
  KeepsPromise
