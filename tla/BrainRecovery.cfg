SPECIFICATION FairSpec
CONSTANTS
  a = a
  x = x
  V4 = {a}
  V6 = {}
  V6Opens = {3}
  cooldown_sec = 2
  allowlist_refresh_sec = 2
  poll_interval = 1
  MaxLag = 1
  MaxFaults = 1
  MaxCrashes = 1
  MaxStops = 1
  MaxReboots = 1
  MaxClock = 10
  Horizon = 3
INVARIANT
  CheckpointMatchesMemory
PROPERTIES
  KeepsPromise
  Amnesty
