SPECIFICATION Spec
CONSTANTS
  a = a
  x = x
  V4 = {a}
  V6 = {}
  V6Opens = {3}
  cooldown_sec = 3
  allowlist_refresh_sec = 2
  poll_interval = 1
  MaxLag = 1
  MaxFaults = 0
  MaxCrashes = 0
  MaxStops = 0
  MaxReboots = 1
  MaxClock = 10
  Horizon = 5
INVARIANT
  NoTimerBeyondCooldown
