SPECIFICATION Spec
CONSTANTS
  Clients = {c1, c2}
  Tunnels = {}
  Sizes = {1, 2}
  DeficitCap = 2
  MaxObjects = 1
INVARIANT NoPermanentDrift
CHECK_DEADLOCK FALSE
