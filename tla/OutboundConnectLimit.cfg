SPECIFICATION Spec
CONSTANTS
  Conns = {c1, c2}
  MaxOutbound = 1
  MaxSessions = 1
INVARIANT WithinLimit
CHECK_DEADLOCK FALSE
