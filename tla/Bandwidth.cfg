SPECIFICATION MCSpec
CONSTANTS
  r1 = r1
  r2 = r2
  p1 = p1
  Addrs = {a1, a2, a3}
  Ids = {i1, i2, i3}
  Clients = {c1, c2}
  Tunnels = {t1, t2}
  Sizes = {1, 2}
  DeficitCap = 2
  MaxObjects = 2
SYMMETRY Symmetry
INVARIANTS CountMatchesFlags SharedEntryLives FlowInOnePlace OvershootBounded
CHECK_DEADLOCK FALSE
