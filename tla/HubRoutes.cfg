SPECIFICATION MCSpec
CONSTANTS
  b1 = b1
  b2 = b2
  h1 = h1
  h2 = h2
  c1 = c1
  u1 = u1
  u2 = u2
  Hosts = {h1, h2}
  Backends = {b1, b2}
  Claims <- SharedHost
  QueueCap = 6
  MaxVersion = 2
  Tokens <- AnyTokens
  Idle <- Timeouts
  DefaultIdle = 0
  Conns = {c1}
  PeekSlots = 1
  Users = {u1, u2}
  MaxFlows = 1
INVARIANTS NewestIsTrue FairShare EveryClientHeld
PROPERTIES RoutesConverge DeadBackendDrained
