SPECIFICATION MCSpec
CONSTANTS
  Conns = {c1}
  MaxOutbound = 1
  MaxSessions = 2
  Configs <- Allowlists
  Tokens <- Claims
  Good <- Plain
  MinIdle = 2
  MaxIdle = 3
  DefaultIdle = 2
  Ports = {1, 2, 3}
  MaxPermanentFailures = 2
  MaxReads = 2
INVARIANTS
  SessionLeavesNothing
  ReaderNeverBlocks
  ClosedBackendRelaysNothing
  SlotsCoverRelays
  NoWidening
PROPERTIES Reconnects OrphanClosed
CHECK_DEADLOCK FALSE
