SPECIFICATION FairSpec
CONSTANTS
  Cap = 2
  Batch = 2
  Attempts = 1
  MaxEvents = 2
INVARIANTS BatchCirculates PauseMirrored
PROPERTIES ImplementsWindows PipeFreed StartTunnelEnds
CHECK_DEADLOCK FALSE
