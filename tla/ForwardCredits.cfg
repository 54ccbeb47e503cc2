SPECIFICATION FairSpec
CONSTANTS
  Transports = {"tcp", "udp"}
  MaxBuffer = 2
  WriteChCap = 2
  HighWater = 2
  LowWater = 1
  Batch = 2
  SemCap = 2
  LaneCap = 3
  ControlCap = 2
  MaxFrames = 3
INVARIANTS CreditsCirculate TailDelivered PausedHasTrigger
PROPERTY SenderServed
