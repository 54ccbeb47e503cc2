SPECIFICATION FairSpec
CONSTANTS
  Transports = {"udp"}
  MaxBuffer = 3
  WriteChCap = 3
  HighWater = 2
  LowWater = 1
  Batch = 2
  SemCap = 3
  LaneCap = 4
  ControlCap = 2
  MaxFrames = 4
PROPERTY EverySenderServed
