SPECIFICATION FairSpec
CONSTANTS
  MaxCap = 2
  Batch = 1
  Quantum = 1
  QueueCap = 1
  InitialGrants = {0, 1}
  ResumeGrants = {1}
  MaxFrames = 2
  MaxReplenish = 1
INVARIANTS
  NoMissedWakeup
  SendsCovered
PROPERTIES
  FramesMove
  TeardownDrains
