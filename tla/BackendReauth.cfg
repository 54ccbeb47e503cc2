SPECIFICATION FairSpec
CONSTANTS
  Interval = 2
  Jitter = 1
  Grace = 1
  Caps = {3}
  CheckTime = 1
  AuthTime = 1
  CtlCap = 1
  OutCap = 2
  MaxAnswers = 2
  MaxRounds = 2
INVARIANTS NoFrameAfterClose SessionBounded
PROPERTIES FreshAnswer PumpsEnd
CHECK_DEADLOCK FALSE
