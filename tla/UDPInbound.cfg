SPECIFICATION FairSpec
CONSTANT BufferCap = 2
PROPERTY CloseReturns
CHECK_DEADLOCK FALSE
