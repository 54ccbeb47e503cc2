SPECIFICATION MCSpec
CONSTANTS
  Window = 2
  Batch = 2
  MaxCap = 5
  MaxProbes = 1
INVARIANTS DropsOnlyInflated FlushedBeforeFin
PROPERTIES ImplementsWindow CreditsReturn CloseEnds TeardownEnds
CHECK_DEADLOCK FALSE
