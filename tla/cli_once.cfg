SPECIFICATION FairSpec
CHECK_DEADLOCK FALSE
CONSTANTS
  MaxArgs = 2
  Durations <- MCDurations
  MaxChan = 3
PROPERTY
  OnceEnds
