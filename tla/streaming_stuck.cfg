SPECIFICATION FairSpec
CHECK_DEADLOCK FALSE
CONSTANTS
  Key = {k1}
  BufSize = 2
  MaxEvents = 4
  MaxFail = 2
  NoKey = NoKey
PROPERTY
  AggregatorKeepsRunning
