SPECIFICATION FairSpec
CHECK_DEADLOCK FALSE
CONSTANTS
  Key = {k1, k2}
  BufSize = 2
  MaxEvents = 6
  MaxFail = 3
  NoKey = NoKey
INVARIANTS
  TypeOK
  EveryConnectionCounted
  DrainNeverBlocks
PROPERTY
  CountSpec
  TracedFlowsSettle
