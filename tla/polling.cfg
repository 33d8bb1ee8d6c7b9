SPECIFICATION FairSpec
CONSTANTS
  Batch = {b1, b2, b3}
  Flusher = {g1, g2}
  Interval = 1
  FlushInterval = 1
  NoBatch = NoBatch
INVARIANTS
  TypeOK
  EachBatchInOnePlace
PROPERTIES
  PipeSpec
  EveryScanSettles
  SignalEndsProcess
