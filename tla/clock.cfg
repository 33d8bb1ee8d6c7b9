SPECIFICATION FairSpec
CONSTANTS
  Interval = 3
  FlushInterval = 6
  MaxScan = 4
  MaxFlush = 5
  MaxErrors = 8
INVARIANTS
  TypeOK
  NoScanWaits
PROPERTIES
  WaitingIsWorkedOff
