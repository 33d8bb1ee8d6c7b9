SPECIFICATION Spec
CHECK_DEADLOCK FALSE
CONSTANTS
  MaxArgs = 3
  Durations <- MCDurations
  MaxChan = 3
INVARIANTS
  TypeOK
  SuccessMeansDone
  AgentIntervals
