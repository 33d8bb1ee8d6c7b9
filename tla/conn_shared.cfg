SPECIFICATION Spec
CHECK_DEADLOCK FALSE
CONSTANTS
  Caller = {g1, g2}
  Stmts = 2
  MaxCalls = 3
INVARIANT
  OnlyFaultsCloseConn
