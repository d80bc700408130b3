SPECIFICATION Spec
CONSTANTS
  Callers = {c1, c2, c3}
  NoCaller = NoCaller
  OpCodes = {get, set}
  BulkSize = 2
  UseBulk = TRUE
  MaxOps = 5
  MaxTimeouts = 2
  MaxWriteErrors = 1
  MaxDrops = 1
SYMMETRY CallerSymmetry
INVARIANTS TypeOK SilentWhenFree 
CHECK_DEADLOCK FALSE
