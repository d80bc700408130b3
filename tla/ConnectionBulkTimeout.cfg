SPECIFICATION FairSpec
CONSTANTS
  Callers = {c1, c2}
  NoCaller = NoCaller
  OpCodes = {get}
  BulkSize = 2
  UseBulk = TRUE
  MaxOps = 4
  MaxTimeouts = 4
  MaxWriteErrors = 0
  MaxDrops = 0
PROPERTIES EveryCallReturns
CHECK_DEADLOCK FALSE
