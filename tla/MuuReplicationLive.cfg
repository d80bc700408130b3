CONSTANTS
  N = 3
  Leader = 1
  CommitCount = 3
  Keys = {k1}
  NoKey = NoKey
  Sessions = {s1}
  NoSession = NoSession
  LogSlots = 4
  SessSlots = 2
  Window = 2
  ExclusiveKeys = {}
  MaxZxid = 4
  MaxDrops = 0
  Working = {2}
SPECIFICATION LiveSpec
PROPERTIES EveryWriteCommits WorkingCatchUp
CHECK_DEADLOCK FALSE
