CONSTANTS
  N = 3
  Leader = 1
  CommitCount = 3
  Keys = {k1, k2}
  NoKey = NoKey
  Sessions = {s1, s2}
  NoSession = NoSession
  LogSlots = 3
  SessSlots = 2
  Window = 2
  ExclusiveKeys = {k1}
  MaxZxid = 4
  MaxDrops = 1
  Working = {}
SPECIFICATION Spec
SYMMETRY Symmetric
INVARIANTS TypeOK CommittedIsAnswered FollowerAppliesInOrder  ExclusiveReadsCommitted
PROPERTIES ImplementsBroadcast FlipsRightKey
CHECK_DEADLOCK FALSE
