CONSTANTS
  N = 5
  Leader = 1
  CommitCount = 5
  Keys = {k1}
  NoKey = NoKey
  Sessions = {s1}
  NoSession = NoSession
  LogSlots = 3
  SessSlots = 2
  Window = 2
  ExclusiveKeys = {}
  MaxZxid = 2
  MaxDrops = 1
  Working = {}
SPECIFICATION Spec
SYMMETRY Symmetric
INVARIANTS PeerBookkeeping AcknowledgedIsAccepted CommittedByMajority NoOverlookedQuorum CommitsAreForAccepted
CHECK_DEADLOCK FALSE
