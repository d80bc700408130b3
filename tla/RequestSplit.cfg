SPECIFICATION FairSpec
CONSTANTS
  Kinds <- AllKinds
  LineWords = 2
  FifoSlots = 2
  MaxRequests = 4
INVARIANTS TypeOK IntactUntilThrown CommandsPaired
PROPERTIES EveryRequestEnds
