SPECIFICATION FairSpec
CONSTANTS
  t1 = t1
  t2 = t2
  Tenants = {t1, t2}
  Led = {t1}
  Kinds <- AllKinds
  Found = {TRUE, FALSE}
  FifoSlots = 2
  MaxRequests = 4
  MaxLines = 2
INVARIANTS TypeOK 
 
CHECK_DEADLOCK FALSE
