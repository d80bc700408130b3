SPECIFICATION Spec
CONSTANTS
  Users = {u1}
  Workers = {w1}
  N = 2
  Pages <- MCPages
  Lead <- MCLead
  LastPage = 1
  MaxPages = 2
  BatchSize = 2
  GroupSize = 1
  CallOps = {"ArraySet", "ArrayGet"}
  MaxCalls = 2
  MaxFailures = 0
  MaxRefusals = 0
INVARIANT ArraySetReadBack
CHECK_DEADLOCK FALSE
