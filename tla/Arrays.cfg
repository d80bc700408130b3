SPECIFICATION Spec
CONSTANTS
  Users = {u1}
  Workers = {w1, w2}
  N = 3
  Pages <- MCPages
  Lead <- MCLead
  LastPage = 1
  MaxPages = 2
  BatchSize = 2
  GroupSize = 1
  CallOps = {"ArrayGet", "ArrayGetElem", "GetBulkN", "GetPerturbed", "GetCond", "GetWithCheckpoint", "ArraySetElem", "ArrayDelete", "ArraySet", "Init"}
  MaxCalls = 1
  MaxFailures = 1
  MaxRefusals = 1
INVARIANTS TypeOK NilMeansStored   GoesOn
SYMMETRY WorkerSymmetry
CHECK_DEADLOCK FALSE
