SPECIFICATION Spec
CONSTANTS
  Callers = {g1, g2}
  ServerCount = 2
  MaxIdleConns = 1
  BatchSize = 2
  Ops = {"get", "gettimed", "multiget", "delete", "ret", "multiret", "scan", "flushall", "set", "setmulti", "asyncset", "asyncsetlast", "asyncresponse"}
  MaxConns = 3
  MaxRequests = 3
  MaxTimeouts = 1
SYMMETRY CallerSymmetry
INVARIANTS TypeOK OnePlace IdleIsSilent AnswersOwn
CHECK_DEADLOCK FALSE
