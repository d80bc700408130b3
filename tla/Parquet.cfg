SPECIFICATION Spec
CONSTANTS
  Keys = {k1}
  Files = {"even", "short", "old"}
  Columns = {1, 2, 3, 4}
  PageList <- MCPageList
  Headers = {"old"}
  MinValueSize = 16
  Filtered <- MCFiltered
  Shuffles <- MCShuffles
  MaxRead = 1
  MaxCalls = 5
  MaxFailures = 1
INVARIANTS TypeOK PerturbedComplete RowsLineUp
CHECK_DEADLOCK FALSE
