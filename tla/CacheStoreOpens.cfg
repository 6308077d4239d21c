SPECIFICATION CacheSpec
CONSTANTS
  Ops <- MCOps
  Kind <- MCKind
  Arg <- MCArg
  Worker <- MCWorker
  Workers = {"A", "B"}
  Keys = {"k1", "k2"}
  Names = {"c", "d"}
  Scenarios <- MCOpens
  CanFail = TRUE
INVARIANTS OpensKept
CHECK_DEADLOCK FALSE
