SPECIFICATION IoSpec
CONSTANTS
  Ops <- MCOps
  Kind <- MCKind
  Arg <- MCArg
  Worker <- MCWorker
  Workers = {"A", "B"}
  Keys = {"k1", "k2"}
  Names = {"c", "d"}
  Scenarios <- MCScenarios
  CanFail = TRUE
  Zips = {"z1"}
  Unzips = {"u1"}
  MaxPush = 3
  MaxTick = 2
  MaxChunk = 1
  Transfers = {"t1", "t2", "u1"}
  Uploads = {"u1"}
  MaxChunks = 1
  MaxWrites = 1
INVARIANTS StreamsKept  CacheKept 
 
CHECK_DEADLOCK FALSE
