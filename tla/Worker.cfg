SPECIFICATION WorkerSpec
CONSTANTS
  diag = diag
  io = io
  report = report
  latency = latency
  Entries <- MCEntries
  Lingering <- MCLingering
  Latency <- latency
  Limit = 4
  MaxLag = 2
  Promises = {"p", "q"}
  Modes = {"normal", "seed", "seed-userland"}
  Options <- MCOptions
  MaxWork = 1
INVARIANTS   LifeExplained RejectionsReported ModulesWhole
PROPERTIES IdleSpared WorkerGoesOn
CHECK_DEADLOCK FALSE
