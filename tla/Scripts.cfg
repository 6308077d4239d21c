SPECIFICATION ScriptsSpec
CONSTANTS
  Leftovers = {"o1", "o2"}
  Modules = {"m1", "m2"}
  Boot = {"process", "aworker_options", "module_wrap", "task_queue", "contextify"}
  MaxLoads = 1
  Values = {1, 2}
  Limits = {2, 4, 6}
  Micro = 2
  MaxLate = 1
  MaxFrames = 2
  MaxId = 4
  MaxHrtime = 12
  Timeouts = {"t1", "t2"}
  Immediates = {"i1"}
  Spans = {0, 2}
  TIMEOUT_MAX = 2
  MaxTime = 2
  MaxFired = 2
  MaxNested = 2
INVARIANTS   ContextTied AlarmsKept TimersKept 
PROPERTIES FrozenKept ClearedStaysQuiet
CHECK_DEADLOCK FALSE
