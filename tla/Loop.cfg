SPECIFICATION LoopSpec
CONSTANTS
  d1 = d1
  MaxTasks = 2
  Delayed <- MCDelayed
  Delays <- MCDelays
  MaxLag = 1
  MaxDepth = 2
  MaxRequests = 3
  Others = {"o1"}
  Breakpoints = TRUE
  Sessions = {"s1", "s2"}
  MaxObjects = 2
  MaxCommands = 1
  Options <- MCOptions
INVARIANTS TasksKept RequestsKept  StartsWhenReleased
PROPERTIES TasksRun ServedUnlessPaused 
CHECK_DEADLOCK FALSE
