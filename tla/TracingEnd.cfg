SPECIFICATION TraceSpec
CONSTANTS
  Categories = {"a"}
  PerFile = 3
  MaxEvents = 4
  MaxForks = 1
INVARIANTS WriterEnds
CHECK_DEADLOCK FALSE
