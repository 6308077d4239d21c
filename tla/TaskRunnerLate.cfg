SPECIFICATION TaskFairSpec
CONSTANTS
  d1 = d1
  d2 = d2
  MaxTasks = 1
  Delayed <- MCOneDelayed
  Delays <- MCDelays
  MaxLag = 1
  MaxDepth = 1
PROPERTIES DelayedRun
