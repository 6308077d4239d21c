SPECIFICATION QueueFairSpec
CONSTANTS
  MaxRequests = 2
  Others <- MCNoOthers
  Breakpoints = TRUE
PROPERTIES ServedWhilePaused
CHECK_DEADLOCK FALSE
