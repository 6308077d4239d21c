SPECIFICATION EsmSpec
CONSTANTS
  Files = {"m", "b", "c", "d", "e", "f"}
  Main = "m"
  Bare = "bare"
  Graphs <- MCGraphs
  Broken <- MCBroken
  Dynamic = {}
INVARIANTS LinkedWhenResolved
CHECK_DEADLOCK FALSE
