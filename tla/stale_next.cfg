SPECIFICATION Spec
CONSTANTS
  MaxPid = 5
  OneLast = 1
  ZeroLast = 2
  Cycle = 3
  MaxSleep = 1
  Recycled = TRUE
  Ticks = 1
  Programs = {"busy", "short"}
  Grounds <- BothGrounds
  Priorities = {}

INVARIANT ListsAreLive
