SPECIFICATION TSpec
CONSTANTS
  MaxPid = 3
  OneLast = 1
  ZeroLast = 2
  Cycle = 3
  MaxSleep = 1
  Recycled = FALSE
  Ticks = 1
  Programs = {"busy"}
  Grounds <- BothGrounds
  Priorities = {}
  Keys = {"INT"}
  MaxKeys = 1
INVARIANT ZombiesHaveReturned
