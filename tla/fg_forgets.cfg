SPECIFICATION TSpec
CONSTANTS
  MaxPid = 2
  OneLast = 1
  ZeroLast = 2
  Cycle = 3
  MaxSleep = 1
  Recycled = FALSE
  Ticks = 1
  Programs = {"busy"}
  Grounds <- FgOnly
  Priorities = {}
  Keys = {"INT", "TSTP"}
  MaxKeys = 2
INVARIANT NoWaitForDead
