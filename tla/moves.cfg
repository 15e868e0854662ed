SPECIFICATION Spec
CONSTANTS
  MaxPid = 3
  OneLast = 1
  ZeroLast = 2
  Cycle = 3
  MaxSleep = 2
  Recycled = TRUE
  Ticks = 2
  Programs = {"busy", "sleep"}
  Grounds <- BothGrounds
  Priorities = {1}

INVARIANTS
  WalksEnd
  DeadAreChanged
  ShellSurvives
  PrevFgIsCur
