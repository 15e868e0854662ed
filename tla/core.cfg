SPECIFICATION FairSpec
CONSTANTS
  MaxPid = 3
  OneLast = 4
  ZeroLast = 10
  Cycle = 19
  MaxSleep = 1
  Recycled = FALSE
  Ticks = 1
  Programs = {"busy", "short"}
  Grounds <- BothGrounds
  Priorities = {}

INVARIANTS
  TypeOK
  ZombiesAreApart
  CpuIsCur
  NoCrash
  WaitTargetIsChild
  PrevAreLive
PROPERTIES
  EveryoneRuns
  ProgramsEnd
  WaitsAreAnswered
