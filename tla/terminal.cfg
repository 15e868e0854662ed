SPECIFICATION TSpec
CONSTANTS
  MaxPid = 3
  OneLast = 1
  ZeroLast = 2
  Cycle = 3
  MaxSleep = 1
  Recycled = FALSE
  Ticks = 1
  Programs = {"busy", "short"}
  Grounds <- FgOnly
  Priorities = {}
  Keys = {"INT", "TSTP"}
  MaxKeys = 3
INVARIANTS
  TTypeOK
  JobsAreQueued
  QueuedByPriority
PROPERTIES
  PromptSparesJobs
