SPECIFICATION Spec
CONSTANTS
  MaxPid = 4
  OneLast = 1
  ZeroLast = 2
  Cycle = 3
  MaxSleep = 1
  Recycled = FALSE
  Ticks = 1
  Programs = {"busy", "short", "zombify", "orphanify"}
  Grounds <- BothGrounds
  Priorities = {}

INVARIANTS
  ListsAreLive
  ReadyAreQueued
  FamilyIsTree
  TreeShape
PROPERTIES
  LifecycleHolds
