SPECIFICATION Spec
CONSTANTS
  MaxJobs = 1
  Garbage = {0, 9}
  Commands <- TypedCommands
  Words = {"busy"}
  MaxSymbols = 1
  Texts <- CatRm
  Files = {"f", "g"}

INVARIANT HeadIsAllocated
