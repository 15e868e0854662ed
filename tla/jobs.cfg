SPECIFICATION Spec
CONSTANTS
  MaxJobs = 3
  Garbage = {0, 9}
  Commands <- TypedCommands
  Words = {"busy", "sleep", "fg", "bg", "1", "logout", "nice_pid"}
  MaxSymbols = 4
  Texts <- CatRm
  Files = {"f", "g"}

INVARIANTS
  JTypeOK
  StatusAgrees
  FinishedAtHead
  ParsedAsWritten
