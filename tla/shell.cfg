SPECIFICATION FairSpec
CONSTANTS
  MaxJobs = 5
  Garbage = {0, 9}
  Commands <- TypedCommands
  Words = {"busy", "fg"}
  MaxSymbols = 2
  Texts <- CatRm
  Files = {"f", "g"}

INVARIANT NumbersAscend
PROPERTIES
  LiveStayListed
  EndedAreReaped
