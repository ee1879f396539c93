\* a full database, files beyond what can be tracked or opened, endless loops
CONSTANTS
  Versions <- Large
  Core = "core"
  Queries <- Loops
  Names <- MCNames
  None = None
  MaxFiles = 2
  MaxClauses = 4
  MaxDynamic = 1
  MaxOpen = 2
SPECIFICATION MCSpec
INVARIANTS TypeOK FilesFaithful UsedNamesKept
PROPERTIES QueryEnds
