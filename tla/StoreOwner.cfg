\* a clause after an include
CONSTANTS
  Versions <- IncludeFirst
  Core = "core"
  Queries <- ConsultOnly
  Names <- MCNames
  None = None
  MaxFiles = 3
  MaxClauses = 6
  MaxDynamic = 2
  MaxOpen = 2
SPECIFICATION FairSpec
INVARIANT NoOrphans
