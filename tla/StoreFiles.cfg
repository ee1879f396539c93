\* files edited, consulted, included, unloaded and made again
CONSTANTS
  Versions <- Edited
  Core = "core"
  Queries <- Sessions
  Names <- MCNames
  None = None
  MaxFiles = 3
  MaxClauses = 9
  MaxDynamic = 2
  MaxOpen = 2
SPECIFICATION MCSpec
INVARIANTS TypeOK OwnersKnown FilesFaithful NoOrphans QueryIntact
PROPERTIES StaticProtected ImplementsStore
