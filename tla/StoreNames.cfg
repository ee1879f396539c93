\* operators that a file defines, or a query before make/0
CONSTANTS
  Versions <- Operators
  Core = "core"
  Queries <- WithOperators
  Names <- MCNames
  None = None
  MaxFiles = 3
  MaxClauses = 6
  MaxDynamic = 2
  MaxOpen = 2
SPECIFICATION FairSpec
PROPERTY OperatorsStay
