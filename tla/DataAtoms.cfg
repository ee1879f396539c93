\* every part within its bounds; a list of three terms, two calls of op/3,
\* one operator, three names; a behaviour ends where its bound is reached
CONSTANTS
  VarCount = 2
  MaxEquations = 2
  Spelling <- MCSpelling
  Bindings <- MCBindings
  Samples <- MCSamples
  MAX_LIST_LIT = 5
  MaxSamples = 3
  MaxArity = 3
  var_counter = 6
  default_ops <- MCOps
  OpCalls <- MCOpCalls
  Trees <- MCTrees
  VarNames <- MCVarNames
  MAX_OPS = 6
  MAX_ARGS = 2
  MAX_ELEMENTS = 2
  MaxOpCalls = 2
  Width = 4
  Operands <- MCOperands
  MaxOperators = 1
  Literals <- MCLiterals
  Unbound = Unbound
  MAX_STRING_POOL = 14
  MAX_NAME = 3
  MaxCalls = 3
  PoolTerms <- MCPoolTerms
  pool_size = 12
  PoolClauses = 2
  Paths = {"p", "q"}
  Words <- MCWords
  MAX_OPEN_STREAMS = 2
  BCAP_SIZE = 4
  LINE_SIZE = 3
  MaxCaptures = 3
  MaxText = 4
SPECIFICATION DataSpec
INVARIANT AtomsInterned
CHECK_DEADLOCK FALSE
