\* a query variable and two of clauses, a trail of three, one choice point
CONSTANTS
  QueryVars = 1
  MaxVars = 3
  MaxBindings = 3
  MaxChoices = 1
  MaxDepth = 2
  VarsOf <- VarIds
SPECIFICATION Spec
INVARIANTS IndexAgrees CeilingSound
PROPERTIES ReclaimInvisible WindowGone IndexSpec
