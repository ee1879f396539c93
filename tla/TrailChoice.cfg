\* one query variable and one of a clause, one choice point
CONSTANTS
  QueryVars = 1
  MaxVars = 2
  MaxBindings = 2
  MaxChoices = 1
  MaxDepth = 2
  VarsOf <- VarIds
SPECIFICATION Spec
PROPERTY ChoiceIntact
