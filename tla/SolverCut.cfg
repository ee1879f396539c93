\* a cut in call/1 and a cut after a goal with several clauses
CONSTANTS
  Library <- SmallLibrary
  Scripts <- CutScripts
  QueryVars = 2
SPECIFICATION Spec
INVARIANT CutIsLocal
