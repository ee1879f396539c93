\* once/1 binds a variable that a later goal of its clause uses
CONSTANTS
  Library <- SmallLibrary
  Scripts <- NestedScripts
  QueryVars = 2
SPECIFICATION Spec
INVARIANT NestedKeepsBindings
