\* every query of one or two goals, and as the body of a clause
CONSTANTS
  Library <- SmallLibrary
  Scripts <- DirectOrCalled
  QueryVars = 2
SPECIFICATION Spec
INVARIANTS AnswersRight NoDangling
PROPERTY MarksImplemented
