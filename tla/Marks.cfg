\* up to three frames, and all seven constructs that nest, one level deep
CONSTANTS
  MaxStack = 3
  MaxBindings = 2
  PoolSize = 2
  MaxNest = 1
  NestKinds = {"catch", "ite", "if", "once", "not", "findall", "capture"}
SPECIFICATION Spec
CONSTRAINT Bounded
INVARIANTS TypeOK CutStaysBelow MarksOrdered TrailMarks PoolMarks NestingBalanced
PROPERTY BaseKept
