SPECIFICATION MCSpec
CONSTANTS
  OwnVariables = {i}
  InheritedVariables = {j}
  Kinds = {"declare", "assign", "super", "return", "raise", "call", "if", "handler", "repeat"}
  MaxStatements = 5
  MaxVariables = 2
  MaxDepth = 2
  v1 = v1  v2 = v2  o1 = o1  o2 = o2
  Registers = {v1, v2}
  Objects = {o1, o2}
  MaxBlock = 5
INVARIANTS
  CertainHappened
  ScopesReleaseInitialized
  AbortsReleaseInitialized
  ReturnsInitialized
  NeverFallsThrough
  RemovalUnobservable
CHECK_DEADLOCK FALSE
