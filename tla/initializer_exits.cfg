SPECIFICATION Spec
CONSTANTS
  OwnVariables = {}
  InheritedVariables = {}
  Kinds = {"declare", "assign", "super", "return", "if"}
  MaxStatements = 6
  MaxVariables = 1
  MaxDepth = 1
INVARIANT ExitsReleaseInitialized
CHECK_DEADLOCK FALSE
