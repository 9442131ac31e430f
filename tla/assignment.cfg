SPECIFICATION Spec
CONSTANTS
    Values = {v1, v2}
    MaxDepth = 5
    None = None
INVARIANT DeinitializedOnce
CHECK_DEADLOCK FALSE
