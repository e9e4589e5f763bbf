SPECIFICATION Spec
CONSTANT
    MaxCalls = 2
INVARIANT
    ReadsOneFrame
CHECK_DEADLOCK FALSE
