SPECIFICATION Spec
CONSTANT
    MaxCalls = 4
INVARIANTS
    RepliesMatch
    NoDescriptorLeak
    DispatchedWasSent
PROPERTY
    CallsEnd
CHECK_DEADLOCK FALSE
