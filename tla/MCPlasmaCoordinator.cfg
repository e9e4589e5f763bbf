SPECIFICATION Spec
CONSTANTS
    NodeId = {0, 1, 2, 3, 4}
    Pipelines <- MCPipelines
    Branches <- MCBranches
    Samples = {s1}
    Conn = {c1, c2}
    IdleExit = 1
    MaxRequests = 2
SYMMETRY MCSymmetry
INVARIANTS
    TypeOK
    DepsRespected
    GraphWellFormed
    NoLostWakeup
    AckedSamplesDumped
    AckedBranchMerged
PROPERTIES
    IdleExitClean
    FailureIsFinal
    ImplementsService
CHECK_DEADLOCK FALSE
