SPECIFICATION FairSpec
CONSTANTS
    NodeId = {0, 1, 2, 4}
    Pipelines <- MCOnePipeline
    Branches <- MCFewBranches
    Samples = {s1}
    Conn = {c1}
    IdleExit = 1
    MaxRequests = 3
PROPERTIES
    EventuallyExecuted
    EventuallyReturns
CHECK_DEADLOCK FALSE
