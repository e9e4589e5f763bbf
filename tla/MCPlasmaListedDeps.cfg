SPECIFICATION Spec
CONSTANTS
    NodeId = {0, 1, 2, 4}
    Pipelines <- MCOnePipeline
    Branches <- MCYamlBranches
    Samples = {s1}
    Conn = {c1}
    IdleExit = 1
    MaxRequests = 2
INVARIANT
    ListedDepsHonoured
CHECK_DEADLOCK FALSE
