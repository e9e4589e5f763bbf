SPECIFICATION Spec
CONSTANTS
    NodeId = {1, 2, 3}
    Inputs <- MCInputs
    Pipelines <- MCPipelines
    PromTextFile = TRUE
INVARIANTS
    OrderIsTopological
    ErrorMeansNotTopoOK
    DepsSucceeded
    PromTruthful
PROPERTY
    Returns
    ImplementsService
CHECK_DEADLOCK FALSE
