SPECIFICATION FairSpec
CONSTANTS
    PipeCap = 2
    MaxChunks = 2
INVARIANTS
    OutputBeforeFinished
    ExitCodeTruthful
    NoDescriptorLeak
PROPERTIES
    ReturnsAfterProcesses
    PipesDrain
CHECK_DEADLOCK FALSE
