SPECIFICATION Spec
CONSTANTS
    MaxStarts = 3
    MaxAlive = 2
    MaxDenied = 1
INVARIANTS
    StaleNeverBlocks
    NoLitter
    OwnSegment
    ReadyMeansNotStale
CHECK_DEADLOCK FALSE
