SPECIFICATION Spec
CONSTANTS
    Cpu = {0, 1, 2, 3}
    NumaId = {0, 1, 2}
    Home <- MCHome
    Pkg <- MCPkg
    Core <- MCCore
    MaxHotplug = 1
    MaxCpu = 9
INVARIANTS
    SelectionLocal
    MemoryIsLocal
    RefusedForAReason
    FormatRoundTrips
    HintsConsistent
CHECK_DEADLOCK FALSE
