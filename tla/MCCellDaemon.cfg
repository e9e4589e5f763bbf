SPECIFICATION Spec
CONSTANTS
    c1 = c1
    c2 = c2
    Rune = {"a", "/", "-", "default"}
    SafeRune = {"a", "-", "default"}
    CellId <- MCCellId
    CpuLists <- MCCpuLists
    Pid = {p1}
    NoPid = NoPid
    Call = {c1, c2}
    MaxCalls = 4
SYMMETRY MCSymmetry
INVARIANT
    RegistryAccurate
PROPERTY
    EvictsOnlyTargets
CHECK_DEADLOCK FALSE
