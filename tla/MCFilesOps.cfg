SPECIFICATION Spec
CONSTANTS
    init = init
    p1 = p1
    p2 = p2
    root = root
    file = file
    None = None
    InitProc = init
    Procs = {init, p1, p2}
    NFd = 3
    Dirs = {root}
    Regs = {file}
    Root = root
    Names = {"..", "f", "new"}
    Entry <- ImageEntry
    Depth <- ImageDepth
    OpenFlags <- FlagsUsed
    Paths <- PathsUsed
    MaxLeaked <- LeakBound
    MaxOpen = 3
SYMMETRY UserSymmetry
CHECK_DEADLOCK FALSE
INVARIANT OperationsExist
