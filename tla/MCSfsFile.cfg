SPECIFICATION Spec
SYMMETRY FileSymmetry
CHECK_DEADLOCK FALSE
CONSTANTS
    Files = {f1, f2}
    NoFile = NoFile
    Fds = {d1, d2}
    NBlocks = 3
    BlkSize = 2
    NDirect = 1
    NEntry = 2
    MaxFileSize = 5
INVARIANT BlocksExact
PROPERTY CloseSaves
