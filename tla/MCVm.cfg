SPECIFICATION Spec
CONSTANTS
    Procs = {p1, p2}
    Idle = idle
    NPages = 18
    Calls = 3
    PTN = 4
    NTables = 2
    UStack = 5
    Progs = {"sh", "bad"}
    Segs <- MCSegs
    Bufs <- MCBufs
SYMMETRY Symmetry
CHECK_DEADLOCK FALSE
INVARIANT MemoryExact
INVARIANT TlbCoherent
INVARIANT KernelFaultsOnlyWithoutMemory
PROPERTY PrivateMemory
