SPECIFICATION ListsSpec
CONSTANTS
    MaxPid = 8
    MaxProcess = 6
    Procs = {idle, init, a, b, c, d}
    Idle = idle
    Initproc = init
    NULL = NULL
    Sleepers = {p1, p2, p3, p4}
    MaxSleep = 4
INVARIANT PidInv
INVARIANT FamiliesExact
PROPERTY PidRefinement
PROPERTY GetPidReturns
PROPERTY TreesRefined
PROPERTY TimersRefined
