SPECIFICATION WaitsSpec
CHECK_DEADLOCK FALSE
CONSTANTS
    Procs = {p1, p2, p3, p4}
    Value = 2
    Readers = {r1, r2}
    FifoDepth = 3
    ConsBufSize = 3
    StdinBufSize = 2
    Bytes = {0, 127}
    MaxReceived = 4
    MaxLen = 2
INVARIANT SemInv
INVARIANT ReadsAreTheInput
INVARIANT SleepersHaveNothing
PROPERTY SemRefinement
PROPERTY WaiterGetsIt
PROPERTY WaitingReadersServed
