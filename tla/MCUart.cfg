SPECIFICATION WaitsSpec
CHECK_DEADLOCK FALSE
CONSTANTS
    Procs = {p1}
    Value = 1
    Readers = {r1}
    FifoDepth = 2
    ConsBufSize = 3
    StdinBufSize = 2
    Bytes = {65}
    MaxReceived = 2
    MaxLen = 1
INVARIANT EveryByteStashed
