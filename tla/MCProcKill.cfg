SPECIFICATION FairSpec
CONSTANTS
    Procs = {idle, init, a, b}
    idleproc = idle
    initproc = init
    Null = Null
    MaxProcess = 4
    MaxTimeSlice = 2
    MaxSleep = 1
PROPERTY KilledDies
