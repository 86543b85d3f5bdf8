SPECIFICATION Spec
CONSTANTS
    Procs = {idle, init, a, b, c}
    idleproc = idle
    initproc = init
    Null = Null
    MaxProcess = 5
    MaxTimeSlice = 1
    MaxSleep = 2
SYMMETRY Symm
INVARIANT TypeOK
INVARIANT RunQueueExact
INVARIANT ParentCanReap
INVARIANT NoLostWakeup
INVARIANT TimerInsideSleep
INVARIANT ProcsConsistent
PROPERTY ZombieOnlyReaped
