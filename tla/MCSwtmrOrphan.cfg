CONSTANTS
    NULL = NULL
    p1 = p1
    LIMIT = 1
    CORES = 1
    Procs = {p1}
    Settings <- OneShot
    MaxSlip = 1
    Lives = 2
SPECIFICATION Spec
INVARIANT NoTimerOfDeadProcess
CHECK_DEADLOCK FALSE
