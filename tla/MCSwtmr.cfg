CONSTANTS
    NULL = NULL
    p1 = p1
    LIMIT = 2
    CORES = 2
    Procs = {p1}
    Settings <- Mixed
    MaxSlip = 1
    Lives = 1
SPECIFICATION Spec
INVARIANTS BlockAccounted NoOversleep
CHECK_DEADLOCK FALSE
