CONSTANTS
    Tasks = {t1, t2}
    Cpus = {c1, c2}
    BasePrios = {0}
    Prios = {0, 1}
    PmModes = {TRUE, FALSE}
    SuspendsInit = FALSE
    MaxInherited = 1
    UINT32_SIZE = 3
    Idle = Idle
    NULL = NULL
SPECIFICATION Spec
INVARIANTS ReadyIsFindable TimedWaitHasTimeout RunQueueExact TopIsHighest OkMeansWoken
SYMMETRY Symmetry
CHECK_DEADLOCK FALSE
