CONSTANTS
    t1 = t1
    t2 = t2
    t3 = t3
    NULL = NULL
    Tasks = {t1, t2, t3}
    Muxes = {m1, m2}
    MuxAttrs <- Kinds
    InitPrio <- PrioDistinct
    BasePrio <- OneProcess
    TaskPolicies <- OneOrMixed
    MuxCountMax = 2
    WaitModes = {"TICKS"}
SPECIFICATION Spec
INVARIANTS OwnerAgrees NoStrandedWaiter OriginalPriorityKept
           PriorityRestored InheritsFromWaiters HighestWaiterFirst
SYMMETRY MuxSymmetry
CHECK_DEADLOCK FALSE
