CONSTANTS
    t1 = t1
    t2 = t2
    t3 = t3
    NULL = NULL
    Tasks = {t1, t2, t3}
    Muxes = {m1, m2}
    MuxAttrs <- OnlyInherit
    InitPrio <- PrioDistinct
    BasePrio <- OneProcess
    TaskPolicies <- OnePolicy
    MuxCountMax = 2
    WaitModes = {"TICKS", "FOREVER"}
SPECIFICATION Spec
INVARIANTS RestoreFindsOwner
CHECK_DEADLOCK FALSE
