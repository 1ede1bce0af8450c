CONSTANTS
    t1 = t1
    t2 = t2
    t3 = t3
    NULL = NULL
    Tasks = {t1, t2, t3}
    Rwlocks = {l1}
    InitPrio <- PrioWithTie
    InitPolicy <- AllRR
    Params <- HighOrLow
    CountMax = 2
    OnlyHolders = TRUE
SPECIFICATION Spec
INVARIANTS NobodyWaitsOnFreeLock OwnerIffWriteMode HoldersAgree
PROPERTY NoReaderOvertakesWriter
CHECK_DEADLOCK FALSE
