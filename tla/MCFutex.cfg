CONSTANTS
    NULL = NULL
    t1 = t1
    t2 = t2
    t3 = t3
    k1 = k1
    k2 = k2
    b1 = b1
    b2 = b2
    Tasks <- Three
    Keys = {k1, k2}
    Buckets = {b1, b2}
    Bucket <- TwoBuckets
    BasePrio <- OneBase
    InitPrio <- Prios
    InitPolicy <- AllRR
    ParamChanges <- Changes
    WakeNumbers = {1, 3}
    Requeues <- CondToMutex
    WaitTimeouts = {"TICKS"}
    Stored = {k1}
SPECIFICATION Spec
INVARIANTS NoLostWakeup SleeperIsFindable RingSorted NoNodeLeftBehind
CHECK_DEADLOCK FALSE
