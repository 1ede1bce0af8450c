CONSTANTS
    Tasks = {t1, t2}
    Sems = {s1, s2}
    OS_SEM_COUNT_MAX = 2
    MaxGen = 1
    NoSem = NoSem
SPECIFICATION Spec
INVARIANTS NoWaiterBesideToken WaiterHandleIsCurrent PoolConserved
PROPERTIES ImplementsSemaphore PostsReachEveryWaiter
CHECK_DEADLOCK FALSE
