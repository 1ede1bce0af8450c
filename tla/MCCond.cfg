CONSTANTS
    NULL = NULL
    x = x
    y = y
    Tasks = {t1, t2, t3}
    Events = {e1, c1}
    Flags = {x, y}
    Masks <- AnyMask
    Clears <- AnyClear
    OnceEvents = {c1}
    BROADCAST_EVENT = x
    COUNT_MAX = 4
SPECIFICATION CondSpec
INVARIANTS NoSatisfiedWaiter BroadcastReachesAll NoSignalLost
SYMMETRY TaskSymmetry
CHECK_DEADLOCK FALSE
