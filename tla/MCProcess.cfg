CONSTANTS
    NULL = NULL
    INVALID = INVALID
    init = init
    a = a
    b = b
    i1 = i1
    i2 = i2
    a1 = a1
    a2 = a2
    b1 = b1
    Pids = {init, a, b}
    Root = init
    Threads <- FiveThreads
    ThreadIds = {i1, i2, a1, a2, b1}
    CloneParent = TRUE
    Unlucky = FALSE
SPECIFICATION Spec
SYMMETRY SameThreads
INVARIANTS PcbAccounted FamilyIntact GroupsIntact NoForgottenWaiter
CHECK_DEADLOCK FALSE
