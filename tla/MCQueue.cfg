CONSTANTS
    Tasks = {t1, t2, t3}
    Queues = {q1}
    Msgs = {a, b}
    NoMsg = NoMsg
    MaxLen = 2
    MaxGen = 1
SPECIFICATION Spec
INVARIANTS NodesConserved WokenHandleIsCurrent NobodyWaitsBesideNode
PROPERTY ImplementsQueue
SYMMETRY TaskSymmetry
CHECK_DEADLOCK FALSE
