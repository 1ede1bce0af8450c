CONSTANTS
    c = c
    s1 = s1
    s2 = s2
    NULL = NULL
    Tasks = {c, s1, s2}
    Clients = {c}
    Services = {s1}
    Proc <- Processes
    MaxMsgs = 3
    MaxExits = 2
    MaxGrants = 1
SPECIFICATION Spec
INVARIANTS NoSleeperBesideMessage NodesConserved AccessIsRevocable
CHECK_DEADLOCK FALSE
