SPECIFICATION Spec
CHECK_DEADLOCK FALSE
CONSTANTS
    t1 = t1
    t2 = t2
    i1 = i1
    i2 = i2
    n1 = n1
    n2 = n2
    None = None
    Torn = Torn
    Targets = {t1, t2}
    Jobs <- WorkerAndMaster
    Nodes = {n1, n2}
    HostNames <- OwnNames
    Spaces <- Rooms
    Inputs = {i1, i2}
    MaxConcurrent = 2
    MaxFaults = 1
    MaxEdits = 1
INVARIANTS
    TypeOK
    JoinAtMostOnce
    ReadyMeansMember
PROPERTIES
    JoinOnPreparedMachine
    ImplementsOnceOnly
