SPECIFICATION Spec
CHECK_DEADLOCK FALSE
CONSTANTS
    t1 = t1
    t2 = t2
    i1 = i1
    i2 = i2
    n1 = n1
    n2 = n2
    None = None
    Torn = Torn
    Targets = {t1}
    Jobs <- OneWorker
    Nodes = {n1}
    HostNames <- OwnNames
    Spaces <- Rooms
    Inputs = {i1}
    MaxConcurrent = 1
    MaxFaults = 0
    MaxEdits = 0
PROPERTIES
    ReadyMeansAgentReady
