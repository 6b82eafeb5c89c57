SPECIFICATION FairSpec
CHECK_DEADLOCK FALSE
CONSTANTS
    m0 = m0
    m1 = m1
    w1 = w1
    w2 = w2
    Machines = {m0, m1, w1, w2}
    Local = m0
    Masters = {m0, m1}
    Late = {w2}
    MaxFaults = 2
INVARIANTS
    TypeOK
    NeverForgotten
    SuccessMeansClean
PROPERTIES
    OrderKept
    Finishes
