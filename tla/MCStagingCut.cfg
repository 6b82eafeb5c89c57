SPECIFICATION Spec
CHECK_DEADLOCK FALSE
CONSTANTS
    f1 = f1
    f2 = f2
    None = None
    Files = {f1}
    Size = 2
    MaxAttempts = 1
    MaxFaults = 1
INVARIANTS
    DestinationIsWhole
