SPECIFICATION Spec
CHECK_DEADLOCK FALSE
CONSTANTS
    p1 = p1
    p2 = p2
    below = below
    here = here
    swapped = swapped
    long = long
    v1 = v1
    c1 = c1
    None = None
    Nothing = Nothing
    Paths = {p1, p2, below}
    Contents = {here, swapped, long}
    SizeOf <- Sizes
    Under <- Nested
    Writers = {v1, v2}
    Creators = {c1, c2}
    MaxEntries = 3
    MaxLength = 4
    Scenarios <- AllScenarios
INVARIANTS
    PipelineTypeOK
    AcceptsUsable
    CreatedIsUsable
    FailureLeavesNothing
    NothingLeftOut
