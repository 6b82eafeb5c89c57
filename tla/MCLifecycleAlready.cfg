SPECIFICATION LSpec
CONSTANTS
    c1 = c1
    c2 = c2
    b1 = b1
    b2 = b2
    alpha = alpha
    beta = beta
    None = None
    Torn = Torn
    Configs = {c1, c2}
    Bundles = {b1}
    Names = {alpha}
    NameOf <- OneName
    WithRegistry = {c1}
    Spaces = {9}
    MaxFaults = 1
    MaxEdits = 0
INVARIANTS
    AlreadyMeansAdmin
