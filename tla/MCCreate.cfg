SPECIFICATION FairSpec
CONSTANTS
    c1 = c1
    c2 = c2
    b1 = b1
    b2 = b2
    alpha = alpha
    beta = beta
    None = None
    Torn = Torn
    Configs = {c1, c2}
    Bundles = {b1, b2}
    Names = {alpha}
    NameOf <- OneName
    WithRegistry = {c1}
    Spaces = {1, 2, 9}
    MaxFaults = 3
    MaxEdits = 2
INVARIANTS
    TypeOK
    PhaseDescribesHost
    CompleteMeansRunning
    ReportIsTrue
    ExistingClusterUntouched
    InitAtMostOnce
PROPERTIES
    PhasesOnlyGrow
    InitOnPreparedHost
    ImplementsOnceOnly
    Converges
