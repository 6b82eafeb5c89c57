SPECIFICATION FairSpec
CONSTANTS
    hub = hub
    ghcr = ghcr
    dot = dot
    ill = ill
    v1 = v1
    v2 = v2
    None = None
    Torn = Torn
    Width = 3
    Unusable = {0, 7}
    LinkLocal = {5}
    Broadcast = 7
    Named = Named
    Absent = Absent
    DockerHub = hub
    Dotted = {dot}
    Malformed = {ill}
    MaxFiles = 17
    MaxSize = 3
    MaxTotal = 20
    CiliumTars = {"cilium.tar"}
    RegistryTars = {"registry.tar"}
    OtherTars = {"kubernetes.tar", "more.tar"}
    Bundles <- BundleIds
    Manifest <- Variants
    Settings <- AllSettings
INVARIANTS
    TypeOK
    OnlyFittingFiles
    ChangesWithinPart
    PreparedIsWhole
    BackupIsOriginal
    LateRefusals
    AddressesApart
PROPERTIES
    GetsPrepared
