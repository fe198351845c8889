CONSTANTS
    Nodes = {1, 2, 3}
    Vips = {1, 2}
    Boots = {1}
    Geneses <- OneGenesis
    Place <- MCPlace
    Failback = TRUE
    FailbackDelay = 2
    StaleMissed = 1
    Kinds = {"progress", "released", "genesis"}
    MaxTick = 4
    MaxJoins = 0
SPECIFICATION AuditSpec
CHECK_DEADLOCK FALSE
INVARIANTS
    TypeOK
    HoldersAreEligible
    FencingConsistent
    RecomputeIsStable
    LoadIsEven
    LostOwnersWait
PROPERTIES
    HolderChangeIsFenced
