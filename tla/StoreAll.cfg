CONSTANTS
    Nodes = {1, 2}
    Vips = {1, 2}
    Boots = {1, 2}
    Geneses <- TwoGeneses
    Place <- MCPlace
    Failback = FALSE
    FailbackDelay = 0
    StaleMissed = 1
    Kinds = {"progress", "join", "genesis", "membership", "health", "formed", "enable"}
    MaxTick = 3
    MaxJoins = 1
SPECIFICATION AuditSpec
CHECK_DEADLOCK FALSE
INVARIANTS
    HealthIsFromVotingBoot
    IdleMembershipIsStable
    FrontierIsMaximal
    SnapshotIsFaithful
PROPERTIES
    FailedNeverPreempts
