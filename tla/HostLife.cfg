CONSTANTS
    Ips = {1, 2}
    Peers = {p1, p2}
    QueueCapacity = 2
    StartLimit = 3
    AddressBits = 3
    Files <- MCFiles
    Yamls <- MCYamls
    PeerFiles <- MCPeerFiles
    Scenarios <- MCScenarios
SPECIFICATION Spec
CHECK_DEADLOCK FALSE
INVARIANTS NoStrayVip HooksFollowOwnership AnnouncedWhileAttached FenceIsEarned
PROPERTIES MasterHooksAreHeld ServiceReturns
