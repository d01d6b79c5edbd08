SPECIFICATION FairSpec
CONSTANTS
    Options <- McOptions
    Peers <- McPeers
    MaxFds = 3
INVARIANTS
    PermitsMatch
    DescriptorsOwned
    IdleExitIsIdle
    SetupBounded
PROPERTIES
    AdmittedIsClosed
    ServerReturns
CHECK_DEADLOCK FALSE
