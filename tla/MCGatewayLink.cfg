SPECIFICATION FairSpec
CONSTANTS
    GatewayMin = 1
    GatewayMax = 2
    Scenarios <- MCScenarios
    WireCapacity = 2
    QueueCapacity = 1
    MaxStrikes = 2
CHECK_DEADLOCK FALSE
INVARIANTS EndsAgree FailsForACause RosterAgrees
PROPERTIES HandshakeEnds GetsThrough
