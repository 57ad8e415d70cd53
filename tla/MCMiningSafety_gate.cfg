SPECIFICATION FairGateSpec
CONSTANTS
    p1 = p1
    p2 = p2
    Peer <- MCPeer
    MinAgreeing = 2
    BehindAllowed = 0
    AllowUnsafe = FALSE
    Grace = 1
    Recovery = 1
    LocalGrace = 2
    SoftAge = 2
    MaxAhead = 1
    MaxTips = 1
INVARIANT SafetyGateHolds
PROPERTY MiningResumes
