SPECIFICATION FairSpec
CONSTANTS
    x = x
    y = y
    o1 = o1
    o2 = o2
    i1 = i1
    Addr = {x, y}
    Outbound = {o1, o2}
    Inbound = {i1}
    Caller = {y}
    ConnectOnly = {}
    FixedSeed = {}
    MaxOutbound = 1
    MaxPeers = 1
    MaxInbound = 1
    MaxPerIP = 1
    MaxKnown = 2
    MaxAsked = 1
CHECK_DEADLOCK FALSE
INVARIANT ConnectionsSound
PROPERTY PeersProceed
