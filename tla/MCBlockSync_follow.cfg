SPECIFICATION MCSpec
CONSTANTS
    p1 = p1
    g = g
    a1 = a1
    a2 = a2
    a3 = a3
    b1 = b1
    Peer = {p1}
    Block = {g, a1, a2, a3, b1}
    Genesis = g
    Parent <- MCParent
    Height <- MCHeight
    Mined = {b1}
    MaxHeaders = 2
    MaxServeInv = 1
    MaxDrops = 1
    MaxQueue = 1
    PeerStarts = {a1, a2}
CHECK_DEADLOCK FALSE
PROPERTY SyncCompletes
