CONSTANTS
    u1 = u1  u2 = u2  ui = ui  m1 = m1  m2 = m2  m3 = m3  e1 = e1  e2 = e2
    User = {u1, u2}
    Poller = ui
    MaxNodes <- Nodes
    MaxCalls <- Calls
    NoNode = NoNode
    Conn = {m1, m2, m3}
    IPOf <- IPs
    PerIP = 1
    Global = 2
    ShareLimit = 1
    ExtraNonce = {"x"}
    MaxTip = 2
    Client = {e1, e2}
    MaxHist = 2
    QueueLen = 3
    MaxEvents = 4
    a1 = a1  a2 = a2
    Ask = {a1, a2}
    Asks <- Orders
    Coin = {1, 2, 3}
    Worth <- Values
    Later = {3}
    InSize = 4
    OutSize = 1
    SweepFloor = 6
    NodeDust = 2
    Cutoff = 8
    Attempts = 3
    MaxPasses = 8
SPECIFICATION MCSpec
CHECK_DEADLOCK FALSE
INVARIANTS NodeAccounted LimitsHold NoGap PaymentSound
PROPERTY ServicesLive
