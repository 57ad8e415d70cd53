CONSTANTS
    c1 = c1
    p1 = p1
    p2 = p2
    s1 = s1
    r1 = r1
    h1 = h1
    m1 = m1
    none = none
    pay = pay  back = back  gift = gift
    Kind <- Kinds
    NoTx = none
    t1 = t1
    t2 = t2
    None = none
    Caller = {c1}
    Pass = {p1, p2}
    Seed = {s1}
    Random = {r1}
    Hybrid = {h1}
    Imported = {m1}
    Backups <- MCBackups
    MaxIndex = 0
    MaxFired = 1
    Profiles <- OneAtATime
    Sender = {t1, t2}
    Initial <- Coins
    Requests <- Asked
    MinRelay = 1
    PerKB = 10
    Base = 1
    InSize = 6
    OutSize = 2
    Dust = 1
    MaxDepth = 2
    MaxTx = 2
    Payment = 5
SPECIFICATION MCSpec
CHECK_DEADLOCK FALSE
INVARIANTS KeysSafe SpendingSound
PROPERTY Relocks
