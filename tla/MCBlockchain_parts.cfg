SPECIFICATION MCSpec
CONSTANTS
    g = g  a1 = a1  a2 = a2  a3 = a3  b1 = b1  b2 = b2  b3 = b3  bx = bx  c2 = c2  none = none
    Block <- AllBlocks
    NoBlock = none
    Genesis = g
    Parent <- MCParent
    Height <- MCHeight
    ChainTo <- MCChainTo
    Work <- MCWork
    Valid <- MCValid
    MaxOrphanBlocks = 2
    MaxSideChainDepth = 1
    Environment = {"crash", "disconnecttip", "mine", "outoforder"}
    Byte = 4
    Bytes = 4
    Window = 3
    MedianWindow = 3
    Spacing = 1
    Drift = 3
    GenesisBits = 222
    PostGenesisBits = 212
    MaxTime = 14
    MaxLength = 5
    MaxBatch = 2
    Older = 2
    TxId <- Ids
    TxOf <- Transactions
    MaxMoney = 31
    Wrap = 64
    Subsidy = 8
    HalvingInterval = 3
    CoinbaseMaturity = 2
    MaxTxSigOps = 2
    MaxBlockSigOps = 3
    MaxHeight = 5
    MaxTxs = 3
    Short = 2
    Digit = 4
    MaxScriptSize = 15
    MultiSigOps = 3
    Key = {1, 2, 3}
    Malformed = {3}
    Opcodes <- Control
    MaxProgram = 5
    MaxPushes = 4
CHECK_DEADLOCK FALSE
INVARIANTS ActiveChainValid OrphanPoolConsistent HeaderRulesHold UnspentExact RulesExact
PROPERTIES InOrderReorganises InOrderConverges
