SPECIFICATION FairSpec
CONSTANTS
    t1 = t1  t2 = t2  coin = coin
    Loop = {l1}
    Worker = {w1}
    Tx = {t1, t2}
    ParentTx <- MCParentTx
    Coin = coin
    MatureAt <- MCMatureAt
    FinalAt <- MCFinalAt
    Size <- MCEach
    SigOps <- MCEach
    MaxBlockSize = 1
    MaxBlockSigOps = 1
    MaxTip = 2
    Caller = {c1, c2}
    NoLoop = NoLoop
    StopAfter = {1}
    Restarts = FALSE
    MaxRejected = 1
CHECK_DEADLOCK FALSE
INVARIANTS TemplateSound SessionConsistent
PROPERTIES FoundBlockNotLost StopMeansStopped CancelledLoopEnds
