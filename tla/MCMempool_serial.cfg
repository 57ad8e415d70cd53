SPECIFICATION MCSpec
CONSTANTS
  k1 = k1  k2 = k2  p = p  q = q  c = c  d = d  x = x  s = s  u = u  none = none  h1 = h1  h2 = h2
  NoTx = none
  Tx = {p, q, c, d, x, s, u}
  Coin = {k1, k2}
  Inputs <- MCInputs
  Rate <- MCRate
  Signed <- Verifying
  Standard <- Regular
  MaxTx = 10
  MaxOrphans = 2
  MaxAncestorDepth = 1
  TxIndexEnabled = TRUE
  Thread = {h1}
  Environment = {"block"}
  w1 = w1  w2 = w2  w3 = w3
  Miner = {w1, w2, w3}
  Makes <- RpcCalls
  Slots = 2
  Retries = 2
  PoolTx = {"t"}
  MaxHeight = 2
  MaxBlocks = 3
  MaxTokens = 2
  IdleLimit = 8
  Parts = {"pool", "submit", "propose", "generate", "limit"}
CHECK_DEADLOCK FALSE
INVARIANTS EntriesSound NoForgottenOrphan RateExact
PROPERTIES WorkHonest AddReturns
