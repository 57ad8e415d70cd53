SPECIFICATION Spec
CONSTANTS
    g = g  a1 = a1  a2 = a2  b1 = b1  none = none
    og = og  oa = oa  ob = ob  ot = ot  oe = oe  o2 = o2
    cg = cg  ca = ca  cb = cb  t = t  c2 = c2
    Block <- MCBlock
    NoBlock = none
    Genesis = g
    Parent <- MCParent
    Height <- MCHeight
    MaxHeight = 2
    Outpoint <- MCOutpoint
    Adds <- MCAdds
    Spends <- MCSpends
    Ephemeral <- MCEphemeral
    Tx <- MCTx
    TxsOf <- MCTxsOf
    UtxoAt <- MCUtxoAt
    ChainTo <- MCChainTo
    TxIndexEnabled = FALSE
    AddressIndexEnabled = FALSE
    Environment = {"crash", "reindexcrash", "ioerror", "reader"}
INVARIANTS ActiveChainReadable
PROPERTIES ReindexRestoresUtxo
