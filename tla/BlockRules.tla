----------------------------- MODULE BlockRules -----------------------------
(***************************************************************************)
(* What a block does to the unspent outputs: validateBlockTransactions     *)
(* (internal/blockchain/blockchain.go) with its view of outputs made and   *)
(* spent inside the block, and the undo that takes the block off again.    *)
(*                                                                         *)
(* Transactions are the members of a small universe; an id stands for the  *)
(* transaction, as its hash does, and the coinbase at a height has that    *)
(* height for id.  Amounts are 64-bit integers: they wrap at Wrap.         *)
(***************************************************************************)
EXTENDS Integers, FiniteSets, FiniteSetsExt, SequencesExt

CONSTANTS
    TxId,           \* ids of transactions other than coinbases, above MaxHeight
    TxOf,           \* [TxId -> [ins, outs, lock, final, signed, ops]]
    MaxMoney, Wrap, \* Wrap is 2^64 in the code
    Subsidy, HalvingInterval,
    CoinbaseMaturity,
    MaxTxSigOps, MaxBlockSigOps,
    MaxHeight, MaxTxs   \* bounds of the model

ASSUME BlockAssumption ==
    /\ {MaxMoney, Wrap, HalvingInterval, CoinbaseMaturity, MaxHeight} \subseteq Nat \ {0}
    /\ MaxTxs \in Nat /\ Subsidy \in 0 .. MaxMoney
    /\ \A t \in TxId : /\ t \in Nat /\ t > MaxHeight
                       /\ TxOf[t].ins \in Seq(Nat \X Nat) /\ TxOf[t].outs \in Seq(Int)
    /\ 2 * MaxMoney < Wrap

VARIABLES
    coins,  \* the UTXO entries: [id, vout, value, height, coinbase]
    blocks  \* the active chain from the genesis block: [txs, value, adds, spent]

rulevars == <<coins, blocks>>

TipHeight == Len(blocks) - 1

(* An int64 *)
Int64(n) == ((n + Wrap \div 2) % Wrap) - (Wrap \div 2)

MoneyRange(v) == 0 <= v /\ v <= MaxMoney

BlockSubsidy(h) ==
    LET halved[n \in 0 .. 63] == IF n = 0 THEN Subsidy ELSE halved[n - 1] \div 2
        halvings == h \div HalvingInterval
    IN  IF h < 0 \/ halvings >= 64 THEN 0 ELSE halved[halvings]

(* lock is a height or a time, whichever the threshold makes it: block times are heights here. *)
IsFinalizedTx(tx, height) == tx.lock = 0 \/ tx.lock < height \/ tx.final

Outpoint(entry) == <<entry.id, entry.vout>>

Created(id, outs, height) ==
    {[id |-> id, vout |-> v, value |-> outs[v], height |-> height, coinbase |-> id <= MaxHeight]
        : v \in DOMAIN outs}
-----------------------------------------------------------------------------
(* The loop over the transactions of a block.  Its variables:              *)
(*   ok, ids, fees, ops    seenTxIDs, totalFees, blockSigOps               *)
(*   pending               pendingAdds                                     *)
(*   spent, seen           spentEntries, seenSpends                        *)

(* [ok, sum]: each amount and each partial sum is in range. *)
Total(amounts) ==
    LET sum[i \in 0 .. Len(amounts)] == IF i = 0 THEN 0 ELSE Int64(sum[i - 1] + amounts[i])
    IN  [ok |-> \A i \in DOMAIN amounts : MoneyRange(amounts[i]) /\ MoneyRange(sum[i]),
         sum |-> sum[Len(amounts)]]

(* The entry an input spends: from this block first, then from the store. *)
Found(r, out) == {e \in r.pending : Outpoint(e) = out}
Stored(out) == {e \in coins : Outpoint(e) = out}
Previous(r, out) == IF Found(r, out) # {} THEN Found(r, out) ELSE Stored(out)

(* Mutant: outputs of this block that it spends are also added. *)
SpendKeepsPending(r, outs) ==
    [r EXCEPT !.seen = @ \cup outs,
              !.spent = @ \cup UNION {Stored(out) : out \in {o \in outs : Found(r, o) = {}}}]

(* The inputs, each an output of its own, are spent. *)
Spend(r, outs) ==
    [r EXCEPT !.seen = @ \cup outs,
              !.pending = @ \ UNION {Found(r, out) : out \in outs},
              !.spent = @ \cup UNION {Stored(out) : out \in {o \in outs : Found(r, o) = {}}}]

Spendable(r, tx, i, height) ==
    LET out == tx.ins[i]
    IN  /\ out \notin r.seen
        /\ \A j \in 1 .. i - 1 : tx.ins[j] # out
        /\ \E e \in Previous(r, out) : e.coinbase => height - e.height >= CoinbaseMaturity
        /\ tx.signed

CheckTx(r, id, height) ==
    LET tx == TxOf[id]
        ready == \A i \in DOMAIN tx.ins : Spendable(r, tx, i, height)
        in == Total([i \in DOMAIN tx.ins |-> (CHOOSE e \in Previous(r, tx.ins[i]) : TRUE).value])
        out == Total(tx.outs)
        fees == Int64(r.fees + (in.sum - out.sum))
        after == Spend(r, ToSet(tx.ins))
    IN  IF /\ r.ok /\ id \notin r.ids /\ tx.ins # <<>>
           /\ IsFinalizedTx(tx, height)
           /\ out.ok /\ ready /\ in.ok
           /\ tx.ops <= MaxTxSigOps /\ r.ops + tx.ops <= MaxBlockSigOps
           /\ in.sum >= out.sum /\ MoneyRange(fees)
        THEN [after EXCEPT !.ids = @ \cup {id}, !.fees = fees, !.ops = @ + tx.ops,
                           !.pending = @ \cup Created(id, tx.outs, height)]
        ELSE [r EXCEPT !.ok = FALSE]

(* [ok, pending, spent, ...] for a block with this coinbase amount and these transactions *)
validateBlockTransactions(value, txs, height) ==
    LET start == [ok |-> MoneyRange(value), ids |-> {}, fees |-> 0, ops |-> 0,
                  pending |-> Created(height, <<value>>, height), spent |-> {}, seen |-> {}]
        run[k \in 0 .. Len(txs)] == IF k = 0 THEN start ELSE CheckTx(run[k - 1], txs[k], height)
        end == run[Len(txs)]
    IN  [end EXCEPT !.ok = @ /\ value <= BlockSubsidy(height) + end.fees]
-----------------------------------------------------------------------------
(* The supply a node reports (nodeservice/service.go), in closed form.     *)

Eras(height) == {e \in 0 .. height : e * HalvingInterval <= height}
EraEnd(e, height) == Min({(e + 1) * HalvingInterval - 1, height})

issuedSubsidyThroughHeight(height) ==
    LET EraBlocks(e) == EraEnd(e, height) - e * HalvingInterval + 1
    IN  Min({MaxMoney, MapThenSumSet(LAMBDA e : EraBlocks(e) * (Subsidy \div 2^e), Eras(height))})

supplyInfo(height) ==
    LET issued == issuedSubsidyThroughHeight(height)
        matured == issuedSubsidyThroughHeight(height - CoinbaseMaturity + 1)
        next == (height \div HalvingInterval + 1) * HalvingInterval
    IN  [issued |-> issued, matured |-> matured, immature |-> issued - matured,
         reward |-> BlockSubsidy(height + 1), nextHalving |-> next, blocksUntil |-> next - height]
-----------------------------------------------------------------------------
Candidates == UNION {[1 .. n -> TxId] : n \in 0 .. MaxTxs}

(* A coinbase takes less than, just, or more than the subsidy and the fees. *)
Amounts(txs, height) ==
    LET fees == validateBlockTransactions(0, txs, height).fees
    IN  {BlockSubsidy(height) + fees + d : d \in {0, 1}} \cup {BlockSubsidy(height)}

ConnectTxs ==
    /\ TipHeight < MaxHeight
    /\ \E txs \in Candidates : \E value \in Amounts(txs, TipHeight + 1) :
          LET v == validateBlockTransactions(value, txs, TipHeight + 1)
          IN  /\ v.ok
              /\ coins' = (coins \ v.spent) \cup v.pending
              /\ blocks' = Append(blocks, [txs |-> txs, value |-> value,
                                           adds |-> v.pending, spent |-> v.spent])

(* The undo data of the block are applied backwards. *)
DisconnectTxs ==
    /\ TipHeight > 0
    /\ coins' = (coins \ Last(blocks).adds) \cup Last(blocks).spent
    /\ blocks' = Front(blocks)

(* The genesis block, which has a coinbase only. *)
GenesisBlock == [txs |-> <<>>, value |-> Subsidy, adds |-> Created(0, <<Subsidy>>, 0), spent |-> {}]

BlockRulesInit == coins = GenesisBlock.adds /\ blocks = <<GenesisBlock>>
BlockRulesNext == ConnectTxs \/ DisconnectTxs
BlockRulesSpec == BlockRulesInit /\ [][BlockRulesNext]_rulevars
-----------------------------------------------------------------------------
(* Properties *)

(* The places of the transactions of a chain: a block, and where in it; a coinbase is at 0. *)
Positions(chain) == UNION {{h} \X (0 .. Len(chain[h].txs)) : h \in DOMAIN chain}
Earlier(p, q) == p[1] < q[1] \/ (p[1] = q[1] /\ p[2] < q[2])

IdAt(chain, p) == IF p[2] = 0 THEN p[1] - 1 ELSE chain[p[1]].txs[p[2]]
InsAt(chain, p) == IF p[2] = 0 THEN <<>> ELSE TxOf[IdAt(chain, p)].ins
OutsAt(chain, p) == IF p[2] = 0 THEN <<chain[p[1]].value>> ELSE TxOf[IdAt(chain, p)].outs
MadeAt(chain, p) == Created(IdAt(chain, p), OutsAt(chain, p), p[1] - 1)

(* What the transactions at these places make and spend, and what of it is left. *)
Made(chain, places) == UNION {MadeAt(chain, p) : p \in places}
SpentIn(chain, places) == UNION {ToSet(InsAt(chain, p)) : p \in places}
Left(chain, places) == {e \in Made(chain, places) : Outpoint(e) \notin SpentIn(chain, places)}

Value(entries) == MapThenSumSet(LAMBDA e : e.value, entries)

(* The unspent outputs are those that some transaction of the active chain made and   *)
(* none spends: spending inside a block and taking blocks off again make no           *)
(* difference (pendingAdds, the undo of DisconnectTip).                               *)
CoinsAreUnspent == coins = Left(blocks, Positions(blocks))

(* Each input of each transaction on the active chain spends an output of an earlier  *)
(* transaction, and no other input spends it: within a transaction, a block or the    *)
(* chain (seenSpends, LoadUTXO).                                                      *)
NoDoubleSpend ==
    \A p \in Positions(blocks) : \A i \in DOMAIN InsAt(blocks, p) :
        LET out == InsAt(blocks, p)[i]
        IN  /\ \E q \in Positions(blocks) :
                 Earlier(q, p) /\ \E e \in MadeAt(blocks, q) : Outpoint(e) = out
            /\ \A q \in Positions(blocks) : \A j \in DOMAIN InsAt(blocks, q) :
                 InsAt(blocks, q)[j] = out => q = p /\ j = i

(* There is never more money than the subsidies paid so far, whatever amounts         *)
(* transactions name and however the sums of them wrap (validateBlockTransactions).   *)
SupplyBounded == Value(coins) <= MapThenSumSet(BlockSubsidy, 0 .. TipHeight)

(* The unspent outputs are those the active chain leaves, each spent at most once,     *)
(* worth no more than the subsidies.                                                  *)
UnspentExact == CoinsAreUnspent /\ NoDoubleSpend /\ SupplyBounded

(* What the node reports of the supply is what the rules of blocks make of it: the    *)
(* subsidies of all heights one by one, as matured those whose coinbase the next       *)
(* block may spend, and the first height at which the subsidy is halved               *)
(* (issuedSubsidyThroughHeight and supplyInfoFromHeight against BlockSubsidy and the   *)
(* maturity check).                                                                    *)
SupplyReported ==
    LET info == supplyInfo(TipHeight)
        Sum(S) == Min({MaxMoney, MapThenSumSet(BlockSubsidy, S)})
        spendable == {h \in 0 .. TipHeight : TipHeight + 1 - h >= CoinbaseMaturity}
        after == TipHeight + info.blocksUntil
    IN  /\ info.issued = Sum(0 .. TipHeight) /\ info.matured = Sum(spendable)
        /\ BlockSubsidy(after) = BlockSubsidy(TipHeight) \div 2
        /\ \A h \in TipHeight .. after - 1 : BlockSubsidy(h) = BlockSubsidy(TipHeight)
=============================================================================
