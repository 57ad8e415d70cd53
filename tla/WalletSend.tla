------------------------------ MODULE WalletSend ------------------------------
(***************************************************************************)
(* Spending from the wallet: coin selection, fees, change and sweeps of    *)
(* wallet/wallet.go, with two callers, incoming payments, blocks and the   *)
(* lock timer at any point between the steps.                              *)
(*                                                                         *)
(* A send copies the outpoints the pool has spent, then the pool's         *)
(* transactions, then reads the unspent set and its keys, selects under    *)
(* the wallet's mutex, asks for a change address, signs and submits: six   *)
(* views of a state that moves on.  The pool is the one of Mempool.tla,    *)
(* reduced to what Add decides; the wallet's keys are the set of addresses *)
(* it owns, and a change address is durable once NewAddress returned       *)
(* (Wallet.tla).  Coins are classic ones; values and sizes are small       *)
(* numbers in place of the code's.                                         *)
(***************************************************************************)
EXTENDS Naturals, FiniteSets, FiniteSetsExt, Sequences, SequencesExt

CONSTANTS
    Sender,         \* the threads that send
    Initial,        \* the confirmed coins: [tx, vout, addr, value, mature]
    Requests,       \* what each of them asks for: [froms, amount, fee, extra, sweep]
    MinRelay,       \* mempool.MinRelayFeePerKB
    PerKB, Base, InSize, OutSize, \* the sizes in the fee estimate, scaled
    Dust,           \* mempool.DustThreshold
    MaxDepth,       \* safeMempoolChangeLocked's maxDepth
    MaxTx,          \* bound: transactions created
    Payment         \* value of an incoming unconfirmed payment, 0 for none

Foreign == <<"foreign", 0>>
ChangeTo(s, n) == <<"change", s, n>>

(* Coins are numbered apart from the transactions to come, no address is a change *)
(* address before it was made, and a sweep has no recipient of its own.            *)
ASSUME SendAssumption ==
    /\ {MinRelay, Base, InSize, OutSize, Dust, MaxDepth, MaxTx, Payment} \subseteq Nat
    /\ PerKB \in Nat \ {0}
    /\ IsFiniteSet(Initial)
    /\ \A c \in Initial : /\ c.tx = 0 /\ c.vout \in Nat /\ c.vout \notin 1 .. MaxTx
                          /\ c.value \in Nat /\ c.mature \in BOOLEAN /\ c.addr[1] # "change"
    /\ \A c, d \in Initial : c.vout = d.vout => c = d
    /\ \A s \in Sender : \A r \in Requests[s] :
         /\ {r.amount, r.fee} \subseteq Nat /\ r.sweep \in BOOLEAN
         /\ r.extra \in Seq({r.extra[i] : i \in DOMAIN r.extra})
         /\ \A i \in DOMAIN r.extra : r.extra[i].value \in Nat /\ r.extra[i].addr[1] # "change"
         /\ r.sweep => r.extra = <<>>

VARIABLES
    utxo,   \* confirmed unspent outputs, the wallet's and others'
    pool,   \* pool transactions in the order of Transactions(0)
    mine,   \* addresses whose keys the wallet holds
    locked, \* the wallet is locked
    last,   \* number of the last transaction
    send,   \* the call of each sender
    report, \* the transactions accepted sends reported
    kin,    \* ghost: those and the transactions that descend from them
    income, \* ghost: value ever paid to the wallet from outside
    outgo   \* ghost: value the wallet's transactions paid to others or as fee

sendvars == <<utxo, pool, mine, locked, last, send, report, kin, income, outgo>>
-----------------------------------------------------------------------------
Sum(S) == MapThenSumSet(LAMBDA c : c.value, S)
SumSeq(s) == MapThenSumSet(LAMBDA i : s[i].value, DOMAIN s)
Point(c) == <<c.tx, c.vout>>
Points(S) == {Point(c) : c \in S}
Outs(t) == {[tx |-> t.id, vout |-> i, addr |-> t.outs[i].addr, value |-> t.outs[i].value,
             mature |-> TRUE] : i \in DOMAIN t.outs}
SpentBy(txs) == UNION {t.ins : t \in ToSet(txs)}

(* Depth of the transactions that build on a confirmed coin of the wallet, 0 for   *)
(* the others: one more than that of the deepest it spends.  The list is in         *)
(* topological order, so one pass finds what the code's loop finds.                *)
SafeDepth(txs, owned) ==
    LET depth[i \in DOMAIN txs] ==
          Max({0} \cup {1 : p \in txs[i].ins \cap owned}
                  \cup {depth[j] + 1 : j \in {j \in 1 .. i - 1 :
                          /\ depth[j] \in 1 .. MaxDepth
                          /\ \E p \in txs[i].ins : p[1] = txs[j].id}})
    IN  depth

AnyChange(txs, owned) == {c \in UNION {Outs(t) : t \in ToSet(txs)} : c.addr \in mine}

(* The own outputs of those transactions, down to the depth limit. *)
SafeChange(txs, owned) ==
    LET depth == SafeDepth(txs, owned)
    IN  {c \in UNION {Outs(txs[i]) : i \in {j \in DOMAIN txs : depth[j] \in 1 .. MaxDepth}} :
            c.addr \in mine}

(* listUnspent over the snapshots it was given; a locked wallet owns nothing. *)
listUnspent(spent, txs) ==
    IF locked THEN {}
    ELSE LET confirmed == {c \in utxo : c.addr \in mine}
         IN  {c \in confirmed \cup SafeChange(txs, Points(confirmed)) : Point(c) \notin spent}

(* What a request may draw on. *)
Eligible(unspent, r) ==
    {c \in unspent : c.mature /\ (r.froms = {} \/ c.addr \in r.froms)}

estimatedFee(ins, outs) ==
    LET size == Base + ins * InSize + outs * OutSize
    IN  Max({MinRelay, (size * MinRelay + PerKB - 1) \div PerKB})
-----------------------------------------------------------------------------
NoCall == [step |-> "idle", req |-> [froms |-> {}, amount |-> 0, fee |-> 0, extra |-> <<>>,
                                     sweep |-> FALSE],
           spent |-> {}, txs |-> <<>>, unspent |-> {}, ins |-> {},
           amount |-> 0, fee |-> 0, change |-> 0, to |-> Foreign]

At(s, step) == send[s].step = step
Ends(s) == send' = [send EXCEPT ![s] = NoCall]

(* The requests the callers of sendWithSources make of their arguments. *)
Ask(froms, amount, fee, extra, sweep) ==
    [froms |-> froms, amount |-> amount, fee |-> fee, extra |-> extra, sweep |-> sweep]

SendToAddress(froms, amount, fee) == Ask(froms, amount, fee, <<>>, FALSE)

Sweep(from, fee) == Ask({from}, 0, fee, <<>>, TRUE)

SendMany(from, amounts, fee) ==
    Ask({from}, 0, fee, [i \in DOMAIN amounts |-> [addr |-> Foreign, value |-> amounts[i]]], FALSE)

SendTokenMarkers(from, n, fee) == SendMany(from, [i \in 1 .. n |-> Dust], fee)

(* Equal parts to the address itself, the last with what is left over. *)
SplitCoins(from, total, n, fee) ==
    LET each == total \div n
    IN  Ask({from}, 0, fee, [i \in 1 .. n |-> [addr |-> from,
            value |-> IF i = n THEN each + (total % n) ELSE each]], FALSE)

(* The checks before anything is read.  (Sweep also adds up the eligible coins     *)
(* here, and reports that sum less the fee.)                                       *)
Request(s) ==
    /\ At(s, "idle")
    /\ ~locked
    /\ last < MaxTx
    /\ \E r \in Requests[s] :
         /\ r.amount > 0 \/ r.extra # <<>> \/ r.sweep
         /\ \A i \in DOMAIN r.extra : r.extra[i].value >= Dust
         /\ send' = [send EXCEPT ![s] = [NoCall EXCEPT !.step = "spent", !.req = r]]
    /\ UNCHANGED <<utxo, pool, mine, locked, last, report, kin, income, outgo>>

SpentOutpoints(s) ==
    /\ At(s, "spent")
    /\ send' = [send EXCEPT ![s].step = "txs", ![s].spent = SpentBy(pool)]
    /\ UNCHANGED <<utxo, pool, mine, locked, last, report, kin, income, outgo>>

Transactions(s) ==
    /\ At(s, "txs")
    /\ send' = [send EXCEPT ![s].step = "list", ![s].txs = pool]
    /\ UNCHANGED <<utxo, pool, mine, locked, last, report, kin, income, outgo>>

ListUnspent(s) ==
    /\ At(s, "list")
    /\ send' = [send EXCEPT ![s].step = "select", ![s].txs = <<>>, ![s].spent = {},
                            ![s].unspent = listUnspent(send[s].spent, send[s].txs)]
    /\ UNCHANGED <<utxo, pool, mine, locked, last, report, kin, income, outgo>>

Target(r, fee) == r.amount + fee + SumSeq(r.extra)

(* A selection stops with the first coin that covers the target, so without that  *)
(* coin the target is not covered; a sweep takes everything.                      *)
Selections(unspent, r) ==
    LET all == Eligible(unspent, r)
    IN  IF r.sweep THEN {all} \ {{}}
        ELSE {S \in SUBSET all : /\ S # {}
                                 /\ Sum(S) >= Target(r, r.fee)
                                 /\ \E c \in S : Sum(S \ {c}) < Target(r, r.fee)}

(* The fee and the amounts of a selection: [ok, fee, amount, change].  A fee of 0  *)
(* is estimated, after the selection, from the inputs and outputs it led to.       *)
SettledLate(S, r) ==
    LET total == Sum(S)
        outs == Len(r.extra) + (IF r.amount > 0 \/ r.sweep THEN 1 ELSE 0)
                + (IF ~r.sweep /\ total > Target(r, r.fee) THEN 1 ELSE 0)
        fee == IF r.fee = 0 THEN estimatedFee(Cardinality(S), outs) ELSE r.fee
    IN  [ok |-> TRUE, fee |-> fee, amount |-> IF r.sweep THEN total - fee ELSE r.amount,
         change |-> IF r.sweep THEN 0 ELSE total - Target(r, r.fee)]

Settled(S, r) ==
    LET total == Sum(S)
        outs == Len(r.extra) + (IF r.amount > 0 \/ r.sweep THEN 1 ELSE 0)
                + (IF ~r.sweep /\ total > Target(r, r.fee) THEN 1 ELSE 0)
        fee == IF r.fee = 0 THEN estimatedFee(Cardinality(S), outs) ELSE r.fee
    IN  IF r.sweep
        THEN [ok |-> total > fee, fee |-> fee, amount |-> total - fee, change |-> 0]
        ELSE [ok |-> total >= Target(r, fee), fee |-> fee, amount |-> r.amount,
              change |-> total - Target(r, fee)]

Select(s) ==
    /\ At(s, "select")
    /\ LET r == send[s].req
           choices == IF locked THEN {} ELSE Selections(send[s].unspent, r)
       IN  IF choices = {} THEN Ends(s)
           ELSE \E S \in choices : \E x \in {Settled(S, r)} :
                  IF ~x.ok THEN Ends(s)
                  ELSE send' = [send EXCEPT ![s] = [@ EXCEPT
                         !.step = IF x.change > 0 THEN "change" ELSE "add",
                         !.unspent = {}, !.ins = S,
                         !.fee = x.fee, !.amount = x.amount, !.change = x.change]]
    /\ UNCHANGED <<utxo, pool, mine, locked, last, report, kin, income, outgo>>

(* The remainder is paid to an address made for it; a wallet locked meanwhile has  *)
(* none to give, and the send fails.                                               *)
ChangeAddress(s) ==
    /\ At(s, "change")
    /\ IF locked THEN Ends(s) /\ UNCHANGED mine
       ELSE /\ mine' = mine \cup {ChangeTo(s, last + 1)}
            /\ send' = [send EXCEPT ![s].step = "add", ![s].to = ChangeTo(s, last + 1)]
    /\ UNCHANGED <<utxo, pool, locked, last, report, kin, income, outgo>>

(* The signed transaction. *)
Built(s) ==
    LET r == send[s].req
    IN  [id |-> last + 1, ins |-> Points(send[s].ins),
         outs |-> (IF send[s].amount > 0 THEN <<[addr |-> Foreign, value |-> send[s].amount]>>
                   ELSE <<>>)
                  \o r.extra
                  \o (IF send[s].change > 0
                      THEN <<[addr |-> send[s].to, value |-> send[s].change]>> ELSE <<>>)]

(* The coins that exist, confirmed or not. *)
AllCoins == utxo \cup UNION {Outs(t) : t \in ToSet(pool)}

Value(p) == (CHOOSE c \in AllCoins : Point(c) = p).value

AcceptsConflict(t) ==
    /\ t.ins \subseteq Points(AllCoins)
    /\ \A i \in DOMAIN t.outs : t.outs[i].value >= Dust
    /\ LET fee == MapThenSumSet(Value, t.ins) - SumSeq(t.outs)
           size == Base + Cardinality(t.ins) * InSize + Len(t.outs) * OutSize
       IN  fee >= (size * MinRelay + PerKB - 1) \div PerKB

(* Pool.Add: the inputs exist and are free, no output is dust, the fee covers the  *)
(* size.                                                                           *)
Accepts(t) ==
    /\ t.ins \cap SpentBy(pool) = {}
    /\ t.ins \subseteq Points(AllCoins)
    /\ \A i \in DOMAIN t.outs : t.outs[i].value >= Dust
    /\ LET fee == MapThenSumSet(Value, t.ins) - SumSeq(t.outs)
           size == Base + Cardinality(t.ins) * InSize + Len(t.outs) * OutSize
       IN  fee >= (size * MinRelay + PerKB - 1) \div PerKB

Submit(s) ==
    /\ At(s, "add")
    /\ \E t \in {Built(s)} :
         IF Accepts(t)
         THEN /\ pool' = Append(pool, t)
              /\ last' = last + 1
              /\ report' = report \cup {t.id}
              /\ kin' = kin \cup {t.id}
              /\ outgo' = outgo + send[s].fee
                          + Sum({c \in Outs(t) : c.addr \notin mine})
         ELSE UNCHANGED <<pool, last, report, kin, outgo>>
    /\ Ends(s)
    /\ UNCHANGED <<utxo, mine, locked, income>>
-----------------------------------------------------------------------------
(* What others could spend of the unconfirmed transactions that descend from the   *)
(* wallet's: what it paid them, and their change.                                  *)
Theirs ==
    {p \in Points({c \in UNION {Outs(t) : t \in ToSet(pool)} : c.tx \in kin /\ c.addr \notin mine}) :
        p \notin SpentBy(pool)}

(* The rest of the node.  Someone pays the wallet and keeps a change, out of a coin *)
(* the wallet knows nothing of or out of one of those; with which other coins, and  *)
(* what the change is worth, is of no account here.                                 *)
Payments ==
    {[id |-> last + 1, ins |-> {p}, outs |-> <<[addr |-> a, value |-> Payment],
                                               [addr |-> Foreign, value |-> Payment]>>] :
        a \in {c.addr : c \in Initial} \cap mine, p \in {<<0, last + 1>>} \cup Theirs}

Receive ==
    /\ Payment > 0
    /\ last < MaxTx
    /\ \E t \in Payments :
         /\ pool' = Append(pool, t)
         /\ kin' = IF t.ins \subseteq Theirs THEN kin \cup {t.id} ELSE kin
         /\ income' = income + Sum({c \in Outs(t) : c.addr \in mine})
    /\ last' = last + 1
    /\ UNCHANGED <<utxo, mine, locked, send, report, outgo>>

(* A block confirms a transaction whose inputs are confirmed. *)
Confirm ==
    /\ \E i \in DOMAIN pool :
         /\ pool[i].ins \cap UNION {Points(Outs(t)) : t \in ToSet(pool)} = {}
         /\ utxo' = {c \in utxo : Point(c) \notin pool[i].ins} \cup Outs(pool[i])
         /\ pool' = RemoveAt(pool, i)
    /\ UNCHANGED <<mine, locked, last, send, report, kin, income, outgo>>

LockOrUnlock ==
    /\ locked' = ~locked
    /\ UNCHANGED <<utxo, pool, mine, last, send, report, kin, income, outgo>>
-----------------------------------------------------------------------------
SendInit ==
    /\ utxo = Initial
    /\ pool = <<>>
    /\ mine = {c.addr : c \in Initial}
    /\ locked = FALSE
    /\ last = 0
    /\ send = [s \in Sender |-> NoCall]
    /\ report = {}
    /\ kin = {}
    /\ income = Sum(Initial)
    /\ outgo = 0

SendNext ==
    \/ \E s \in Sender : \/ Request(s) \/ SpentOutpoints(s) \/ Transactions(s) \/ ListUnspent(s)
                         \/ Select(s) \/ ChangeAddress(s) \/ Submit(s)
    \/ Receive \/ Confirm \/ LockOrUnlock

SendSpec == SendInit /\ [][SendNext]_sendvars
-----------------------------------------------------------------------------
(* The value the wallet can spend now or once its transactions confirm. *)
Holdings == {c \in AllCoins : c.addr \in mine /\ Point(c) \notin SpentBy(pool)}

(* No value appears or disappears: whatever sends race for the same coins, are    *)
(* refused or lose their change address, what the wallet holds is what came in    *)
(* less what its transactions paid out and the fees they reported.                *)
FundsConserved == Sum(Holdings) + outgo = income

(* A transaction the wallet built spends only coins that are confirmed or outputs *)
(* of unconfirmed transactions that descend from one it built: its own change, or *)
(* what someone pays back out of what it paid.  It never spends an unconfirmed    *)
(* payment that came from elsewhere, although the pool, the coins and the keys    *)
(* were read at different times.                                                  *)
ChainsOnOwn ==
    \A i, j \in DOMAIN pool :
        pool[j].id \in report /\ (\E p \in pool[j].ins : p[1] = pool[i].id) => pool[i].id \in kin

(* A fee the wallet estimated is never below what the pool asks for the           *)
(* transaction it led to, so an automatic fee is not refused; and the fee a send  *)
(* reports is the difference of its inputs and outputs (the estimate is made      *)
(* after the coins were selected and can turn a change output into none).         *)
EstimateSuffices ==
    \A s \in Sender : At(s, "add") =>
        LET t == Built(s)
        IN  /\ Sum(send[s].ins) = SumSeq(t.outs) + send[s].fee
            /\ send[s].req.fee = 0 =>
                 send[s].fee >= ((Base + Cardinality(t.ins) * InSize + Len(t.outs) * OutSize)
                                 * MinRelay + PerKB - 1) \div PerKB
=============================================================================
