---------------------------- MODULE WalletJournal ----------------------------
(***************************************************************************)
(* The wallet application's list of transactions: nodeservice/service.go   *)
(* keeps a journal of the sends it made (wallet-transactions.json) and     *)
(* lays it over what a scan of the chain and of the pool shows.            *)
(*                                                                         *)
(* The journal's calls come one at a time here (the code does not          *)
(* serialise them); blocks, reorganisations, evictions, received payments  *)
(* and restarts of the node come between any two steps.  A transaction is  *)
(* described by Kind: own says it spends the wallet's coins, back that it  *)
(* pays an address of the wallet (for an own one, the destination), change *)
(* that it pays change.  A record's raw says RawTxHex is set.  Amounts,    *)
(* times and messages are left out.                                        *)
(***************************************************************************)
EXTENDS Naturals, FiniteSets

CONSTANTS
    Kind,    \* for each transaction: [own, back, change : BOOLEAN]
    NoTx

Trans == DOMAIN Kind

ASSUME JournalAssumption == NoTx \notin Trans

Pendings == {"pending", "local_only", "pending_broadcast"}
Statuses == Pendings \cup {"confirmed", "failed", "removed"}

VARIABLES
    records,  \* the journal: [tx, dir, status, raw], one for each tx and dir
    inpool, inchain,
    sending,  \* the send that was accepted by the pool and is not recorded yet
    sent,     \* ghost: the sends the pool accepted
    missed    \* ghost: sends that left the pool, or the process, before they were recorded

jvars == <<records, inpool, inchain, sending, sent, missed>>
-----------------------------------------------------------------------------
(* upsertWalletTx replaces the record of the same transaction and direction; bytes *)
(* that are known stay known.                                                      *)
upsert(rec) ==
    LET old == {r \in records : r.tx = rec.tx /\ r.dir = rec.dir}
    IN  (records \ old) \cup {[rec EXCEPT !.raw = @ \/ \E r \in old : r.raw]}

ReconcileDrops(rec) ==
    IF rec.status = "removed" THEN rec
    ELSE IF rec.tx \in inchain THEN [rec EXCEPT !.status = "confirmed", !.raw = FALSE]
    ELSE IF rec.tx \in inpool THEN [rec EXCEPT !.status = "pending"]
    ELSE IF rec.status \in Pendings THEN [rec EXCEPT !.status = "pending_broadcast"]
    ELSE rec

(* reconcileWalletTx; ListWalletTransactions skips the removed ones. *)
reconcile(rec) ==
    IF rec.status = "removed" THEN rec
    ELSE IF rec.tx \in inchain THEN [rec EXCEPT !.status = "confirmed"]
    ELSE IF rec.tx \in inpool THEN [rec EXCEPT !.status = "pending"]
    ELSE IF rec.status \in Pendings THEN [rec EXCEPT !.status = "pending_broadcast"]
    ELSE rec

(* The direction a send is recorded under. *)
SentAlways(t) == "sent"

Direction(t) == IF Kind[t].back THEN "self_transfer" ELSE "sent"

WalletOut(t) == Kind[t].back \/ Kind[t].change
ExternalOut(t) == ~Kind[t].back

classifyWalletSpend(t) ==
    IF ~ExternalOut(t) /\ WalletOut(t) THEN "self_transfer" ELSE "sent"

Row(t, d, s) == [tx |-> t, dir |-> d, status |-> s]

(* scanWalletChainHistory knows the wallet's coins from the blocks it walked. *)
ChainRows ==
    {Row(t, classifyWalletSpend(t), "confirmed") : t \in {x \in inchain : Kind[x].own}}
    \cup {Row(t, "received", "confirmed") : t \in {x \in inchain : ~Kind[x].own}}

(* scanWalletMempoolHistory takes the wallet's coins from ListUnspentForSpend,     *)
(* which leaves out every coin a pool transaction spends: no pool transaction is   *)
(* ever seen to spend the wallet's coins, unless it came between the two reads.    *)
PoolRows == {Row(t, "received", "pending") : t \in {x \in inpool : WalletOut(x)}}

(* What ListWalletTransactions shows: the journal's row covers a scanned one of    *)
(* the same transaction and direction, a chain row one of the pool.                *)
Rows ==
    LET own == {Row(r.tx, r.dir, r.status) :
                   r \in {reconcile(x) : x \in {y \in records : y.status # "removed"}}}
        Covered(row, by) == \E b \in by : b.tx = row.tx /\ b.dir = row.dir
        scanned == ChainRows \cup {p \in PoolRows : ~Covered(p, ChainRows)}
    IN  own \cup {row \in scanned : ~Covered(row, own)}
-----------------------------------------------------------------------------
(* SendRecorded (SendToAddress): the wallet's send is in the pool ... *)
SendRecorded(t) ==
    /\ sending = NoTx
    /\ Kind[t].own /\ t \notin sent
    /\ inpool' = inpool \cup {t}
    /\ sent' = sent \cup {t}
    /\ sending' = t
    /\ UNCHANGED <<records, inchain, missed>>

(* ... it is announced, its bytes are looked up in the pool, and it is recorded. *)
RecordSend ==
    /\ sending # NoTx
    /\ records' = upsert([tx |-> sending, dir |-> Direction(sending), status |-> "pending",
                          raw |-> sending \in inpool])
    /\ missed' = IF sending \in inpool THEN missed ELSE missed \cup {sending}
    /\ sending' = NoTx
    /\ UNCHANGED <<inpool, inchain, sent>>

(* RebroadcastTransaction: a transaction the pool lost is added again from its     *)
(* bytes, then announced to the peers there are.                                   *)
Rebroadcast(t) ==
    /\ sending = NoTx
    /\ \E rec \in {r \in records : r.tx = t} :
         \/ /\ t \in inpool \/ (rec.raw /\ t \notin inchain)
            /\ inpool' = inpool \cup {t}
            /\ \E s \in Pendings : records' = upsert([rec EXCEPT !.status = s])
         \/ /\ t \notin inpool /\ rec.raw                       \* Add refuses
            /\ records' = upsert([rec EXCEPT !.status = "failed"])
            /\ UNCHANGED inpool
    /\ UNCHANGED <<inchain, sending, sent, missed>>

ListWalletTransactions ==
    /\ sending = NoTx
    /\ records' = {reconcile(r) : r \in records}
    /\ UNCHANGED <<inpool, inchain, sending, sent, missed>>

RemoveLocalPending(t) ==
    /\ sending = NoTx
    /\ \E r \in records : r.tx = t
    /\ records' = {IF r.tx = t THEN [r EXCEPT !.status = "removed"] ELSE r : r \in records}
    /\ UNCHANGED <<inpool, inchain, sending, sent, missed>>
-----------------------------------------------------------------------------
(* The node: payments come in, blocks confirm, a reorganisation puts transactions  *)
(* back into the pool or not, the pool evicts, and a restart forgets the pool.     *)
World ==
    \/ \E t \in Trans : /\ ~Kind[t].own /\ t \notin inpool \cup inchain
                        /\ inpool' = inpool \cup {t}
                        /\ UNCHANGED <<records, inchain, sending, sent, missed>>
    \/ \E t \in inpool : /\ inpool' = inpool \ {t} /\ inchain' = inchain \cup {t}
                         /\ UNCHANGED <<records, sending, sent, missed>>
    \/ \E t \in inchain : /\ inchain' = inchain \ {t}
                          /\ inpool' \in {inpool, inpool \cup {t}}
                          /\ UNCHANGED <<records, sending, sent, missed>>
    \/ \E t \in inpool : /\ inpool' = inpool \ {t}
                         /\ UNCHANGED <<records, inchain, sending, sent, missed>>
    \/ /\ inpool' = {} /\ sending' = NoTx
       /\ missed' = missed \cup ({sending} \cap Trans)
       /\ UNCHANGED <<records, inchain, sent>>
-----------------------------------------------------------------------------
JournalInit ==
    /\ records = {} /\ inpool = {} /\ inchain = {}
    /\ sending = NoTx /\ sent = {} /\ missed = {}

JournalNext ==
    \/ \E t \in Trans : SendRecorded(t) \/ Rebroadcast(t) \/ RemoveLocalPending(t)
    \/ RecordSend \/ ListWalletTransactions \/ World

JournalSpec == JournalInit /\ [][JournalNext]_jvars
-----------------------------------------------------------------------------
(* A send that was recorded while the pool held it can be added to the pool again  *)
(* for ever: whatever is confirmed, reorganised out, evicted, retried, removed     *)
(* from the view or forgotten in a restart, the journal keeps its bytes.           *)
RetryPossible ==
    \A t \in sent \ (missed \cup {sending}) : \E r \in records : r.tx = t /\ r.raw

(* A confirmed transaction of the wallet is listed once, as confirmed and under    *)
(* one direction: the journal classifies by the destination, the scan by the       *)
(* outputs, and their rows are only merged when they agree.                        *)
ConfirmedOnce ==
    \A t \in inchain : \E row \in Rows : /\ row.tx = t /\ row.status = "confirmed"
                                         /\ \A other \in Rows : other.tx = t => other = row
=============================================================================
