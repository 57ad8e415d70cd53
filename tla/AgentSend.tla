------------------------------ MODULE AgentSend ------------------------------
(***************************************************************************)
(* Payments the wallet agent (cmd/legacycoreagent) makes from addresses    *)
(* whose keys its callers hold: txsvc's SignAndSend and Estimate for LBTC, *)
(* Bitcoin and the Kaspa-like coins, with an external signer, an external  *)
(* network and lost replies.                                               *)
(*                                                                         *)
(* A behaviour concerns one chain and one paying address.  The network is  *)
(* the address's confirmed coins and the pending transactions; requests    *)
(* run side by side, as the agent's HTTP handlers do, and read it at       *)
(* different times.  Sizes and fees are small numbers: a fee of one unit   *)
(* per unit of size is minRelayFee.                                        *)
(***************************************************************************)
EXTENDS Integers, FiniteSets, FiniteSetsExt

CONSTANTS
    Ask,        \* the requests
    Asks,       \* what each asks for: sets of [op, amount, fee, all]
    Coin, Worth, \* the address's coins and their values, all different
    Later,      \* the coins that are confirmed only later
    InSize, OutSize, \* bytes an input and an output add to a transaction
    SweepFloor, \* minRelayFee(226)
    NodeDust,   \* the least change LBTC's pool accepts
    Cutoff,     \* kaspaDustCutoff: change below it is left to the fee
    Attempts,   \* RPCClient.attempts
    MaxPasses   \* maxIters of the LBTC fee loop

ASSUME AgentAssumption ==
    /\ Asks \in [Ask -> SUBSET [op : {"send", "estimate"}, amount : Nat, fee : Nat, all : BOOLEAN]]
    /\ IsFiniteSet(Coin) /\ Later \subseteq Coin
    /\ Worth \in [Coin -> Nat] /\ \A c, d \in Coin : Worth[c] = Worth[d] => c = d
    /\ {InSize, Cutoff, MaxPasses} \subseteq Nat /\ OutSize \in Nat \ {0}

VARIABLES
    chain,  \* "LBTC", "BTC" or "KAS"
    coins,  \* confirmed unspent coins of the paying address
    late,   \* coins not received yet
    mem,    \* transactions the network accepted
    ask     \* each request's progress

asvars == <<chain, coins, late, mem, ask>>

Unsent == [by |-> 0, probe |-> FALSE, ins |-> {}, pays |-> 0, change |-> 0, size |-> 0]
Idle == [pc |-> "idle", op |-> "send", amount |-> 0, fee |-> 0, all |-> FALSE, list |-> {}, seen |-> {},
         ins |-> {}, used |-> 0, size |-> 0, pass |-> 0, tx |-> Unsent, tries |-> 0, paid |-> 0]
-----------------------------------------------------------------------------
(* Arithmetic *)

Total(S) == MapThenSumSet(LAMBDA c : Worth[c], S)

Spend(t) == Total(t.ins) - t.pays - t.change
Size(ins, change) == InSize * Cardinality(ins) + OutSize * (IF change > 0 THEN 2 ELSE 1)

(* Largest first until the sum is reached; all of them when it never is. *)
pickGreedy(S, needed) ==
    LET prefixes == {{c \in S : Worth[c] >= Worth[d]} : d \in S}
        enough == {P \in prefixes : Total(P) >= needed}
    IN  IF enough = {} THEN S ELSE CHOOSE P \in enough : \A Q \in enough : P \subseteq Q

(* The size, and so the fee, of the payment that a fee of f leads to. *)
FeeFor(S, amount, f) ==
    LET picked == pickGreedy(S, amount + f)
    IN  Size(picked, Total(picked) - amount - f)

(* A round of Estimate's loop: done once it leaves the fee unchanged. *)
EstimateRound(S, amount, p) ==
    IF p.done \/ ~p.ok THEN p
    ELSE IF Total(S) < amount + p.fee THEN [p EXCEPT !.ok = FALSE]
    ELSE [p EXCEPT !.fee = FeeFor(S, amount, p.fee), !.done = FeeFor(S, amount, p.fee) = p.fee]

TwoRounds(S, amount, p) == EstimateRound(S, amount, EstimateRound(S, amount, p))
FourRounds(S, amount, p) == TwoRounds(S, amount, TwoRounds(S, amount, p))

(* The loop has eight rounds, and none of them may run out of funds. *)
Estimated(S, amount) ==
    LET last == FourRounds(S, amount, FourRounds(S, amount, [fee |-> 0, done |-> FALSE, ok |-> TRUE]))
    IN  [fee |-> last.fee, ok |-> last.done]

(* What the signer returns for Kaspa: it works the change out itself. *)
KaspaTx(r, ins, amount, fee, probe) ==
    LET rest == Total(ins) - amount - fee
        change == IF rest < Cutoff THEN 0 ELSE rest
    IN  [by |-> r, probe |-> probe, ins |-> ins, pays |-> amount, change |-> change,
         size |-> Size(ins, change)]

(* The network's verdict.  Two transactions never spend the same coin. *)
Takes(t) ==
    /\ t.ins \subseteq coins
    /\ \A u \in mem : t.ins \cap u.ins = {}
    /\ Spend(t) >= t.size
    /\ chain = "LBTC" /\ t.change > 0 => t.change >= NodeDust
-----------------------------------------------------------------------------
(* Requests *)

Go(r, pc, rec) == ask' = [ask EXCEPT ![r] = [rec EXCEPT !.pc = pc]]
Fail(r) == Go(r, "failed", ask[r]) /\ UNCHANGED <<chain, coins, late, mem>>
At(r, pc) == ask[r].pc = pc

(* Explorers leave out coins that a pending transaction spends, the node's address index does not. *)
Listed == IF chain = "BTC" THEN {c \in coins : \A t \in mem : c \notin t.ins} ELSE coins

(* A validated request lists the address's coins. *)
Begin(r) ==
    /\ At(r, "idle")
    /\ \E a \in Asks[r] :
          LET q == [Idle EXCEPT !.op = a.op, !.amount = a.amount, !.fee = a.fee,
                                !.all = a.all /\ chain = "LBTC", !.list = Listed, !.used = a.fee]
              next == CASE Listed = {} -> "failed"
                        [] Listed # {} /\ chain = "LBTC" -> IF a.op = "send" THEN "pass" ELSE "estimate"
                        [] Listed # {} /\ chain # "LBTC" ->
                              IF a.op = "send" /\ a.fee > 0 THEN "select" ELSE "estimate"
          IN  Go(r, next, q)
    /\ UNCHANGED <<chain, coins, late, mem>>

(* LBTC and Bitcoin estimate from a listing of their own. *)
Estimate(r) ==
    /\ At(r, "estimate") /\ chain # "KAS"
    /\ LET e == Estimated(Listed, ask[r].amount)
       IN  IF ~e.ok \/ Listed = {} THEN Go(r, "failed", ask[r])
           ELSE Go(r, IF ask[r].op = "send" THEN "select" ELSE "answered", [ask[r] EXCEPT !.fee = e.fee])
    /\ UNCHANGED <<chain, coins, late, mem>>

(* Kaspa estimates by offering a transaction with a fee of one to the network. *)
ProbeList(r) ==
    /\ At(r, "estimate") /\ chain = "KAS"
    /\ Go(r, IF Listed = {} THEN "failed" ELSE "probe",
             [ask[r] EXCEPT !.used = 0, !.seen = Listed])
    /\ UNCHANGED <<chain, coins, late, mem>>

Probed(r, fee) == Go(r, IF ask[r].op = "send" THEN "select" ELSE "answered", [ask[r] EXCEPT !.fee = fee])

Probe(r) ==
    /\ At(r, "probe")
    /\ LET a == ask[r]
           sel == pickGreedy(a.seen, a.amount + a.used)
           t == KaspaTx(r, sel, a.amount, 1, TRUE)
       IN  IF a.pass < 12 /\ Total(sel) < a.amount + a.used THEN Fail(r)
           ELSE IF (a.pass > 0 /\ sel = a.ins) \/ a.pass = 12
           THEN Probed(r, a.used) /\ UNCHANGED <<chain, coins, late, mem>>
           ELSE \/ Fail(r)                   \* no answer, or another refusal
                \/ /\ Takes(t)
                   /\ mem' = mem \cup {t}
                   /\ Probed(r, a.used) /\ UNCHANGED <<chain, coins, late>>
                \/ /\ Spend(t) < t.size /\ t.ins \subseteq coins
                   /\ Go(r, "probe", [a EXCEPT !.ins = sel, !.pass = @ + 1,
                            !.used = IF t.size <= @ THEN @ + 1 ELSE t.size])
                   /\ UNCHANGED <<chain, coins, late, mem>>

(* The fee a payment reports: Kaspa's is read back from the signed transaction. *)
FeeAsked(t, fee) == fee
FeeReported(t, fee) == IF chain = "KAS" THEN Spend(t) ELSE fee

(* Bitcoin and Kaspa build the payment from the first listing and the fee. *)
Select(r) ==
    /\ At(r, "select")
    /\ LET a == ask[r]
           sel == pickGreedy(a.list, a.amount + a.fee)
           rest == Total(sel) - a.amount - a.fee
           t == IF chain = "KAS" THEN KaspaTx(r, sel, a.amount, a.fee, FALSE)
                ELSE [by |-> r, probe |-> FALSE, ins |-> sel, pays |-> a.amount, change |-> rest,
                      size |-> Size(sel, rest)]
       IN  \/ Fail(r)                        \* the signer or a previous transaction is not to be had
           \/ /\ Total(sel) >= a.amount + a.fee
              /\ Go(r, "broadcast", [a EXCEPT !.tx = t, !.paid = FeeReported(t, a.fee)])
              /\ UNCHANGED <<chain, coins, late, mem>>

(* What LBTC pays and gets back with the fee it has settled on so far. *)
Pays(a, ins) == IF a.all THEN Total(ins) - a.used ELSE a.amount
Inputs(a) == IF a.all THEN a.list ELSE pickGreedy(a.list, a.amount + a.used)
Affords(a, ins) == IF a.all THEN Total(ins) > a.used /\ Total(ins) - a.used >= SweepFloor
                   ELSE Total(ins) >= a.amount + a.used
Change(a, ins) == Total(ins) - Pays(a, ins) - a.used

CoversAlmost(used, size) == used + 1 >= size
Covers(used, size) == used >= size

(* One pass of LBTC's fee loop: build, have it signed, measure.  A signature's *)
(* length varies by one.                                                        *)
Pass(r) ==
    /\ At(r, "pass")
    /\ LET a == ask[r]
           ins == Inputs(a)
       IN  \/ Fail(r)
           \/ /\ Affords(a, ins)
              /\ \E jitter \in 0 .. 1 :
                    LET size == Size(ins, Change(a, ins)) + jitter
                        settled == Covers(a.used, size)
                        b == [a EXCEPT !.ins = ins, !.size = IF settled THEN size ELSE 0,
                                       !.used = IF settled THEN @ ELSE size, !.pass = @ + 1]
                    IN  Go(r, IF settled \/ b.pass = MaxPasses THEN "final" ELSE "pass", b)
              /\ UNCHANGED <<chain, coins, late, mem>>

(* Signs again with the final fee; the same contents have the same size. *)
Final(r) ==
    /\ At(r, "final")
    /\ LET a == ask[r]
       IN  \/ Fail(r)
           \/ /\ Affords(a, a.ins)
              /\ \E jitter \in 0 .. 1 :
                    LET size == Size(a.ins, Change(a, a.ins)) + jitter
                    IN  /\ a.size > 0 => size = a.size
                        /\ Go(r, "broadcast", [a EXCEPT !.paid = a.used, !.tx =
                              [by |-> r, probe |-> FALSE, ins |-> a.ins, pays |-> Pays(a, a.ins),
                               change |-> Change(a, a.ins), size |-> size]])
              /\ UNCHANGED <<chain, coins, late, mem>>

AgainFromStart(r) ==
    LET a == [ask[r] EXCEPT !.tries = @ + 1, !.list = Listed, !.used = ask[r].fee, !.pass = 0]
    IN  Go(r, IF chain = "LBTC" /\ a.tries < Attempts THEN "pass" ELSE "failed", a)

(* After an error: LBTC's client calls again with the same bytes, the others give up. *)
Again(r) ==
    LET a == [ask[r] EXCEPT !.tries = @ + 1]
    IN  Go(r, IF chain = "LBTC" /\ a.tries < Attempts THEN "broadcast" ELSE "failed", a)

(* The network takes the transaction or refuses it; its reply may get lost. *)
Broadcast(r) ==
    /\ At(r, "broadcast")
    /\ LET a == ask[r]
       IN  \/ /\ Takes(a.tx)
              /\ mem' = mem \cup {a.tx}
              /\ Go(r, "answered", a) \/ Again(r)
           \/ ~Takes(a.tx) /\ Again(r) /\ UNCHANGED mem
           \/ Again(r) /\ UNCHANGED mem      \* it never arrived
    /\ UNCHANGED <<chain, coins, late>>
-----------------------------------------------------------------------------
(* The network *)

Confirmed(t) ==
    /\ t.ins \subseteq coins
    /\ coins' = coins \ t.ins
    /\ UNCHANGED <<chain, late, mem, ask>>
Received(c) ==
    /\ coins' = coins \cup {c} /\ late' = late \ {c}
    /\ UNCHANGED <<chain, mem, ask>>

AgentInit ==
    /\ chain \in {"LBTC", "BTC", "KAS"}
    /\ coins = Coin \ Later /\ late = Later
    /\ mem = {}
    /\ ask = [r \in Ask |-> Idle]

AgentNext ==
    \/ \E r \in Ask : Begin(r) \/ Estimate(r) \/ ProbeList(r) \/ Probe(r) \/ Select(r) \/ Pass(r)
                      \/ Final(r) \/ Broadcast(r)
    \/ \E t \in mem : Confirmed(t)
    \/ \E c \in late : Received(c)

AgentSpec == AgentInit /\ [][AgentNext]_asvars
-----------------------------------------------------------------------------
(* Properties *)

(* A request moves its amount at most once, although a reply may get lost and the   *)
(* client calls again: what it sends again is the same transaction, spending the    *)
(* same coins (RPCClient.Call, LBTC.broadcast; a Bitcoin payment is offered once).   *)
PaysOnce == chain # "KAS" => \A r \in Ask : Cardinality({t \in mem : t.by = r}) <= 1

(* A payment reported as done is one the network took: it pays the amount asked     *)
(* for, or every listed coin without change for a sweep, and the fee reported is    *)
(* the fee it pays, whichever pass or rounding settled it (SendResult).              *)
SuccessIsPaid ==
    \A r \in Ask : At(r, "answered") /\ ask[r].op = "send" =>
        /\ ask[r].tx \in mem
        /\ Spend(ask[r].tx) = ask[r].paid
        /\ IF ask[r].all THEN ask[r].tx.ins = ask[r].list /\ ask[r].tx.change = 0
           ELSE ask[r].tx.pays = ask[r].amount

(* What the LBTC client broadcasts pays the relay floor of its own signed size:     *)
(* the loop over fee, inputs and size ends only where the fee covers the size, and   *)
(* the last signature is over the same contents (LBTC.SignAndSend).                  *)
FloorPaid == chain = "LBTC" => \A r \in Ask : At(r, "broadcast") => Spend(ask[r].tx) >= ask[r].tx.size

(* A request to pay pays once, what it reports, and enough for the network.         *)
PaymentSound == PaysOnce /\ SuccessIsPaid /\ FloorPaid

(* An estimate is a dry run: nothing it does moves a coin (handleChainEstimate's    *)
(* comment: it never signs or broadcasts).                                          *)
EstimateNeverPays == \A r \in Ask : ask[r].op = "estimate" => \A t \in mem : t.by # r
=============================================================================
