------------------------------- MODULE Mining -------------------------------
(***************************************************************************)
(* The built-in CPU miner (internal/mining/miner.go): MineBlock, called by *)
(* the miner loops of the RPC server, one call at a time in each loop.     *)
(*                                                                         *)
(* A call reads the tip, the required bits, the pool and the unspent       *)
(* outputs one after the other, checks that its template is still fresh,   *)
(* starts the workers and selects on the result channel, the stale ticker, *)
(* the end of all workers and the context.  The chain moves on meanwhile:  *)
(* blocks of other nodes are connected and reorganised (NewTip).  The pool *)
(* (module Mempool) may hold any transactions when it is read: entries     *)
(* that no longer connect, entries a reorganisation made non-final again,  *)
(* and, as its limit is a number of entries, more than fits into a block.  *)
(*                                                                         *)
(* A tip is known by a number that grows with every change: chainwork only *)
(* grows, so the chain never returns to a tip it has left.  The number     *)
(* also serves as the height.                                              *)
(***************************************************************************)
EXTENDS Integers, FiniteSets, FiniteSetsExt

CONSTANTS
    Loop,          \* the miner loops that may ever run
    Worker,        \* hashing goroutines of one call
    Tx,            \* transactions of the pool
    ParentTx,      \* [Tx -> Tx \cup {Coin}], whose output the only input spends
    Coin,          \* stands for a confirmed coinbase output
    MatureAt,      \* [Tx -> Nat], first height that may spend the coinbase of t
    FinalAt,       \* [Tx -> Nat], first height whose block may hold t (its lock time)
    Size, SigOps,  \* [Tx -> Nat], serialized bytes, signature operations
    MaxBlockSize,  \* bytes a block has for transactions besides its coinbase
    MaxBlockSigOps,\* signature operations a block may hold besides its coinbase's
    MaxTip         \* bound on the number of tips

ASSUME MiningAssumption ==
    /\ Coin \notin Tx
    /\ ParentTx \in [Tx -> Tx \cup {Coin}]
    /\ {MatureAt, FinalAt, Size, SigOps} \subseteq [Tx -> Nat]
    /\ {MaxBlockSize, MaxBlockSigOps} \subseteq Nat
    /\ MaxTip \in Nat

VARIABLES
    tip,     \* [id, confirmed]: the active chain
    ctx,     \* [Loop -> BOOLEAN], the context of a loop is cancelled
    mine     \* [Loop -> MineBlock call]

miningVars == <<tip, ctx, mine>>

(* What a call returns, or "none" while it runs. *)
Outcomes == {"none", "block", "stale", "refresh", "cancelled", "badprev", "error"}
(* Contents of the one-place result channel. *)
Messages == {"empty", "block", "failure", "stale", "refresh"}
Steps == {"idle", "bits", "txs", "fresh", "select", "wait", "join", "handle", "connect"}

NoCall == [at |-> "idle", prev |-> 0, mixed |-> FALSE, block |-> {}, age |-> "new",
           cancel |-> FALSE, resultc |-> "empty", taken |-> "empty",
           running |-> {}, out |-> "none"]

Call == [at : Steps, prev : 0..MaxTip, mixed : BOOLEAN, block : SUBSET Tx,
         age : {"new", "soft", "hard"}, cancel : BOOLEAN,
         resultc : Messages, taken : Messages, running : SUBSET Worker, out : Outcomes]

(* Closed under parents: what one chain can have confirmed. *)
Closed(S) == \A t \in S : ParentTx[t] \in S \cup {Coin}

(***************************************************************************)
(* The unspent outputs of the tip: t can be spent into a block at height   *)
(* when it is not confirmed yet and its input is there, or made by an      *)
(* earlier transaction of the block, or a mature coinbase.                 *)
(***************************************************************************)
Spendable(t, included, height) ==
    /\ t \notin tip.confirmed
    /\ \/ ParentTx[t] \in included \cup tip.confirmed
       \/ ParentTx[t] = Coin /\ height >= MatureAt[t]

(* templateTxIsBuildable without the maturity rule. *)
BuildableAnyAge(t, included, height) ==
    t \notin tip.confirmed /\ ParentTx[t] \in included \cup tip.confirmed \cup {Coin}

templateTxIsBuildable(t, included, height) == Spendable(t, included, height)

(* The entries, parents first, that make it into a template. *)
Selected(pool, height) ==
    CHOOSE S \in SUBSET pool :
        /\ \A t \in S : templateTxIsBuildable(t, S, height)
        /\ \A t \in pool \ S : ~templateTxIsBuildable(t, S, height)

CheckTemplateFreshness(m) ==
    LET fresh == m.prev = tip.id /\ m.age # "hard"
    IN  [fresh |-> fresh, refreshDue |-> ~fresh \/ m.age = "soft"]

(* ctx.Done() of the child context of the call. *)
Done(l) == mine[l].cancel \/ ctx[l]

Set(l, m) == mine' = [mine EXCEPT ![l] = m]
Return(l, outcome) == Set(l, [NoCall EXCEPT !.out = outcome])

MiningInit ==
    /\ tip = [id |-> 0, confirmed |-> {}]
    /\ ctx = [l \in Loop |-> FALSE]
    /\ mine = [l \in Loop |-> NoCall]

(*********************** NewBlockTemplate ***********************)

ReadTip(l) ==
    /\ Set(l, [NoCall EXCEPT !.at = "bits", !.prev = tip.id])
    /\ UNCHANGED <<tip, ctx>>

ReadBits(l) ==
    LET m == mine[l]
    IN  /\ m.at = "bits"
        /\ \/ Set(l, [m EXCEPT !.at = "txs", !.mixed = tip.id # m.prev])
           \/ Return(l, "error")
        /\ UNCHANGED <<tip, ctx>>

ReadTxs(l) ==
    LET m == mine[l]
    IN  /\ m.at = "txs"
        /\ \E pool \in SUBSET Tx :
              Set(l, [m EXCEPT !.at = "fresh", !.mixed = @ \/ tip.id # m.prev,
                               !.block = Selected(pool, m.prev + 1)])
        /\ UNCHANGED <<tip, ctx>>

(* Workers start on a template nobody compares with the tip again. *)
StartWorkersUnchecked(l) ==
    LET m == mine[l]
    IN  /\ m.at = "fresh"
        /\ Set(l, [m EXCEPT !.at = "select", !.running = Worker])
        /\ UNCHANGED <<tip, ctx>>

StartWorkers(l) ==
    LET m == mine[l]
    IN  /\ m.at = "fresh"
        /\ IF CheckTemplateFreshness(m).fresh
           THEN Set(l, [m EXCEPT !.at = "select", !.running = Worker])
           ELSE Return(l, "stale")
        /\ UNCHANGED <<tip, ctx>>

(*************************** the workers ***************************)

(* A send that replaces what is in the channel. *)
TrySendOverwrites(m, msg, always) == [m EXCEPT !.resultc = msg, !.cancel = TRUE]

(* A send that does not block: lost when the channel is full; the sender   *)
(* of a message that fits cancels the others.                              *)
TrySend(m, msg, always) ==
    IF m.resultc = "empty" THEN [m EXCEPT !.resultc = msg, !.cancel = TRUE]
                           ELSE [m EXCEPT !.cancel = @ \/ always]

(* A hash error or a block; none is found on top of the last tip of the bound. *)
Findable(m) == {"failure"} \cup (IF m.prev < MaxTip THEN {"block"} ELSE {})

WorkerSends(l, w) ==
    LET m == mine[l]
    IN  /\ w \in m.running
        /\ \E msg \in Findable(m) :
              Set(l, [TrySend(m, msg, FALSE) EXCEPT !.running = @ \ {w}])
        /\ UNCHANGED <<tip, ctx>>

(* A worker that sees the context done, or has tried all its nonces. *)
WorkerStops(l, w) ==
    LET m == mine[l]
    IN  /\ w \in m.running
        /\ Set(l, [m EXCEPT !.running = @ \ {w}])
        /\ UNCHANGED <<tip, ctx>>

(***************** the select of the calling goroutine *****************)

SelectResult(l) ==
    LET m == mine[l]
    IN  /\ m.at = "select" /\ m.resultc # "empty"
        /\ Set(l, [m EXCEPT !.at = "join", !.taken = m.resultc, !.resultc = "empty"])
        /\ UNCHANGED <<tip, ctx>>

(* staleTicker: gives up a stale template, and one that is merely due. *)
StaleTick(l) ==
    LET m == mine[l]
        status == CheckTemplateFreshness(m)
    IN  /\ m.at = "select" /\ status.refreshDue
        /\ Set(l, TrySend(m, IF status.fresh THEN "refresh" ELSE "stale", TRUE))
        /\ UNCHANGED <<tip, ctx>>

(* All workers are gone: a result may still lie in the channel. *)
SelectDone(l) ==
    LET m == mine[l]
    IN  /\ m.at = "select" /\ m.running = {}
        /\ IF m.resultc = "empty" THEN Return(l, "error")
           ELSE Set(l, [m EXCEPT !.at = "handle", !.taken = m.resultc, !.resultc = "empty"])
        /\ UNCHANGED <<tip, ctx>>

SelectCancelled(l) ==
    LET m == mine[l]
    IN  /\ m.at = "select" /\ Done(l)
        /\ Set(l, [m EXCEPT !.at = "wait"])
        /\ UNCHANGED <<tip, ctx>>

(* After wg.Wait() in the ctx.Done case: the caller's cancellation wins over any result. *)
Cancelled(l) ==
    LET m == mine[l]
    IN  /\ m.at = "wait" /\ m.running = {}
        /\ CASE ctx[l]                -> Return(l, "cancelled")
             [] m.resultc = "empty"   -> Return(l, "error")
             [] OTHER -> Set(l, [m EXCEPT !.at = "handle", !.taken = m.resultc, !.resultc = "empty"])
        /\ UNCHANGED <<tip, ctx>>

Joined(l) ==
    LET m == mine[l]
    IN  /\ m.at = "join" /\ m.running = {}
        /\ Set(l, [m EXCEPT !.at = "handle"])
        /\ UNCHANGED <<tip, ctx>>

(************************** handleResult **************************)

HandleResult(l) ==
    LET m == mine[l]
    IN  /\ m.at = "handle"
        /\ CASE m.taken = "failure" -> Return(l, "error")
             [] m.taken \in {"stale", "refresh"} -> Return(l, m.taken)
             [] OTHER -> IF CheckTemplateFreshness(m).fresh
                         THEN Set(l, [m EXCEPT !.at = "connect"])
                         ELSE Return(l, "stale")
        /\ UNCHANGED <<tip, ctx>>

(* The inputs of the block's transactions are there and mature. *)
InputsConnect(m) == \A t \in m.block : Spendable(t, m.block, m.prev + 1)

(* The size, the signature operations and the lock times of the block, which  *)
(* NewBlockTemplate does not look at: it takes whatever can be built.         *)
Total(amount, S) == MapThenSumSet(LAMBDA t : amount[t], S)

WithinLimits(m) ==
    /\ Total(Size, m.block) <= MaxBlockSize
    /\ Total(SigOps, m.block) <= MaxBlockSigOps
    /\ \A t \in m.block : FinalAt[t] <= m.prev + 1

(* The rules of Chain.ConnectBlock that a mined block could break. *)
BlockValid(m) == InputsConnect(m) /\ WithinLimits(m)

(* Chain.ConnectBlock: only the active tip is extended. *)
Connect(l) ==
    LET m == mine[l]
    IN  /\ m.at = "connect"
        /\ CASE m.prev # tip.id -> Return(l, "badprev") /\ UNCHANGED tip
             [] m.prev = tip.id /\ ~BlockValid(m) -> Return(l, "error") /\ UNCHANGED tip
             [] OTHER -> /\ Return(l, "block")
                         /\ tip' = [id |-> tip.id + 1, confirmed |-> tip.confirmed \cup m.block]
        /\ UNCHANGED ctx

MineStep(l) ==
    \/ ReadBits(l) \/ ReadTxs(l) \/ StartWorkers(l)
    \/ \E w \in Worker : WorkerSends(l, w) \/ WorkerStops(l, w)
    \/ SelectResult(l) \/ SelectDone(l) \/ SelectCancelled(l) \/ Cancelled(l) \/ Joined(l)
    \/ HandleResult(l) \/ Connect(l)

(************************** the rest of the node **************************)

(* Another node's block, or a reorganisation, gives the chain a new tip. *)
NewTip ==
    /\ tip.id < MaxTip
    /\ \E S \in SUBSET Tx :
          /\ Closed(S)
          /\ tip' = [id |-> tip.id + 1, confirmed |-> S]
    /\ UNCHANGED <<ctx, mine>>

(* The template gets old: past the two minutes of the soft limit, then past the hard one. *)
Age(l) ==
    /\ mine[l].at \notin {"idle", "bits", "txs"}
    /\ mine[l].age # "hard"
    /\ Set(l, [mine[l] EXCEPT !.age = IF @ = "new" THEN "soft" ELSE "hard"])
    /\ UNCHANGED <<tip, ctx>>

Surroundings == NewTip \/ \E l \in Loop : Age(l) \/ StaleTick(l)

(* The calls and the chain hold what the code's types say. *)
MiningTypeOK ==
    /\ tip \in [id : 0..MaxTip, confirmed : SUBSET Tx]
    /\ ctx \in [Loop -> BOOLEAN]
    /\ mine \in [Loop -> Call]

(***************************************************************************)
(* The reads of NewBlockTemplate are not made under one lock, yet workers  *)
(* never hash a template that mixes two tips: the freshness check between  *)
(* the last read and the first hash throws it away.                        *)
(***************************************************************************)
TemplateFromOneTip ==
    \A l \in Loop : mine[l].running # {} => ~mine[l].mixed

(***************************************************************************)
(* The transactions of a block that still extends the tip were selected    *)
(* minutes ago from a pool with stale entries, yet none of them spends an  *)
(* output that is not there, is already spent or is not mature.            *)
(***************************************************************************)
MinedInputsConnect ==
    \A l \in Loop :
        mine[l].at = "connect" /\ mine[l].prev = tip.id => InputsConnect(mine[l])

(***************************************************************************)
(* What the workers hash belongs to one tip, and the inputs of what they   *)
(* find connect to it.                                                     *)
(***************************************************************************)
TemplateSound == TemplateFromOneTip /\ MinedInputsConnect

(* The first result of the call is a block. *)
HasBlock(m) == m.taken = "block" \/ (m.taken = "empty" /\ m.resultc = "block")

(***************************************************************************)
(* The result channel holds one message and every sender may find it full: *)
(* a block that was the first to get in is submitted; only a cancelled     *)
(* loop or a template that is no longer fresh may drop it.  One that is    *)
(* submitted extends the chain, or has lost the race for the tip, or is    *)
(* over a limit that the template ignores; nothing else is wrong with it.  *)
(***************************************************************************)
FoundBlockNotLost ==
    [][\A l \in Loop : HasBlock(mine[l]) /\ ~HasBlock(mine'[l])
          => \/ mine'[l].out \in {"block", "badprev"}
             \/ mine'[l].out = "error" /\ mine[l].at = "connect" /\ ~WithinLimits(mine[l])
             \/ mine'[l].out = "cancelled" /\ ctx[l]
             \/ mine'[l].out = "stale" /\ ~CheckTemplateFreshness(mine[l]).fresh]_mine
=============================================================================
