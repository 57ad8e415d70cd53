------------------------------- MODULE Stratum -------------------------------
(***************************************************************************)
(* The pool server of stratum/stratum.go: connections and their limits,    *)
(* the active job, the broadcaster that renews it, and submissions.        *)
(*                                                                         *)
(* acceptLoop, jobBroadcaster and one handler for each connection share    *)
(* s.mu.  broadcastJob holds it while it writes to one miner after the     *)
(* other, and a write waits for a miner that does not read.                *)
(*                                                                         *)
(* A block is its parent's height, the job it was made for, the extra      *)
(* nonce in its coinbase and the merkle root in its header; the root of a  *)
(* coinbase is named by job and extra nonce.  Which hashes meet a target   *)
(* is a choice.  Requests that fail to parse change nothing and are left   *)
(* out.                                                                    *)
(***************************************************************************)
EXTENDS Naturals, FiniteSets

CONSTANTS
    Conn, IPOf,       \* connections and the address each comes from
    PerIP, Global,    \* maxConnsPerIP, maxConnsGlobal
    ShareLimit,       \* shareRateLimit * maxConnsPerIP
    ExtraNonce,
    MaxTip            \* bound: height of the chain

ASSUME StratumAssumption ==
    /\ IsFiniteSet(Conn)
    /\ PerIP \in Nat /\ Global \in Nat /\ ShareLimit \in Nat /\ MaxTip \in Nat

NoJob == [id |-> 0, height |-> 0]      \* activeJob is nil
NoNonce == "none"     \* the template's coinbase, without an extra nonce
IP == {IPOf[c] : c \in Conn}

VARIABLES
    tip,      \* height of the chain
    active,   \* activeJob: [id, height] or NoJob
    fresh,    \* the job refreshJob is about to send out
    todo,     \* connections broadcastJob still has to write to
    conn,     \* state of each connection: new, counted, up, closing, closed
    known,    \* the job each miner was last told of
    ipCounts, \* connections counted for each address
    shares,   \* submissions counted for each address in its window
    handled,  \* ghost: those of them that were looked at
    stop      \* "new", "no" (it runs), "asked" (Stop waits for s.mu), "done"

stratumvars ==
    <<tip, active, fresh, todo, conn, known, ipCounts, shares, handled, stop>>
-----------------------------------------------------------------------------
Live == {c \in Conn : conn[c] = "up"}       \* the keys of s.miners
Locked == todo # {}                         \* broadcastJob holds s.mu
-----------------------------------------------------------------------------
(* acceptLoop counts the connection under one lock and registers it under another; *)
(* after Stop it is closed and stays counted.                                      *)
Accept(c) ==
    /\ conn[c] = "new" /\ stop = "no" /\ ~Locked
    /\ \A d \in Conn : conn[d] # "counted"            \* one loop
    /\ Cardinality(Live) < Global /\ ipCounts[IPOf[c]] < PerIP      \* else closed at once
    /\ conn' = [conn EXCEPT ![c] = "counted"]
    /\ ipCounts' = [ipCounts EXCEPT ![IPOf[c]] = @ + 1]
    /\ UNCHANGED <<tip, active, fresh, todo, known, shares, handled, stop>>

Register(c) ==
    /\ conn[c] = "counted" /\ ~Locked
    /\ conn' = [conn EXCEPT ![c] = IF stop = "done" THEN "closed" ELSE "up"]
    /\ UNCHANGED <<tip, active, fresh, todo, known, ipCounts, shares, handled, stop>>

(* The connection breaks, idles out or is closed by Stop: the handler's deferred   *)
(* function takes it out of the tables.                                            *)
Breaks(c) ==
    /\ conn[c] = "up"
    /\ conn' = [conn EXCEPT ![c] = "closing"]
    /\ todo' = todo \ {c}                             \* a write in progress fails
    /\ UNCHANGED <<tip, active, fresh, known, ipCounts, shares, handled, stop>>

ForgetsCount(c) ==
    /\ conn[c] = "closing" /\ ~Locked
    /\ conn' = [conn EXCEPT ![c] = "new"]
    /\ known' = [known EXCEPT ![c] = 0]
    /\ UNCHANGED <<tip, active, fresh, todo, ipCounts, shares, handled, stop>>

HandlerEnds(c) ==
    /\ conn[c] = "closing" /\ ~Locked
    /\ conn' = [conn EXCEPT ![c] = "new"]
    /\ known' = [known EXCEPT ![c] = 0]
    /\ ipCounts' = [ipCounts EXCEPT ![IPOf[c]] = @ - 1]
    /\ UNCHANGED <<tip, active, fresh, todo, shares, handled, stop>>

(* handleSubscribe tells the miner the job it read before. *)
HandleSubscribe(c) ==
    /\ conn[c] = "up" /\ ~Locked
    /\ known' = [known EXCEPT ![c] = active.id]
    /\ UNCHANGED <<tip, active, fresh, todo, conn, ipCounts, shares, handled, stop>>
-----------------------------------------------------------------------------
(* jobBroadcaster: when the tip has passed the height the job is for, 0 without a   *)
(* job.                                                                            *)
NeverStale == active = NoJob

Stale == tip > active.height

Template == [id |-> active.id + 1, height |-> tip + 1]

RefreshJob ==
    /\ stop \in {"no", "asked"} /\ fresh = NoJob /\ ~Locked
    /\ Stale
    /\ fresh' = Template
    /\ UNCHANGED <<tip, active, todo, conn, known, ipCounts, shares, handled, stop>>

ActivateJob ==
    /\ fresh # NoJob /\ ~Locked
    /\ active' = fresh
    /\ fresh' = NoJob
    /\ todo' = Live                                   \* broadcastJob
    /\ UNCHANGED <<tip, conn, known, ipCounts, shares, handled, stop>>

NotifyLocks(c) ==
    /\ c \in todo /\ ~Locked
    /\ todo' = todo \ {c}
    /\ known' = [known EXCEPT ![c] = active.id]
    /\ UNCHANGED <<tip, active, fresh, conn, ipCounts, shares, handled, stop>>

NotifyMiner(c) ==
    /\ c \in todo
    /\ todo' = todo \ {c}
    /\ known' = [known EXCEPT ![c] = active.id]
    /\ UNCHANGED <<tip, active, fresh, conn, ipCounts, shares, handled, stop>>
-----------------------------------------------------------------------------
(* The block that is submitted: a copy of the template with the extra nonce in its *)
(* coinbase.  buildSubmissionHeader computes the root of that coinbase, but only   *)
(* for the header it hashes; the block itself keeps the template's.                *)
SubmittedBlock(job, n) ==
    [parent |-> job.height - 1, coinbase |-> <<job.id, n>>, root |-> <<job.id, NoNonce>>]

(* ProcessBlock's check of the root; that the hash of the block's header meets the *)
(* target is unlikely too, once the root is another.                               *)
Connects(b) == b.parent = tip /\ b.root = b.coinbase

WithinLimit(c) == shares[IPOf[c]] < ShareLimit

(* handleSubmit: counted, limited, for the active job only; a share or a block. *)
Submit(c) ==
    /\ conn[c] = "up" /\ ~Locked
    /\ known[c] # 0
    /\ shares[IPOf[c]] <= ShareLimit
    /\ shares' = [shares EXCEPT ![IPOf[c]] = @ + 1]
    /\ IF ~WithinLimit(c) THEN UNCHANGED <<tip, handled>>
       ELSE /\ handled' = [handled EXCEPT ![IPOf[c]] = @ + 1]
            /\ \/ UNCHANGED tip                      \* no job, a share, or too low
               \/ /\ active # NoJob /\ active.id = known[c]
                  /\ \E n \in ExtraNonce :
                       tip' = IF Connects(SubmittedBlock(active, n)) THEN tip + 1 ELSE tip
    /\ UNCHANGED <<active, fresh, todo, conn, known, ipCounts, stop>>
-----------------------------------------------------------------------------
(* An address's window of shares starts again. *)
WindowPasses ==
    /\ \E a \in IP : /\ shares[a] > 0
                     /\ shares' = [shares EXCEPT ![a] = 0]
                     /\ handled' = [handled EXCEPT ![a] = 0]
    /\ UNCHANGED <<tip, active, fresh, todo, conn, known, ipCounts, stop>>

(* A block from elsewhere. *)
NewTip ==
    /\ tip < MaxTip /\ tip' = tip + 1
    /\ UNCHANGED <<active, fresh, todo, conn, known, ipCounts, shares, handled, stop>>

(* Start begins to listen and starts the loops; the broadcaster makes its first job *)
(* at once, whatever the tip, unless the template fails.                           *)
StartServer ==
    /\ stop = "new" /\ stop' = "no"
    /\ fresh' \in {NoJob, Template}
    /\ UNCHANGED <<tip, active, todo, conn, known, ipCounts, shares, handled>>

(* Stop closes the listener, takes the lock and closes every connection. *)
StopServer ==
    /\ stop = "no" /\ stop' = "asked"
    /\ UNCHANGED <<tip, active, fresh, todo, conn, known, ipCounts, shares, handled>>

StopCloses ==
    /\ stop = "asked" /\ ~Locked
    /\ stop' = "done"
    /\ conn' = [c \in Conn |-> IF conn[c] = "up" THEN "closing" ELSE conn[c]]
    /\ UNCHANGED <<tip, active, fresh, todo, known, ipCounts, shares, handled>>
-----------------------------------------------------------------------------
StratumInit ==
    /\ tip = 0 /\ active = NoJob /\ fresh = NoJob /\ todo = {}
    /\ conn = [c \in Conn |-> "new"] /\ known = [c \in Conn |-> 0]
    /\ ipCounts = [a \in IP |-> 0]
    /\ shares = [a \in IP |-> 0] /\ handled = [a \in IP |-> 0]
    /\ stop = "new"

StratumNext ==
    \/ \E c \in Conn : \/ Accept(c) \/ Register(c) \/ Breaks(c) \/ HandlerEnds(c)
                       \/ HandleSubscribe(c) \/ NotifyMiner(c) \/ Submit(c)
    \/ RefreshJob \/ ActivateJob \/ WindowPasses \/ NewTip \/ StartServer \/ StopServer \/ StopCloses

(* The broadcaster's timer, the loops, and miners that read or are disconnected:   *)
(* there is no write deadline, so a miner that does neither holds the lock.        *)
StratumFairness ==
    /\ WF_stratumvars(RefreshJob) /\ WF_stratumvars(ActivateJob) /\ SF_stratumvars(StopCloses)
    /\ \A c \in Conn : WF_stratumvars(NotifyMiner(c))

StratumSpec == StratumInit /\ [][StratumNext]_stratumvars /\ StratumFairness
-----------------------------------------------------------------------------
(* The limits hold at every interleaving of acceptLoop and the handlers: an        *)
(* address's count is the number of its connections that are counted, up or        *)
(* closing, never above the limit, and reconnecting does not buy more shares in a  *)
(* window.                                                                         *)
LimitsHold ==
    \A a \in IP :
        LET its == {c \in Conn : IPOf[c] = a /\ conn[c] \in {"counted", "up", "closing"}}
        IN  /\ stop # "done" => ipCounts[a] = Cardinality(its)
            /\ Cardinality(its) <= PerIP
            /\ handled[a] <= ShareLimit

(* The active job is renewed once it is a block behind, whatever the broadcaster   *)
(* has to wait for: the lock, miners that are slow, its own earlier broadcast.     *)
JobCatchesUp == (stop = "no" /\ active # NoJob /\ tip > active.height)
                    ~> (stop # "no" \/ tip <= active.height)

(* Stop gets the lock, closes every connection and returns: broadcasts that follow *)
(* each other do not keep it waiting for ever.                                     *)
StopCompletes == stop = "asked" ~> stop = "done"
=============================================================================
