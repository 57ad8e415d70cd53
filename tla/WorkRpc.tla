------------------------------- MODULE WorkRpc -------------------------------
(***************************************************************************)
(* Mining software at the RPC server (internal/rpc/server.go):             *)
(* getblocktemplate with long polling, submitblock, block proposals and    *)
(* generate, behind the limit on requests in progress and the rate limit.  *)
(*                                                                         *)
(* A block is its chain: the sequence of contents from genesis (<<>>) to   *)
(* it, so that Front is its parent.  Chain.mu makes each processed block   *)
(* one step; the template, its long-poll id and the pool are read one      *)
(* after the other.  All blocks are of equal work.  Orphans are left to    *)
(* module Blockchain: software that mines on this node's templates submits *)
(* none.                                                                   *)
(***************************************************************************)
EXTENDS Naturals, FiniteSets, Sequences, SequencesExt, Bags

CONSTANTS
    Miner,            \* callers with a connection each
    Makes,            \* [Miner -> SUBSET {"template", "submit", "generate", "operate"}], their calls
    Slots,            \* MaxConcurrentRPC
    Retries,          \* attempts of generate: 5 in the code
    PoolTx,           \* transactions
    MaxHeight,        \* bound: height of the chain
    MaxBlocks,        \* bound: blocks ever known
    MaxTokens, IdleLimit  \* a bucket's size; the idle time, in half seconds, after which it goes

ASSUME WorkAssumption == MaxTokens \in Nat /\ IdleLimit \in Nat /\ IdleLimit >= 4 * MaxTokens

VARIABLES
    best,      \* the active tip
    stored,    \* blocks with an index entry
    sides,     \* Chain.sideBlocks
    entries,   \* transactions in the pool
    work,      \* for each caller its call and the template it holds
    accepted,  \* bag of the blocks submitblock answered null for
    proposal,  \* the last proposal found acceptable, and the tip it was checked on
    bucket     \* the rate limiter of one address: [tokens, age, cleaner, credit, last]

chainvars == <<best, stored, sides>>
workvars == <<best, stored, sides, entries, work, accepted, proposal>>
wvars == <<workvars, bucket>>
-----------------------------------------------------------------------------
(*********************** the chain, under its lock ***********************)

Known == stored \cup sides
Room == Cardinality(Known) <= MaxBlocks
ConfirmedIn(b) == UNION {c.txs : c \in Range(b)}
Attaches(b) == b # <<>> /\ Last(b).txs \cap ConfirmedIn(Front(b)) = {}
Branch(b) == {SubSeq(b, 1, n) : n \in 1 .. Len(b)}

(* Mutant: only the active chain is searched. *)
HasBlockActive(b) == b \in Branch(best)

HasBlock(b) == b \in stored

(* blockProcessPreviewLocked without a change: "none" for a block on the tip. *)
Preview(b) ==
    IF HasBlock(b) THEN "duplicate"
    ELSE IF Front(b) = best THEN "none"
    ELSE IF Front(b) \in Known THEN "inconclusive" ELSE "bad-prevblk"

(* The path tryActivateSideChainLocked attaches: side blocks down to an active *)
(* one.  A block that was active and is not any more is stored, and no side    *)
(* block: no path leads through it.                                            *)
Path(b) == Branch(b) \ Branch(best)
Heavier(b) == Preview(b) = "inconclusive" /\ Len(b) > Len(best) /\ Path(b) \ {b} \subseteq sides
Connectable(b) == {x \in Path(b) : \A y \in Branch(x) : Attaches(y)}
Tried(b) == Preview(b) = "none" \/ Heavier(b)
Activates(b) == Tried(b) /\ Connectable(b) = Path(b)

(* ProcessBlockWithResult: a side block is kept, and activated when heavier; *)
(* an activation that fails leaves what it connected stored.                 *)
ProcessBlock(b) ==
    /\ best' = IF Activates(b) THEN b ELSE best
    /\ stored' = IF Tried(b) THEN stored \cup Connectable(b) ELSE stored
    /\ sides' = IF Activates(b) THEN sides \ Path(b)
                ELSE IF Preview(b) = "inconclusive" THEN sides \cup {b} ELSE sides

(* submitBlockRejectCode, and the answers of submitblock. *)
Reply(b) ==
    IF Activates(b) THEN "null" ELSE IF Tried(b) THEN "rejected" ELSE Preview(b)

(************************* the calls *************************)

NoCall == [at |-> "idle", id |-> <<>>, held |-> FALSE, prev |-> <<>>, txs |-> {},
           block |-> <<>>, sent |-> <<>>, tries |-> 0, unsafe |-> FALSE]

Set(c, w) == work' = [work EXCEPT ![c] = w]
Answered(c, w) == Set(c, [w EXCEPT !.at = "idle", !.sent = <<>>, !.tries = 0])

(* handleRPCRequest: refused when all places are taken. *)
Busy == Cardinality({c \in Miner : work[c].at # "idle"}) >= Slots

TooBusy(c) ==
    /\ work[c].at = "idle" /\ Busy
    /\ UNCHANGED workvars

Enter(c, call) == work[c].at = "idle" /\ ~Busy /\ call \in Makes[c]

LongPollID == [on |-> best, count |-> Cardinality(entries)]

(* getblocktemplate, with the last long-poll id or with none. *)
AskTemplate(c) ==
    /\ Enter(c, "template")
    /\ \/ Set(c, [work[c] EXCEPT !.at = "build"])
       \/ work[c].id # <<>> /\ Set(c, [work[c] EXCEPT !.at = "polling"])
    /\ UNCHANGED <<chainvars, entries, accepted, proposal>>

(* Mutant: only a change ends the wait. *)
PollEndsOnChange(c) ==
    /\ work[c].at = "polling" /\ work[c].id # <<LongPollID>>
    /\ Set(c, [work[c] EXCEPT !.at = "build"])
    /\ UNCHANGED <<chainvars, entries, accepted, proposal>>

(* waitForTemplateChange: a change, the deadline, or a caller that hung up. *)
PollEnds(c) ==
    /\ work[c].at = "polling"
    /\ Set(c, [work[c] EXCEPT !.at = "build"])
    /\ UNCHANGED <<chainvars, entries, accepted, proposal>>

(* NewBlockTemplate reads the tip, or the node is unsafe to mine on. *)
ReadTip(c) ==
    /\ work[c].at = "build"
    /\ \/ Set(c, [work[c] EXCEPT !.at = "pool", !.prev = best, !.held = FALSE])
       \/ Answered(c, [work[c] EXCEPT !.unsafe = TRUE])
    /\ UNCHANGED <<chainvars, entries, accepted, proposal>>

(* ... and then the pool. *)
ReadPool(c) ==
    /\ work[c].at = "pool"
    /\ Set(c, [work[c] EXCEPT !.at = "id", !.txs = entries \ ConfirmedIn(best)])
    /\ UNCHANGED <<chainvars, entries, accepted, proposal>>

(* The id is taken when the template is ready, of the tip and the pool of then. *)
Answer(c) ==
    /\ work[c].at = "id"
    /\ Answered(c, [work[c] EXCEPT !.id = <<LongPollID>>, !.held = TRUE, !.unsafe = FALSE])
    /\ UNCHANGED <<chainvars, entries, accepted, proposal>>

Mined(c) == Append(work[c].prev, [by |-> c, txs |-> work[c].txs])

(* The caller's own work: a nonce for a block on the template's parent, with *)
(* transactions of its choice (the template lists them as mutable).          *)
Solve(c) ==
    /\ work[c].at = "idle" /\ work[c].held /\ Len(work[c].prev) < MaxHeight
    /\ \E txs \in SUBSET PoolTx :
        LET b == Append(work[c].prev, [by |-> c, txs |-> txs])
        IN  b \notin Known /\ Set(c, [work[c] EXCEPT !.block = b, !.held = FALSE, !.txs = {}])
    /\ UNCHANGED <<chainvars, entries, accepted, proposal>>

Solved == {work[c].block : c \in Miner} \ {<<>>}

(* submitblock and submitblockdebug, of a block this or another caller found: *)
(* it may be submitted again, when the answer was lost.                       *)
SubmitBlock(c) ==
    /\ Enter(c, "submit")
    /\ \E b \in Solved :
        /\ ProcessBlock(b)
        /\ b \notin Known => Room
        /\ IF Reply(b) = "null" THEN Set(c, [work[c] EXCEPT !.at = "connected", !.sent = b])
           ELSE Answered(c, work[c])
    /\ UNCHANGED <<entries, accepted, proposal>>

(* RemoveForBlock, the announcement, and the answer null. *)
Reconcile(c) ==
    LET b == work[c].sent
    IN  /\ work[c].at = "connected"
        /\ entries' = entries \ Last(b).txs
        /\ accepted' = accepted (+) SetToBag({b})
        /\ Answered(c, work[c])
        /\ UNCHANGED <<chainvars, proposal>>

(* Mutant: a proposal on the tip is not validated. *)
ProposedUnchecked(b) == Preview(b)

(* ValidateBlockProposal. *)
Proposed(b) ==
    IF Preview(b) = "none" THEN IF Attaches(b) THEN "none" ELSE "rejected" ELSE Preview(b)

(* validateblockproposal, and getblocktemplate in proposal mode. *)
Propose(c) ==
    /\ Enter(c, "submit")
    /\ \E b \in Solved :
        /\ proposal' = IF Proposed(b) = "none" THEN [block |-> b, on |-> best] ELSE proposal
        /\ Answered(c, work[c])
    /\ UNCHANGED <<chainvars, entries, accepted>>

(* generate: mining on this connection, tried again when the tip moves between *)
(* the last freshness check and ConnectBlock.                                  *)
Generate(c) ==
    /\ Enter(c, "generate")
    /\ \/ Answered(c, work[c])
       \/ Set(c, [work[c] EXCEPT !.at = "template", !.held = FALSE, !.tries = 1])
    /\ UNCHANGED <<chainvars, entries, accepted, proposal>>

GenerateTemplate(c) ==
    /\ work[c].at = "template"
    /\ \/ Set(c, [work[c] EXCEPT !.at = "mining", !.prev = best, !.txs = entries \ ConfirmedIn(best)])
       \/ Answered(c, work[c])
    /\ UNCHANGED <<chainvars, entries, accepted, proposal>>

GenerateFinds(c) ==
    /\ work[c].at = "mining"
    /\ \/ /\ work[c].prev = best /\ Len(best) < MaxHeight /\ Mined(c) \notin Known /\ Room
          /\ Set(c, [work[c] EXCEPT !.at = "found"])
       \/ Answered(c, work[c])
    /\ UNCHANGED <<chainvars, entries, accepted, proposal>>

(* ConnectBlock looks at the tip again, and at nothing but the tip. *)
GenerateConnects(c) ==
    /\ work[c].at = "found"
    /\ IF work[c].prev = best
       THEN /\ ProcessBlock(Mined(c))
            /\ entries' = entries \ (IF Attaches(Mined(c)) THEN work[c].txs ELSE {})
            /\ Answered(c, [work[c] EXCEPT !.txs = {}])
       ELSE /\ UNCHANGED <<chainvars, entries>>
            /\ IF work[c].tries < Retries
               THEN Set(c, [work[c] EXCEPT !.at = "template", !.tries = @ + 1])
               ELSE Answered(c, work[c])
    /\ UNCHANGED <<accepted, proposal>>

(* disconnecttip. *)
disconnecttip(c) ==
    /\ Enter(c, "operate") /\ best # <<>>
    /\ best' = Front(best)
    /\ Answered(c, work[c])
    /\ UNCHANGED <<stored, sides, entries, accepted, proposal>>

(* sendrawtransaction. *)
SendRaw(c) ==
    /\ Enter(c, "operate")
    /\ \E t \in PoolTx :
        IF t \in entries \cup ConfirmedIn(best)
        THEN Answered(c, work[c]) /\ UNCHANGED entries
        ELSE Answered(c, work[c]) /\ entries' = entries \cup {t}
    /\ UNCHANGED <<chainvars, accepted, proposal>>

(* A block of a peer, on any block known; the pool is told when it is connected. *)
PeerBlock ==
    /\ \E p \in Known, txs \in SUBSET PoolTx :
        LET b == Append(p, [by |-> "peer", txs |-> txs])
        IN  /\ Len(p) < MaxHeight /\ (b \notin Known => Room)
            /\ ProcessBlock(b)
            /\ entries' = IF Activates(b) THEN entries \ txs ELSE entries
    /\ UNCHANGED <<work, accepted, proposal>>

(************************ the rate limit ************************)
(* Time runs in half seconds; age is the time since lastRefill.     *)

Tick ==
    /\ bucket' = [bucket EXCEPT !.age = Min({@ + 1, IdleLimit + 2}), !.last = "none",
                                !.credit = IF @ > 2 * MaxTokens THEN @ ELSE @ + 1]

(* Mutant: what is left of a second is forgotten. *)
RefillForgets(x) == [x EXCEPT !.tokens = Min({MaxTokens, @ + (x.age \div 2)}), !.age = 0]

Refill(x) == [x EXCEPT !.tokens = Min({MaxTokens, @ + (x.age \div 2)}), !.age = @ % 2]

(* checkRateLimit and allow. *)
Allow ==
    LET full == Refill(bucket)
    IN  bucket' = IF full.tokens > 0
                  THEN [full EXCEPT !.tokens = @ - 1, !.credit = @ - 2, !.last = "granted"]
                  ELSE [full EXCEPT !.last = "refused"]

(* Mutant: a bucket goes as soon as it is idle for a second. *)
CleanerLooksEarly ==
    /\ bucket.cleaner = "away"
    /\ bucket.age > 1
    /\ bucket' = [bucket EXCEPT !.cleaner = "stale"]

(* cleanupRateLimiters decides under the bucket's lock ... *)
CleanerLooks ==
    /\ bucket.cleaner = "away"
    /\ bucket.age > IdleLimit
    /\ bucket' = [bucket EXCEPT !.cleaner = "stale"]

(* ... and deletes without it: the next request starts with a full bucket. *)
CleanerDeletes ==
    /\ bucket.cleaner = "stale"
    /\ bucket' = [bucket EXCEPT !.tokens = MaxTokens, !.age = 0, !.cleaner = "away"]
-----------------------------------------------------------------------------
WorkInit ==
    /\ best = <<>> /\ stored = {<<>>} /\ sides = {} /\ entries = {}
    /\ work = [c \in Miner |-> NoCall]
    /\ accepted = EmptyBag
    /\ proposal = [block |-> <<>>, on |-> <<>>]
    /\ bucket = [tokens |-> MaxTokens, age |-> 0, cleaner |-> "away",
                 credit |-> 2 * MaxTokens + 1, last |-> "none"]

Steps(c) == PollEnds(c) \/ ReadTip(c) \/ ReadPool(c) \/ Answer(c)

WorkNext ==
    \/ \E c \in Miner :
        \/ TooBusy(c) \/ AskTemplate(c) \/ Steps(c) \/ Solve(c) \/ SubmitBlock(c) \/ Reconcile(c)
        \/ Propose(c) \/ Generate(c) \/ GenerateTemplate(c) \/ GenerateFinds(c)
        \/ GenerateConnects(c) \/ disconnecttip(c) \/ SendRaw(c)
    \/ PeerBlock

LimitNext == Tick \/ Allow \/ CleanerLooks \/ CleanerDeletes

WorkSpec == WorkInit /\ [][(WorkNext /\ UNCHANGED bucket) \/ (LimitNext /\ UNCHANGED workvars)]_wvars

(* A call let in goes on, a long poll to its deadline.  Nothing makes a caller *)
(* ask, or keeps a place free for it.                                          *)
WorkFairness == \A c \in Miner : WF_wvars(Steps(c) /\ UNCHANGED bucket)
-----------------------------------------------------------------------------
(* A block is paid for once: however often it is submitted, by whomever, and   *)
(* whatever is disconnected or reorganised in between, submitblock answers     *)
(* null for it at most once.                                                   *)
AcceptedOnce == \A b \in BagToSet(accepted) : accepted[b] = 1

(* A block found acceptable as a proposal is connected, or was connected        *)
(* before, when it is submitted while the tip is the one it was proposed on.    *)
ProposalHolds ==
    proposal.block # <<>> /\ best = proposal.on => Reply(proposal.block) \in {"null", "duplicate"}

(* A caller that polls again and again holds, again and again, a template for   *)
(* the tip of the moment: the id it waits on may be newer than its template     *)
(* (the id is read last), but the wait ends all the same.                       *)
FreshTemplate ==
    \A c \in {d \in Miner : "template" \in Makes[d]} :
        []<>(work[c].at = "polling") => []<>(work[c].prev = best \/ work[c].unsafe)

(* An address gets no more requests through than its bucket and the time        *)
(* passed allow, and one more bucket when the cleaner deletes one in use.       *)
(* credit is the exact balance in half tokens, counted without any rounding.    *)
RateBounded == bucket.credit + 2 * MaxTokens >= 0

(* And it is let in whenever the time passed allows it, however it spaces its  *)
(* requests: a refusal means that its balance is spent, to the half token the  *)
(* first second may take off.                                                  *)
RefusedWhenSpent == bucket.last = "refused" => bucket.credit <= 2

(* What a mining client is told is true when it acts on it: submitblock's null  *)
(* and duplicate, a proposal's acceptance, and that a template it holds after   *)
(* polling is for the tip.                                                      *)
WorkHonest == [](AcceptedOnce /\ ProposalHolds) /\ FreshTemplate

(* The bucket grants what the time passed allows, no more and no less.          *)
RateExact == RateBounded /\ RefusedWhenSpent
=============================================================================
