------------------------------ MODULE BlockSync ------------------------------
(***************************************************************************)
(* How a node fetches blocks (internal/p2p/server.go): headers and block   *)
(* inventories asked for from its tip, block bodies asked for by hash,     *)
(* parents of blocks that arrived too early, and the two timers, syncLoop  *)
(* and watchdogLoop, that ask again.  The node's own chain does what       *)
(* module Blockchain models in detail; here a block is connected, kept on  *)
(* a side branch, or kept as an orphan.                                    *)
(*                                                                         *)
(* Peers run the same program: they serve from their active chain, grow,   *)
(* and announce what they connect.  A connection may break at any time and *)
(* loses what was under way, also because the message limit was reached.   *)
(***************************************************************************)
EXTENDS Integers, FiniteSets, SequencesExt

CONSTANTS
    Peer,
    Block, Genesis,
    Parent,        \* [Block \ {Genesis} -> Block]
    Height,        \* [Block -> Nat]
    PeerStarts,    \* what may be the tip of a peer at first
    Mined,         \* blocks this node may mine itself
    MaxHeaders,    \* wire.MaxHeadersPerMessage
    MaxServeInv,   \* maxServeInvItems
    MaxDrops,      \* bound: connections break so many times
    MaxQueue       \* bound: the timers leave a connection with so many requests under way alone

ASSUME SyncAssumption ==
    /\ PeerStarts \subseteq Block /\ Genesis \in Block /\ Mined \subseteq Block \ {Genesis}
    /\ Parent \in [Block \ {Genesis} -> Block]
    /\ Height \in [Block -> Nat] /\ Height[Genesis] = 0
    /\ \A b \in Block \ {Genesis} : Height[b] = Height[Parent[b]] + 1
    /\ {MaxHeaders, MaxServeInv} \subseteq Nat \ {0}
    /\ MaxDrops \in Nat /\ MaxQueue \in Nat \ {0}

VARIABLES
    tip,       \* the active tip of this node
    stored,    \* blocks in its store: all that were ever active
    side,      \* blocks on side branches, in memory
    orphans,   \* blocks whose parent is unknown
    conn,      \* [Peer -> whether the connection is up]
    height,    \* [Peer -> the height it is believed to have]
    out, in,   \* [Peer -> messages on their way to it, from it, oldest first]
    getdataReqs, \* blocks asked for and not received
    missingParentSeen, \* parents claimed lately
    peerTip,   \* [Peer -> its active tip]
    drops

chainVars == <<tip, stored, side, orphans>>
linkVars == <<conn, height, out, in>>
askVars == <<getdataReqs, missingParentSeen>>
vars == <<chainVars, linkVars, askVars, peerTip, drops>>

Ancestry[b \in Block] == IF b = Genesis THEN {Genesis} ELSE {b} \cup Ancestry[Parent[b]]

GetHeaders == [type |-> "getheaders", from |-> tip]
GetBlocks == [type |-> "getblocks", from |-> tip]
GetData(bs) == [type |-> "getdata", blocks |-> bs]

Requests == [type : {"getheaders", "getblocks"}, from : Block] \cup [type : {"getdata"}, blocks : SUBSET Block]
Replies == [type : {"headers", "inv", "block"}, blocks : SUBSET Block]

Init ==
    /\ tip = Genesis /\ stored = {Genesis} /\ side = {} /\ orphans = {}
    /\ conn = [p \in Peer |-> FALSE] /\ height = [p \in Peer |-> -1]
    /\ out = [p \in Peer |-> <<>>] /\ in = [p \in Peer |-> <<>>]
    /\ getdataReqs = {} /\ missingParentSeen = {}
    /\ peerTip \in [Peer -> PeerStarts]
    /\ drops = 0

(*************************** What the node asks ***************************)

Ahead == {p \in Peer : conn[p] /\ height[p] > Height[tip]}

(* Bound: a message that is under way already is not queued twice. *)
Queued(q, ms) == q \o SelectSeq(ms, LAMBDA m : m \notin ToSet(q))

(* Requests added to those under way: q maps a peer to a sequence of them. *)
Send(q) == out' = [p \in Peer |-> IF conn[p] THEN Queued(out[p], q[p]) ELSE <<>>]
Ask(ps, ms) == [p \in Peer |-> IF p \in ps THEN ms ELSE <<>>]

(***************************************************************************)
(* tryClaimMissingParent and sendMissingParentRequest: the parent is asked *)
(* for from p and from the other peers that are ahead, unless someone      *)
(* claimed it within missingParentTTL.  seen is the set of claims after.   *)
(***************************************************************************)
MissingParent(p, b) ==
    IF b \in missingParentSeen
    THEN [seen |-> missingParentSeen, ask |-> Ask({}, <<>>)]
    ELSE [seen |-> missingParentSeen \cup {b}, ask |-> Ask({p} \cup Ahead, <<GetData({b})>>)]

(* missingParentTTL passes. *)
ClaimExpires ==
    /\ \E b \in missingParentSeen : missingParentSeen' = missingParentSeen \ {b}
    /\ UNCHANGED <<chainVars, linkVars, getdataReqs, peerTip, drops>>

(* After the handshake: the height comes with the version message. *)
Connect(p) ==
    /\ ~conn[p]
    /\ conn' = [conn EXCEPT ![p] = TRUE]
    /\ height' = [height EXCEPT ![p] = Height[peerTip[p]]]
    /\ out' = [out EXCEPT ![p] = <<GetHeaders, GetBlocks>>]
    /\ UNCHANGED <<chainVars, in, askVars, peerTip, drops>>

Disconnect(p) ==
    /\ conn[p] /\ drops < MaxDrops
    /\ drops' = drops + 1
    /\ conn' = [conn EXCEPT ![p] = FALSE]
    /\ height' = [height EXCEPT ![p] = -1]
    /\ out' = [out EXCEPT ![p] = <<>>] /\ in' = [in EXCEPT ![p] = <<>>]
    /\ UNCHANGED <<chainVars, askVars, peerTip>>

Unburdened(ps) == \A p \in ps : Len(out[p]) < MaxQueue

(* syncLoop: requestSyncFromPeerIfBehind without force. *)
SyncLoop ==
    /\ Ahead # {} /\ Unburdened(Ahead)
    /\ Send(Ask(Ahead, <<GetHeaders, GetBlocks>>))
    /\ UNCHANGED <<chainVars, conn, height, in, askVars, peerTip, drops>>

(***************************************************************************)
(* watchdogStep: requests older than getdataTimeout are forgotten, and     *)
(* when there were any, or a peer is ahead, every peer is asked again (and *)
(* when nothing useful arrived for long, which is left out: it only asks   *)
(* more often).                                                            *)
(***************************************************************************)
Watchdog ==
    /\ Unburdened(Peer)
    /\ \E timedOut \in SUBSET getdataReqs :
          /\ timedOut # {} \/ Ahead # {}
          /\ getdataReqs' = getdataReqs \ timedOut
    /\ Send(Ask(Peer, <<GetHeaders, GetBlocks>>))
    /\ UNCHANGED <<chainVars, conn, height, in, missingParentSeen, peerTip, drops>>

(************************* What the node receives *************************)

(* m is the oldest message from p, and is taken. *)
Receives(p, m, type) ==
    /\ in[p] # <<>> /\ m = Head(in[p]) /\ m.type = type
    /\ in' = [in EXCEPT ![p] = Tail(@)]

First(bs) == CHOOSE b \in bs : \A c \in bs : Height[b] <= Height[c]

(* A batch, whose headers are valid and follow each other, must start from the active tip. *)
ValidateHeaderSequence(bs) == Parent[First(bs)] = tip

(* The headers are counted on top of the height believed so far. *)
HeadersAddUp(p, m) ==
    LET want == m.blocks \ stored
    IN
    /\ m.blocks # {} /\ ValidateHeaderSequence(m.blocks)
    /\ height' = [height EXCEPT ![p] = @ + Cardinality(m.blocks)]
    /\ getdataReqs' = getdataReqs \cup want
    /\ Send(Ask({p}, IF want = {} THEN <<>> ELSE <<GetData(want)>>))
    /\ UNCHANGED missingParentSeen

(* requestHeaderBlocks, when the batch starts at the tip: all bodies that are not in the store. *)
HeadersConnect(p, m) ==
    LET want == m.blocks \ stored
    IN
    /\ m.blocks # {} /\ ValidateHeaderSequence(m.blocks)
    /\ height' = [height EXCEPT ![p] = Max({@, Height[tip] + Cardinality(m.blocks)})]
    /\ getdataReqs' = getdataReqs \cup want
    /\ Send(Ask({p}, IF want = {} THEN <<>> ELSE <<GetData(want)>>))
    /\ UNCHANGED missingParentSeen

(* A batch that starts elsewhere is refused; the block it starts from is claimed. *)
HeadersElsewhere(p, m) ==
    LET claim == MissingParent(p, Parent[First(m.blocks)])
    IN
    /\ m.blocks # {} /\ ~ValidateHeaderSequence(m.blocks)
    /\ missingParentSeen' = claim.seen
    /\ Send(claim.ask)
    /\ UNCHANGED <<height, getdataReqs>>

HeadersEmpty(p, m) == m.blocks = {} /\ UNCHANGED <<height, out, askVars>>

ReceiveHeaders(p) ==
    \E m \in ToSet(in[p]) :
        /\ Receives(p, m, "headers")
        /\ HeadersConnect(p, m) \/ HeadersElsewhere(p, m) \/ HeadersEmpty(p, m)
        /\ UNCHANGED <<chainVars, conn, peerTip, drops>>

(* requestUnknownBlocks: bodies are asked for without a record of it, and headers once. *)
ReceiveInv(p) ==
    \E m \in ToSet(in[p]) :
        LET want == m.blocks \ stored
        IN  /\ Receives(p, m, "inv")
            /\ Send(Ask({p}, IF want = {} THEN <<>> ELSE <<GetHeaders, GetData(want)>>))
            /\ UNCHANGED <<chainVars, conn, height, askVars, peerTip, drops>>

(* The blocks that a block whose parent is known brings with it. *)
Attached(b) == {c \in orphans \cup {b} : b \in Ancestry[c]
                                          /\ Ancestry[c] \subseteq stored \cup side \cup orphans \cup {b}}

Best(bs) == IF \E b \in bs : Height[b] > Height[tip]
            THEN CHOOSE b \in bs : \A c \in bs : Height[c] <= Height[b]
            ELSE tip

(* ProcessBlock: orphans of b follow it, and the highest block becomes the tip. *)
Accept(b) ==
    LET new == Attached(b)
        best == Best(new)
    IN  /\ tip' = best
        /\ stored' = stored \cup (IF best = tip THEN {} ELSE Ancestry[best])
        /\ side' = (side \cup new) \ stored'
        /\ orphans' = orphans \ new

(* The next headers are left to the timers. *)
AcceptQuietly(p, b) ==
    /\ b \notin stored \cup side \cup orphans /\ Parent[b] \in stored \cup side
    /\ Accept(b)
    /\ UNCHANGED <<out, missingParentSeen>>

(* Accepted; after a new tip the peer is asked for the headers behind it. *)
AcceptBlock(p, b) ==
    /\ b \notin stored \cup side \cup orphans /\ Parent[b] \in stored \cup side
    /\ Accept(b)
    /\ Send(Ask({p}, IF tip' = tip THEN <<>> ELSE <<[type |-> "getheaders", from |-> tip']>>))
    /\ UNCHANGED missingParentSeen

(* An orphan is stored, and its parent is left to the timers. *)
OrphanWaits(p, b) ==
    /\ b \notin stored \cup side \cup orphans /\ Parent[b] \notin stored \cup side
    /\ orphans' = orphans \cup {b}
    /\ UNCHANGED <<tip, stored, side, out, missingParentSeen>>

(* Stored, and its parent asked for. *)
OrphanBlock(p, b) ==
    LET claim == MissingParent(p, Parent[b])
    IN
    /\ b \notin stored \cup side \cup orphans /\ Parent[b] \notin stored \cup side
    /\ orphans' = orphans \cup {b}
    /\ missingParentSeen' = claim.seen
    /\ Send(claim.ask)
    /\ UNCHANGED <<tip, stored, side>>

(* A block that is known already changes nothing, but a known orphan claims its parent again. *)
KnownBlock(p, b) ==
    LET claim == IF b \in orphans THEN MissingParent(p, Parent[b])
                                  ELSE [seen |-> missingParentSeen, ask |-> Ask({}, <<>>)]
    IN
    /\ b \in stored \cup side \cup orphans
    /\ missingParentSeen' = claim.seen
    /\ Send(claim.ask)
    /\ UNCHANGED chainVars

(* clearGetdataReq, then ProcessBlock. *)
ReceiveBlock(p) ==
    \E m \in ToSet(in[p]) : \E b \in m.blocks :
        /\ Receives(p, m, "block")
        /\ getdataReqs' = getdataReqs \ {b}
        /\ AcceptBlock(p, b) \/ OrphanBlock(p, b) \/ KnownBlock(p, b)
        /\ UNCHANGED <<conn, height, peerTip, drops>>

(* This node mines on its tip; the announcement tells no peer of this model anything new. *)
Mine ==
    /\ \E b \in Mined \ stored : Parent[b] = tip /\ Accept(b)
    /\ UNCHANGED <<linkVars, askVars, peerTip, drops>>

(***************************** What peers do *****************************)

ActiveAt(p) == Ancestry[peerTip[p]]
Lowest(bs, n) == {b \in bs : Cardinality({c \in bs : Height[c] < Height[b]}) < n}

(* HeadersAfter: nothing when the locator, the asker's tip alone, is unknown. *)
HeadersAfter(p, from, max) ==
    IF from \notin ActiveAt(p) THEN {} ELSE Lowest({b \in ActiveAt(p) : Height[b] > Height[from]}, max)

Answer(p, replies) ==
    /\ out' = [out EXCEPT ![p] = Tail(@)]
    /\ in' = [in EXCEPT ![p] = Queued(@, replies)]
    /\ UNCHANGED <<chainVars, conn, height, askVars, peerTip, drops>>

(* serveHeaders answers with no headers when there are none. *)
ServeHeaders(p, m) ==
    /\ m.type = "getheaders"
    /\ Answer(p, <<[type |-> "headers", blocks |-> HeadersAfter(p, m.from, MaxHeaders)]>>)

(* serveBlockInventory does not answer then. *)
ServeBlockInventory(p, m) ==
    LET bs == HeadersAfter(p, m.from, MaxServeInv)
    IN  /\ m.type = "getblocks"
        /\ Answer(p, IF bs = {} THEN <<>> ELSE <<[type |-> "inv", blocks |-> bs]>>)

(* serveInventory sends what it has of the first maxServeInvItems, each in a message of its own. *)
ServeInventory(p, m) ==
    LET bs == SetToSortSeq(Lowest(m.blocks, MaxServeInv) \cap ActiveAt(p), LAMBDA b, c : Height[b] < Height[c])
    IN  /\ m.type = "getdata"
        /\ Answer(p, [i \in DOMAIN bs |-> [type |-> "block", blocks |-> {bs[i]}]])

Serve(p) ==
    /\ out[p] # <<>>
    /\ LET m == Head(out[p]) IN ServeHeaders(p, m) \/ ServeBlockInventory(p, m) \/ ServeInventory(p, m)

(* announceBlockToPeersExcept: peers are told by header. *)
PeerGrows(p) ==
    \E b \in Block \ (Mined \cup {Genesis}) :
        /\ Parent[b] = peerTip[p]
        /\ peerTip' = [peerTip EXCEPT ![p] = b]
        /\ in' = IF conn[p] THEN [in EXCEPT ![p] = Queued(@, <<[type |-> "headers", blocks |-> {b}]>>)] ELSE in
        /\ UNCHANGED <<chainVars, conn, height, out, askVars, drops>>

Next ==
    \/ SyncLoop \/ Watchdog \/ ClaimExpires \/ Mine
    \/ \E p \in Peer :
          \/ Connect(p) \/ Disconnect(p) \/ ReceiveHeaders(p) \/ ReceiveInv(p) \/ ReceiveBlock(p)
          \/ Serve(p) \/ PeerGrows(p)

Spec == Init /\ [][Next]_vars

(***************************************************************************)
(* Timers fire, what has arrived is read and processed, lost connections   *)
(* are made again, and peers answer.  The watchdog runs often    *)
(* enough for every old request to be swept in the end.                    *)
(***************************************************************************)
SyncFairness ==
    /\ WF_vars(SyncLoop) /\ WF_vars(Watchdog)
    /\ \A b \in Block : WF_vars(ClaimExpires /\ b \in missingParentSeen /\ b \notin missingParentSeen')
    /\ \A p \in Peer : /\ WF_vars(Connect(p)) /\ WF_vars(ReceiveHeaders(p))
                       /\ WF_vars(ReceiveInv(p)) /\ WF_vars(ReceiveBlock(p)) /\ WF_vars(Serve(p))

FairSpec == Spec /\ SyncFairness

(****************************** Properties ******************************)

(* Every variable holds a value of its type. *)
TypeOK ==
    /\ tip \in Block /\ {stored, side, orphans, getdataReqs, missingParentSeen} \subseteq SUBSET Block
    /\ conn \in [Peer -> BOOLEAN] /\ height \in [Peer -> -1..Cardinality(Block)]
    /\ (\A p \in Peer : ToSet(out[p]) \subseteq Requests /\ ToSet(in[p]) \subseteq Replies)
    /\ peerTip \in [Peer -> Block] /\ drops \in 0..MaxDrops

CaughtUpWith(p) == Height[tip] >= Height[peerTip[p]]

(***************************************************************************)
(* A node whose tip is on the chain of a peer that stays connected catches *)
(* up with it, whatever was lost, timed out or claimed before              *)
(* (tryClaimMissingParent, sweepTimedOutGetdata, requestHeaderBlocks).     *)
(***************************************************************************)
CatchesUp ==
    \A p \in Peer : <>[]conn[p] => []<>(CaughtUpWith(p) \/ tip \notin ActiveAt(p))

(***************************************************************************)
(* While no connection breaks, orphans do not stay orphans: their          *)
(* ancestors are asked for one by one, each claimed by the block before    *)
(* (sendMissingParentRequest), until their branches are complete.          *)
(***************************************************************************)
OrphansResolved ==
    (orphans # {}) ~> (orphans = {} \/ drops > 0)

(***************************************************************************)
(* The node gets to the tip its peers have, and no orphan stays behind.    *)
(***************************************************************************)
SyncCompletes == CatchesUp /\ OrphansResolved
=============================================================================
