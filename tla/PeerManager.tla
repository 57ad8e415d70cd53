----------------------------- MODULE PeerManager -----------------------------
(***************************************************************************)
(* The connections of a node (internal/p2p/server.go): addresses it knows, *)
(* dials to them, inbound connections, the handshake, scores and bans, and *)
(* the shutdown that waits for every goroutine of the server.              *)
(*                                                                         *)
(* Every dial and every inbound connection is a goroutine that ends by     *)
(* itself: its connection is closed under it, or its context is cancelled. *)
(* The context of a dial is that of whoever asked for it: the server's     *)
(* own, which lives until shutdown, or that of one call (addnode over RPC, *)
(* ForceSync), which ends when the call returns.                           *)
(***************************************************************************)
EXTENDS Integers, FiniteSets, SequencesExt

CONSTANTS
    Addr,        \* addresses, each on a host of its own
    Outbound,    \* the places of outboundDialSem
    Inbound,     \* inbound connections at a time (a bound of the model)
    Caller,      \* the addresses that connect to this node
    ConnectOnly, \* the connect-only policy; empty for none
    FixedSeed,   \* params.FixedSeeds, and what DNS seeds resolve to
    MaxOutbound, \* maxOutboundPeers
    MaxPeers,    \* maxPeers
    MaxInbound,  \* maxInboundPeers
    MaxPerIP,    \* maxPerIP
    MaxKnown,    \* maxKnownPeerAddresses
    MaxAsked     \* bound: calls and addr messages ask for so many dials

ASSUME PeerAssumption ==
    /\ {Caller, ConnectOnly} \subseteq SUBSET Addr /\ FixedSeed \subseteq Addr
    /\ "none" \notin Addr
    /\ IsFiniteSet(Outbound) /\ IsFiniteSet(Inbound) /\ Outbound \cap Inbound = {}
    /\ {MaxOutbound, MaxPeers, MaxInbound, MaxPerIP, MaxKnown} \subseteq Nat \ {0}
    /\ MaxAsked \in Nat

VARIABLES
    conn,           \* [Conn -> the goroutine's connection]
    bootstrap,      \* addresses to keep connected
    knownAddresses, \* known addresses, the one seen longest ago first
    knownOutbound,  \* addresses being dialled or connected to
    throttled,      \* addresses dialled within reconnectEvery
    peers, outbound, \* the counters that capacity is checked against
    asked,          \* dials asked for by calls and addr messages so far
    phase           \* "up", "cancelled", "closed" and "down"

vars == <<conn, bootstrap, knownAddresses, knownOutbound, throttled, peers, outbound, asked, phase>>
addrVars == <<bootstrap, knownAddresses, knownOutbound, throttled, asked>>

Conn == Outbound \cup Inbound

(* No goroutine in this place. *)
Free == [st |-> "free", addr |-> "none", ctx |-> "none", version |-> FALSE, verack |-> FALSE,
         chain |-> TRUE, shut |-> FALSE]

Started(a, st, ctx) == [Free EXCEPT !.st = st, !.addr = a, !.ctx = ctx]

(* In activePeers. *)
Registered(c) == conn[c].st \in {"counted", "reading", "leaving"}
InboundPeers == {c \in Inbound : Registered(c)}

(* The context of the goroutine is done. *)
Done(c) == phase # "up" \/ conn[c].ctx = "ended"

Init ==
    /\ conn = [c \in Conn |-> Free]
    /\ bootstrap = {} /\ knownAddresses = <<>> /\ knownOutbound = {}
    /\ throttled = {}
    /\ peers = 0 /\ outbound = 0 /\ asked = 0
    /\ phase = "up"

(******************************* Addresses *******************************)

Newest(s, a) == Append(SelectSeq(s, LAMBDA x : x # a), a)
LastOf(s, n) == SubSeq(s, Max({1, Len(s) - n + 1}), Len(s))

(* rememberAddressLocked and trimKnownAddressesLocked: only a new address makes the cap felt. *)
rememberAddress(s, a) ==
    IF a \in ToSet(s) THEN Newest(s, a) ELSE LastOf(Newest(s, a), MaxKnown)

(* markKnownPeerConnected and markKnownPeerFailure do not trim; a failure leaves LastSeen alone. *)
markKnownPeerConnected(s, a) == Newest(s, a)
markKnownPeerFailure(s, a) == IF a \in ToSet(s) THEN s ELSE <<a>> \o s

AtCapacity == outbound >= MaxOutbound \/ peers >= MaxPeers

(***************************************************************************)
(* AddNode: the address becomes a bootstrap peer whatever comes after; it  *)
(* is dialled unless it was recently, unless the counters are at their     *)
(* limits, unless it is dialled already, and unless no place is free.      *)
(* recent are the addresses dialled within reconnectEvery, now the         *)
(* connections as the caller leaves them.                                  *)
(***************************************************************************)
AddNode(a, ctx, recent, now) ==
    /\ ConnectOnly = {} \/ a \in ConnectOnly
    /\ bootstrap' = bootstrap \cup {a}
    /\ knownAddresses' = rememberAddress(knownAddresses, a)
    /\ throttled' = recent \cup {a}
    /\ LET places == {c \in Outbound : conn[c] = Free}
       IN IF a \in recent \/ AtCapacity \/ a \in knownOutbound \/ places = {}
          THEN conn' = now /\ UNCHANGED knownOutbound
          ELSE /\ knownOutbound' = knownOutbound \cup {a}
               /\ \E c \in places : conn' = [now EXCEPT ![c] = Started(a, "dialing", ctx)]
    /\ UNCHANGED <<peers, outbound, phase>>

(* seedLoop and watchdogStep, one address of connectSeeds at a time. *)
ConnectSeed(a) ==
    /\ phase = "up" /\ ~AtCapacity
    /\ a \in bootstrap \cup ToSet(knownAddresses) \cup (IF ConnectOnly = {} THEN FixedSeed ELSE {})
    /\ AddNode(a, "server", throttled, conn)
    /\ UNCHANGED asked

(* addnode over RPC passes the request's context. *)
RpcAddNode(a) ==
    /\ phase = "up" /\ asked < MaxAsked
    /\ asked' = asked + 1
    /\ AddNode(a, "call", throttled, conn)

(* ForceSync with no peers forgets the throttles; its context, too, ends with the call. *)
ForceSync(a) ==
    /\ phase = "up" /\ peers = 0 /\ asked < MaxAsked
    /\ a \in bootstrap
    /\ asked' = asked + 1
    /\ AddNode(a, "call", {}, conn)

(* The call returns. *)
CallEnds(c) ==
    /\ conn[c].ctx = "call" /\ phase = "up"
    /\ conn' = [conn EXCEPT ![c].ctx = "ended"]
    /\ UNCHANGED <<addrVars, peers, outbound, phase>>

ThrottleExpires(a) ==
    /\ a \in throttled /\ phase = "up"
    /\ throttled' = throttled \ {a}
    /\ UNCHANGED <<conn, bootstrap, knownAddresses, knownOutbound, peers, outbound, asked, phase>>

(********************************* Dials *********************************)

(* The address stays marked. *)
DialFailsMarked(c) ==
    /\ conn[c].st = "dialing"
    /\ knownAddresses' = markKnownPeerFailure(knownAddresses, conn[c].addr)
    /\ conn' = [conn EXCEPT ![c] = Free]
    /\ UNCHANGED <<bootstrap, knownOutbound, throttled, peers, outbound, asked, phase>>

(* A dial fails by itself or because its context is done. *)
DialFails(c) ==
    /\ conn[c].st = "dialing"
    /\ knownAddresses' = markKnownPeerFailure(knownAddresses, conn[c].addr)
    /\ conn' = [conn EXCEPT ![c] = Free]
    /\ knownOutbound' = knownOutbound \ {conn[c].addr}
    /\ UNCHANGED <<bootstrap, throttled, peers, outbound, asked, phase>>

(* The mark only covers the dial itself. *)
DialUnmarks(c) ==
    /\ conn[c].st = "dialing"
    /\ knownAddresses' = markKnownPeerConnected(knownAddresses, conn[c].addr)
    /\ conn' = [conn EXCEPT ![c].st = "checking"]
    /\ knownOutbound' = knownOutbound \ {conn[c].addr}
    /\ UNCHANGED <<bootstrap, throttled, peers, outbound, asked, phase>>

DialConnects(c) ==
    /\ conn[c].st = "dialing"
    /\ knownAddresses' = markKnownPeerConnected(knownAddresses, conn[c].addr)
    /\ conn' = [conn EXCEPT ![c].st = "checking"]
    /\ UNCHANGED <<bootstrap, knownOutbound, throttled, peers, outbound, asked, phase>>

(* acceptLoop, until the listener is closed. *)
Accept(c, a) ==
    /\ conn[c] = Free /\ phase \in {"up", "cancelled"} /\ peers < MaxPeers
    /\ conn' = [conn EXCEPT ![c] = Started(a, "checking", "server")]
    /\ UNCHANGED <<addrVars, peers, outbound, phase>>

(***************************** handleConn *****************************)

(* An inbound connection over one of the limits, or outside the policy. *)
Limited(c) ==
    /\ c \in Inbound
    /\ \/ Cardinality(InboundPeers) >= MaxInbound
       \/ Cardinality({d \in InboundPeers : conn[d].addr = conn[c].addr}) >= MaxPerIP
       \/ ConnectOnly # {} /\ conn[c].addr \notin ConnectOnly

(* The end of the goroutine: for a dial the place and the mark are given back. *)
Ends(c) ==
    /\ conn' = [conn EXCEPT ![c] = Free]
    /\ knownOutbound' = IF c \in Outbound THEN knownOutbound \ {conn[c].addr} ELSE knownOutbound
    /\ UNCHANGED <<bootstrap, knownAddresses, throttled, asked, phase>>

(***************************************************************************)
(* The ban and the limits are checked, and the peer is registered and      *)
(* counted.  (The checks and registerPeer take the lock one after the      *)
(* other: two inbound connections may pass the limits together.)  Which    *)
(* hosts are banned depends on scores and on time; any may be.             *)
(***************************************************************************)
RegisterPeer(c) ==
    /\ conn[c].st = "checking"
    /\ \/ Ends(c) /\ UNCHANGED <<peers, outbound>>
       \/ /\ ~Limited(c)
          /\ conn' = [conn EXCEPT ![c].st = "counted"]
          /\ peers' = peers + 1
          /\ outbound' = IF c \in Outbound THEN outbound + 1 ELSE outbound
          /\ UNCHANGED <<addrVars, phase>>

(* The loop returns; nothing of the handshake is looked at again. *)
Gone(c) == Started(conn[c].addr, "leaving", "ended")
Leaves(c) == conn' = [conn EXCEPT ![c] = Gone(c)] /\ UNCHANGED <<addrVars, peers, outbound, phase>>

(* Messages are read whatever became of the context. *)
LoopTopBlind(c) ==
    /\ conn[c].st = "counted"
    /\ conn' = [conn EXCEPT ![c].st = "reading"]
    /\ UNCHANGED <<addrVars, peers, outbound, phase>>

(* The context is looked at before every message. *)
LoopTop(c) ==
    /\ conn[c].st = "counted"
    /\ IF Done(c) THEN Leaves(c)
       ELSE /\ conn' = [conn EXCEPT ![c].st = "reading"]
            /\ UNCHANGED <<addrVars, peers, outbound, phase>>

(* ReadMessage returns a message, or fails. *)
Reads(c) == conn[c].st = "reading" /\ ~conn[c].shut

(***************************************************************************)
(* It fails when the connection is closed, by the peer, by pingLoop,       *)
(* watchdogStep, disconnectnode or scorePeer, and when nothing came for    *)
(* peerHandshakeTimeout or peerIdleTimeout.                                *)
(***************************************************************************)
ReadFails(c) == conn[c].st = "reading" /\ Leaves(c)

Shaken(c, version, verack) ==
    conn' = [conn EXCEPT ![c].version = version, ![c].verack = verack, ![c].st = "counted"]

(* The handshake is complete: the address is remembered and counted as good. *)
Synced(c) ==
    knownAddresses' = markKnownPeerConnected(
        IF c \in Outbound THEN rememberAddress(knownAddresses, conn[c].addr) ELSE knownAddresses, conn[c].addr)

Completes(c, version, verack) ==
    /\ Shaken(c, version, verack)
    /\ IF version /\ verack /\ ~(conn[c].version /\ conn[c].verack) THEN Synced(c) ELSE UNCHANGED knownAddresses
    /\ UNCHANGED <<bootstrap, knownOutbound, throttled, asked, peers, outbound, phase>>

(* The other chain costs the peer a score, but the loop goes on. *)
VersionScoresOnly(c, right) ==
    /\ Reads(c)
    /\ conn' = [conn EXCEPT ![c].version = TRUE, ![c].chain = right, ![c].st = "counted"]
    /\ UNCHANGED <<addrVars, peers, outbound, phase>>

(* version, of this chain or of another: the other one ends the loop. *)
Version(c, right) ==
    /\ Reads(c)
    /\ IF right THEN Completes(c, TRUE, conn[c].verack) ELSE Leaves(c)

VerAck(c) == Reads(c) /\ Completes(c, conn[c].version, TRUE)

(* A message about blocks or transactions: out of turn it ends the loop. *)
OtherMessage(c) ==
    /\ Reads(c)
    /\ IF conn[c].version /\ conn[c].verack
       THEN /\ conn' = [conn EXCEPT ![c].st = "counted"]
            /\ UNCHANGED <<addrVars, peers, outbound, phase>>
       ELSE Leaves(c)

(* addr: new addresses are remembered and dialled under the connection's own context. *)
AddrMessage(c, a) ==
    /\ Reads(c) /\ conn[c].version /\ conn[c].verack /\ asked < MaxAsked
    /\ a \notin ToSet(knownAddresses)
    /\ asked' = asked + 1
    /\ AddNode(a, conn[c].ctx, throttled, [conn EXCEPT ![c].st = "counted"])

(* The outbound counter is not given back. *)
LeaveStaysCounted(c) ==
    /\ conn[c].st = "leaving"
    /\ peers' = peers - 1
    /\ UNCHANGED outbound
    /\ Ends(c)

(* The deferred calls: counters, unregisterPeer, and the rest of a dial's goroutine. *)
Leave(c) ==
    /\ conn[c].st = "leaving"
    /\ peers' = peers - 1
    /\ outbound' = IF c \in Outbound THEN outbound - 1 ELSE outbound
    /\ Ends(c)

(******************************* Shutdown *******************************)

Cancel ==
    /\ phase = "up" /\ phase' = "cancelled"
    /\ UNCHANGED <<conn, addrVars, peers, outbound>>

(* closeActivePeerConnections, over the peers registered by now, and the listener. *)
CloseActive ==
    /\ phase = "cancelled" /\ phase' = "closed"
    /\ conn' = [c \in Conn |-> IF Registered(c) THEN [conn[c] EXCEPT !.shut = TRUE] ELSE conn[c]]
    /\ UNCHANGED <<addrVars, peers, outbound>>

(* wg.Wait returns. *)
Down ==
    /\ phase = "closed" /\ \A c \in Conn : conn[c] = Free
    /\ phase' = "down"
    /\ UNCHANGED <<conn, addrVars, peers, outbound>>

(******************************* The server *******************************)

Handle(c) ==
    \/ RegisterPeer(c) \/ LoopTop(c) \/ Leave(c) \/ (conn[c].shut /\ ReadFails(c))

Next ==
    \/ Cancel \/ CloseActive \/ Down
    \/ \E a \in Addr : ConnectSeed(a) \/ RpcAddNode(a) \/ ForceSync(a) \/ ThrottleExpires(a)
    \/ \E c \in Outbound : DialFails(c) \/ DialConnects(c) \/ CallEnds(c)
    \/ \E c \in Inbound, a \in Caller : Accept(c, a)
    \/ \E c \in Conn : \/ Handle(c) \/ ReadFails(c) \/ VerAck(c) \/ OtherMessage(c)
                       \/ \E right \in BOOLEAN : Version(c, right)
                       \/ \E a \in Addr : AddrMessage(c, a)

Spec == Init /\ [][Next]_vars

(***************************************************************************)
(* Goroutines run, dials end, calls return, throttles expire and the seed  *)
(* loop comes round, also when the throttle of an address has expired.  A  *)
(* read ends in the end: by a message, after which the context is looked   *)
(* at, or by its deadline.                                                 *)
(***************************************************************************)
Fairness ==
    /\ WF_vars(CloseActive) /\ WF_vars(Down)
    /\ \A a \in Addr : SF_vars(a \notin throttled /\ ConnectSeed(a)) /\ WF_vars(ThrottleExpires(a))
    /\ \A c \in Conn : WF_vars(Handle(c))
    /\ \A c \in Outbound : WF_vars(DialFails(c) \/ DialConnects(c)) /\ WF_vars(CallEnds(c))
                           /\ WF_vars(conn[c].ctx = "ended" /\ ReadFails(c))

FairSpec == Spec /\ Fairness

(****************************** Properties ******************************)

(* Every variable holds a value of its type, and no counter falls below zero. *)
TypeOK ==
    /\ \A c \in Conn : /\ conn[c].st \in {"free", "dialing", "checking", "counted", "reading", "leaving"}
                       /\ conn[c].addr \in Addr \cup {"none"} /\ conn[c].ctx \in {"none", "server", "call", "ended"}
    /\ {bootstrap, knownOutbound, throttled} \subseteq SUBSET Addr
    /\ IsInjective(knownAddresses) /\ ToSet(knownAddresses) \subseteq Addr
    /\ outbound \in 0..Cardinality(Outbound) /\ peers \in outbound..Cardinality(Conn)
    /\ asked \in 0..MaxAsked /\ phase \in {"up", "cancelled", "closed", "down"}

(***************************************************************************)
(* However many loops, messages and calls ask for it, a node is never      *)
(* connected twice to an address it dialled (knownOutbound in AddNode).    *)
(***************************************************************************)
OneDialPerAddress ==
    \A c, d \in Outbound : conn[c] # Free /\ conn[c].addr = conn[d].addr => c = d

(* No block or transaction is exchanged with a peer of another chain (the chain id check in handleConn). *)
WrongChainNeverServed == \A c \in Conn : conn[c].st = "reading" /\ conn[c].version /\ conn[c].verack => conn[c].chain

(***************************************************************************)
(* The counters that capacity is checked against are the connections that  *)
(* are registered, on every way out of handleConn: what is never given     *)
(* back would shut the node off for ever.                                  *)
(***************************************************************************)
CountersExact ==
    /\ peers = Cardinality({c \in Conn : Registered(c)})
    /\ outbound = Cardinality({c \in Outbound : Registered(c)})

(* The server dials the address, or has no room for it. *)
Attended(a) ==
    \/ phase # "up" \/ AtCapacity \/ \A c \in Outbound : conn[c] # Free
    \/ \E c \in Outbound : conn[c].addr = a /\ conn[c].ctx = "server"

(***************************************************************************)
(* An address asked for once, over RPC or by a peer, is dialled under the  *)
(* server's own context again and again as long as there is room, although *)
(* the context of the call that asked is gone (addBootstrapPeer, seedLoop, *)
(* unmarkOutbound).                                                        *)
(***************************************************************************)
AddedNodeDialled == \A a \in Addr : (a \in bootstrap) ~> Attended(a)

(***************************************************************************)
(* Start returns after cancellation: every goroutine it waits for ends,    *)
(* those that registered after closeActivePeerConnections included.        *)
(***************************************************************************)
ShutdownCompletes == (phase = "cancelled") ~> (phase = "down")

(***************************************************************************)
(* An address has one dial or outbound connection at a time, whoever is    *)
(* served shares the chain, and the counters agree with the connections.   *)
(***************************************************************************)
ConnectionsSound == OneDialPerAddress /\ WrongChainNeverServed /\ CountersExact

(***************************************************************************)
(* Requests to dial are not lost while the server is up, and it goes down  *)
(* when it is told to.                                                     *)
(***************************************************************************)
PeersProceed == AddedNodeDialled /\ ShutdownCompletes
=============================================================================
