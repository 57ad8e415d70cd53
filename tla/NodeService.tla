----------------------------- MODULE NodeService -----------------------------
(***************************************************************************)
(* The wallet application's node: nodeservice/service.go starts and stops  *)
(* the node of node/node.go inside its own process and keeps a mirror of   *)
(* the miner that runs behind the node's RPC server.                       *)
(*                                                                         *)
(* Start, StopWithReport, StartMiner, StopMiner, ForceStopMiner and the    *)
(* dashboard's GetMinerStatus may all be called at once.  Service.mu       *)
(* guards node, done, starting and stopping, minerMu the mirror; neither   *)
(* is held while a call waits for the node, the ports or the RPC server.   *)
(* A node's Run returns as soon as one of its two servers has ended.       *)
(*                                                                         *)
(* Errors, counters and times shown to the user are left out, like the     *)
(* stratum server and the calls that only read.                            *)
(***************************************************************************)
EXTENDS Naturals, FiniteSets, FiniteSetsExt

CONSTANTS
    User,       \* threads that start and stop the node and the miner
    Poller,     \* the dashboard, which only asks for the miner's status
    MaxNodes,   \* bound, for each scene: nodes created
    MaxCalls,   \* bound, for each scene: calls, RPC stops and foreign processes
    NoNode

ASSUME ServiceAssumption ==
    /\ MaxNodes \in [{"ports", "miner"} -> Nat]
    /\ MaxCalls \in [{"ports", "miner"} -> Nat]
    /\ NoNode \notin Nat

NodeId == 1 .. Max({MaxNodes[s] : s \in DOMAIN MaxNodes})
Thread == User \cup {Poller}
Other == 0                          \* a process that is not ours

VARIABLES
    scene,   \* "ports": another process may take the RPC port; "miner": the miner is used
    svc,     \* the Service: [node, starting, stopping]; done is open while node is set
    nd,      \* for each node: [life, cancelled, p2p, rpc, mining]
    mirror,  \* minerActive, as minerEnabled and minerLoopRunning say too
    op,      \* for each thread the call it is in
    foreign, \* another process listens on the RPC port
    calls,   \* calls made
    told,    \* nodes that a stop reported as stopped
    readyBy  \* who listened on the RPC port when a Start reported success

svcvars == <<scene, svc, nd, mirror, op, foreign, calls, told, readyBy>>
-----------------------------------------------------------------------------
Fresh == [life |-> "none", cancelled |-> FALSE, p2p |-> "none", rpc |-> "none", mining |-> FALSE]
NoOp == [step |-> "idle", node |-> NoNode, active |-> FALSE, stop |-> FALSE]

AtStep(t, s) == op[t].step = s
ToStep(t, s) == op' = [op EXCEPT ![t].step = s]
Done(t) == op' = [op EXCEPT ![t] = NoOp]
Call(t, o) == /\ AtStep(t, "idle")
              /\ calls < MaxCalls[scene]
              /\ calls' = calls + 1
              /\ op' = [op EXCEPT ![t] = o]

Listeners == {n \in NodeId : nd[n].rpc = "up"}
Unused(n) == n <= MaxNodes[scene] /\ nd[n].life = "none" /\ \A m \in NodeId : m < n => nd[m].life # "none"

(* requiredPortsAvailable: nobody listens on the RPC and the P2P port. *)
P2PPortOnly == ~\E n \in NodeId : nd[n].p2p = "up"

PortsFree == ~foreign /\ ~\E n \in NodeId : nd[n].rpc = "up" \/ nd[n].p2p = "up"
-----------------------------------------------------------------------------
(* Start, with the mutex held while the ports are tried and the node is built. *)
StartNode(t, n) ==
    /\ svc' = [node |-> n, starting |-> TRUE, stopping |-> FALSE]
    /\ nd' = [nd EXCEPT ![n] = [@ EXCEPT !.life = "run", !.p2p = "new", !.rpc = "new"]]
    /\ op' = [op EXCEPT ![t] = [NoOp EXCEPT !.step = "wait", !.node = n]]

StartAgain(t) ==
    /\ AtStep(t, "idle") /\ calls < MaxCalls[scene] /\ calls' = calls + 1
    /\ ~svc.starting
    /\ PortsFree /\ \E n \in NodeId : Unused(n) /\ StartNode(t, n)
    /\ UNCHANGED <<mirror, foreign, told, readyBy>>

StartKeepsFlag(t) ==
    /\ AtStep(t, "idle") /\ calls < MaxCalls[scene] /\ calls' = calls + 1
    /\ svc.node = NoNode /\ ~svc.starting
    /\ \/ PortsFree /\ \E n \in NodeId : Unused(n) /\ StartNode(t, n)
       \/ svc' = [svc EXCEPT !.starting = TRUE, !.stopping = FALSE] /\ UNCHANGED <<nd, op>>
    /\ UNCHANGED <<mirror, foreign, told, readyBy>>

Start(t) ==
    /\ AtStep(t, "idle") /\ calls < MaxCalls[scene] /\ calls' = calls + 1
    /\ svc.node = NoNode /\ ~svc.starting      \* else it returns without an error
    /\ \/ PortsFree /\ \E n \in NodeId : Unused(n) /\ StartNode(t, n)
       \/ svc' = [svc EXCEPT !.stopping = FALSE] /\ UNCHANGED <<nd, op>>  \* refused
    /\ UNCHANGED <<mirror, foreign, told, readyBy>>

(* waitForRPCReady: somebody accepts a connection on the RPC port ... *)
StartReady(t) ==
    /\ AtStep(t, "wait")
    /\ Listeners # {} \/ foreign
    /\ svc' = [svc EXCEPT !.starting = FALSE]
    /\ readyBy' = [readyBy EXCEPT ![op[t].node] =
                     @ \cup Listeners \cup (IF foreign THEN {Other} ELSE {})]
    /\ Done(t)
    /\ UNCHANGED <<nd, mirror, foreign, calls, told>>

(* ... or the node ended, or eight seconds passed: the node is cancelled and given *)
(* two seconds, and Start returns an error.                                        *)
StartFails(t) ==
    /\ AtStep(t, "wait")
    /\ nd' = [nd EXCEPT ![op[t].node].cancelled = TRUE]
    /\ ToStep(t, "drain")
    /\ UNCHANGED <<svc, mirror, foreign, calls, told, readyBy>>

StartReturns(t) ==
    /\ AtStep(t, "drain")
    /\ svc' = [svc EXCEPT !.starting = FALSE]
    /\ Done(t)
    /\ UNCHANGED <<nd, mirror, foreign, calls, told, readyBy>>
-----------------------------------------------------------------------------
(* The node.  A server's listener needs its port; a server that cannot have it     *)
(* ends with an error.                                                             *)
P2PListens(n) ==
    /\ nd[n].p2p = "new"
    /\ nd' = [nd EXCEPT ![n].p2p = IF \E m \in NodeId : nd[m].p2p = "up" THEN "ended" ELSE "up"]
    /\ UNCHANGED <<svc, mirror, op, foreign, calls, told, readyBy>>

RPCListens(n) ==
    /\ nd[n].rpc = "new"
    /\ nd' = [nd EXCEPT ![n].rpc =
                IF foreign \/ Listeners # {} \/ nd[n].cancelled THEN "ended" ELSE "up"]
    /\ UNCHANGED <<svc, mirror, op, foreign, calls, told, readyBy>>

(* p2p.Start returns when its goroutines have; ListenAndServe returns as soon as   *)
(* Shutdown has begun, and requests are served for up to five seconds more.        *)
ServerCloses(n) ==
    /\ nd[n].cancelled
    /\ \/ nd[n].p2p = "up" /\ nd' = [nd EXCEPT ![n].p2p = "closing"]
       \/ nd[n].p2p = "closing" /\ nd' = [nd EXCEPT ![n].p2p = "ended"]
       \/ nd[n].rpc = "up" /\ nd' = [nd EXCEPT ![n].rpc = "closing"]
       \/ nd[n].rpc = "closing" /\ nd' = [nd EXCEPT ![n].rpc = "ended", ![n].mining = FALSE]
    /\ UNCHANGED <<svc, mirror, op, foreign, calls, told, readyBy>>

RunWaitsForBoth(n) ==
    /\ nd[n].life = "run"
    /\ nd[n].p2p = "ended" /\ nd[n].rpc \in {"closing", "ended"}
    /\ nd' = [nd EXCEPT ![n].life = "returned", ![n].cancelled = TRUE]
    /\ UNCHANGED <<svc, mirror, op, foreign, calls, told, readyBy>>

(* Run takes the first error, or nil, and cancels the rest. *)
RunReturns(n) ==
    /\ nd[n].life = "run"
    /\ nd[n].p2p = "ended" \/ nd[n].rpc \in {"closing", "ended"}
    /\ nd' = [nd EXCEPT ![n].life = "returned", ![n].cancelled = TRUE]
    /\ UNCHANGED <<svc, mirror, op, foreign, calls, told, readyBy>>

(* The end of Start's goroutine: the chain is closed, the fields are reset and     *)
(* done is closed.                                                                 *)
NodeEnds(n) ==
    /\ nd[n].life = "returned"
    /\ nd' = [nd EXCEPT ![n].life = "gone"]
    /\ svc' = [node |-> NoNode, starting |-> FALSE, stopping |-> FALSE]
    /\ UNCHANGED <<mirror, op, foreign, calls, told, readyBy>>
-----------------------------------------------------------------------------
(* StopWithReport: the miner first, then the node, then the wait. *)
Stop(t) ==
    /\ Call(t, [NoOp EXCEPT !.step = "stopflags", !.node = svc.node, !.stop = TRUE])
    /\ svc' = [svc EXCEPT !.stopping = svc.node # NoNode]
    /\ UNCHANGED <<nd, mirror, foreign, told, readyBy>>

CancelWithoutTest(t) ==
    /\ AtStep(t, "cancel")
    /\ nd' = [n \in NodeId |-> [nd[n] EXCEPT !.cancelled = @ \/ n = op[t].node]]
    /\ ToStep(t, "join")
    /\ UNCHANGED <<svc, mirror, foreign, calls, told, readyBy>>

CancelNode(t) ==
    /\ AtStep(t, "cancel")
    /\ IF op[t].node = NoNode
       THEN svc' = [svc EXCEPT !.stopping = FALSE] /\ Done(t) /\ UNCHANGED nd
       ELSE nd' = [nd EXCEPT ![op[t].node].cancelled = TRUE] /\ ToStep(t, "join") /\ UNCHANGED svc
    /\ UNCHANGED <<mirror, foreign, calls, told, readyBy>>

Stopped(t) ==
    /\ AtStep(t, "join")
    /\ nd[op[t].node].life = "gone"
    /\ told' = told \cup {op[t].node}
    /\ svc' = [svc EXCEPT !.stopping = FALSE]
    /\ Done(t)
    /\ UNCHANGED <<nd, mirror, foreign, calls, readyBy>>

StopTimesOutStopped(t) ==
    /\ AtStep(t, "join")
    /\ told' = told \cup {op[t].node}
    /\ svc' = [svc EXCEPT !.stopping = FALSE]
    /\ Done(t)
    /\ UNCHANGED <<nd, mirror, foreign, calls, readyBy>>

StopTimesOut(t) ==
    /\ AtStep(t, "join")
    /\ svc' = [svc EXCEPT !.stopping = FALSE]
    /\ Done(t)
    /\ UNCHANGED <<nd, mirror, foreign, calls, told, readyBy>>
-----------------------------------------------------------------------------
(* An RPC from this process to whoever serves the port: it is executed and         *)
(* answered, executed although the caller gave up, or not executed.                *)
Executed(on) ==
    \E n \in Listeners : nd' = [nd EXCEPT ![n].mining = on]

StartMiner(t) ==
    /\ scene = "miner"
    /\ Call(t, [NoOp EXCEPT !.step = "startrpc"])
    /\ UNCHANGED <<svc, nd, mirror, foreign, told, readyBy>>

StartMinerRPC(t) ==
    /\ AtStep(t, "startrpc")
    /\ \/ Executed(TRUE) /\ ToStep(t, "startflags")
       \/ (Executed(TRUE) \/ UNCHANGED nd) /\ Done(t)
    /\ UNCHANGED <<svc, mirror, foreign, calls, told, readyBy>>

StartMinerFlags(t) ==
    /\ AtStep(t, "startflags")
    /\ mirror' = TRUE
    /\ Done(t)
    /\ UNCHANGED <<svc, nd, foreign, calls, told, readyBy>>

(* StopMiner and ForceStopMiner: the flags, then the RPC, whose failure is         *)
(* reported as success.                                                            *)
StopMiner(t) ==
    /\ scene = "miner"
    /\ Call(t, [NoOp EXCEPT !.step = "stopflags"])
    /\ UNCHANGED <<svc, nd, mirror, foreign, told, readyBy>>

StopMinerFlags(t) ==
    /\ AtStep(t, "stopflags")
    /\ mirror' = FALSE
    /\ ToStep(t, "stoprpc")
    /\ UNCHANGED <<svc, nd, foreign, calls, told, readyBy>>

StopMinerRPC(t) ==
    /\ AtStep(t, "stoprpc")
    /\ Executed(FALSE) \/ UNCHANGED nd
    /\ IF op[t].stop THEN ToStep(t, "cancel") ELSE Done(t)
    /\ UNCHANGED <<svc, mirror, foreign, calls, told, readyBy>>

(* GetMinerStatus: the status of the node in this process, else of the RPC server; *)
(* without an answer the mirror is shown as it is.                                 *)
Answers(n) == (svc.node = n /\ nd[n].rpc # "none") \/ nd[n].rpc = "up"

GetMinerStatus ==
    /\ scene = "miner"
    /\ AtStep(Poller, "idle")
    /\ \E n \in NodeId :
         /\ Answers(n)
         /\ op' = [op EXCEPT ![Poller] = [NoOp EXCEPT !.step = "record", !.active = nd[n].mining]]
    /\ UNCHANGED <<svc, nd, mirror, foreign, calls, told, readyBy>>

RecordsOnlyActive ==
    /\ AtStep(Poller, "record")
    /\ mirror' = (mirror \/ op[Poller].active)
    /\ Done(Poller)
    /\ UNCHANGED <<svc, nd, foreign, calls, told, readyBy>>

(* The answer is normalised and copied into the mirror. *)
recordMinerStatusSuccess ==
    /\ AtStep(Poller, "record")
    /\ mirror' = op[Poller].active
    /\ Done(Poller)
    /\ UNCHANGED <<svc, nd, foreign, calls, told, readyBy>>
-----------------------------------------------------------------------------
(* What happens outside: the RPC command "stop" cancels the node, the miner gives  *)
(* up by itself, another process takes the RPC port or leaves it.                  *)
Outside ==
    \/ /\ calls < MaxCalls[scene] /\ calls' = calls + 1
       /\ \E n \in Listeners : nd' = [nd EXCEPT ![n].cancelled = TRUE]
       /\ UNCHANGED <<svc, mirror, op, foreign, told, readyBy>>
    \/ /\ \E n \in NodeId : nd[n].mining /\ nd' = [nd EXCEPT ![n].mining = FALSE]
       /\ UNCHANGED <<svc, mirror, op, foreign, calls, told, readyBy>>
    \/ /\ calls < MaxCalls[scene] /\ calls' = calls + 1
       /\ scene = "ports" /\ Listeners = {} /\ ~foreign /\ foreign' = TRUE
       /\ UNCHANGED <<svc, nd, mirror, op, told, readyBy>>
    \/ /\ foreign /\ foreign' = FALSE
       /\ UNCHANGED <<svc, nd, mirror, op, calls, told, readyBy>>
-----------------------------------------------------------------------------
SvcInit ==
    /\ scene \in DOMAIN MaxCalls
    /\ svc = [node |-> NoNode, starting |-> FALSE, stopping |-> FALSE]
    /\ nd = [n \in NodeId |-> Fresh]
    /\ mirror = FALSE
    /\ op = [t \in Thread |-> NoOp]
    /\ foreign = FALSE
    /\ calls = 0
    /\ told = {}
    /\ readyBy = [n \in NodeId |-> {}]

(* A call that is under way. *)
Proceeds(t) ==
    \/ StartReady(t) \/ StartFails(t) \/ StartReturns(t) \/ CancelNode(t)
    \/ Stopped(t) \/ StopTimesOut(t)
    \/ StartMinerRPC(t) \/ StartMinerFlags(t) \/ StopMinerFlags(t) \/ StopMinerRPC(t)

NodeStep(n) ==
    P2PListens(n) \/ RPCListens(n) \/ ServerCloses(n) \/ RunReturns(n) \/ NodeEnds(n)

Polls == GetMinerStatus \/ recordMinerStatusSuccess

SvcNext ==
    /\ UNCHANGED scene
    /\ \/ \E t \in User : Start(t) \/ Stop(t) \/ StartMiner(t) \/ StopMiner(t) \/ Proceeds(t)
       \/ \E n \in NodeId : NodeStep(n)
       \/ Polls
       \/ Outside

(* Every wait has a timeout, the node's goroutines run, and the dashboard polls. *)
SvcFairness ==
    /\ \A t \in User : WF_svcvars(UNCHANGED scene /\ Proceeds(t))
    /\ \A n \in NodeId : WF_svcvars(UNCHANGED scene /\ NodeStep(n))
    /\ WF_svcvars(UNCHANGED scene /\ Polls)

SvcSpec == SvcInit /\ [][SvcNext]_svcvars /\ SvcFairness
-----------------------------------------------------------------------------
(* The service's fields, the nodes and the calls have their types; whoever waits   *)
(* for a node, in Start or in StopWithReport, knows which.                         *)
SvcTypeOK ==
    /\ svc \in [node : NodeId \cup {NoNode}, starting : BOOLEAN, stopping : BOOLEAN]
    /\ nd \in [NodeId -> [life : {"none", "run", "returned", "gone"}, cancelled : BOOLEAN,
                          p2p : {"none", "new", "up", "closing", "ended"},
                          rpc : {"none", "new", "up", "closing", "ended"}, mining : BOOLEAN]]
    /\ mirror \in BOOLEAN
    /\ calls \in 0 .. MaxCalls[scene]
    /\ \A t \in Thread : op[t].step \in {"wait", "drain", "join"} => op[t].node \in NodeId

(* No node runs that the service has lost sight of: whatever starts time out and   *)
(* stops overtake them, a node whose Run has not returned is the one Stop would    *)
(* cancel, so the data directory never has two running nodes.                      *)
NoStrayNode == \A n \in NodeId : nd[n].life \in {"run", "returned"} => svc.node = n

(* "stopped" in a stop's report means that the node which ran when the stop was    *)
(* asked for has returned from Run and closed its chain, however many stops and    *)
(* starts raced.                                                                   *)
StoppedHasEnded == \A n \in told : nd[n].life = "gone"

(* A Start that reported success found the RPC listener of its own node, of a      *)
(* later one (two starts and a stop raced), or of a foreign process that took the  *)
(* port after it was tried; never what is left of the node before, which would end *)
(* right after.                                                                    *)
ReadyIsOwn == \A n \in NodeId : \A m \in readyBy[n] : m = Other \/ m >= n

(* The service's fields and reports say what its nodes do: whichever Starts and     *)
(* Stops race, the node that runs is the one it names, a node it reported as        *)
(* stopped is gone, and one it reported as started is not an earlier one.           *)
NodeAccounted == NoStrayNode /\ StoppedHasEnded /\ ReadyIsOwn

(* The flag that makes every other Start return at once is cleared again. *)
StartingEnds == svc.starting ~> ~svc.starting

(* A node that was cancelled, by a stop, a failed start or the RPC command, or     *)
(* that lost one of its servers, ends and makes room for the next Start.           *)
CancelledEnds ==
    LET Ending == \E n \in NodeId : /\ nd[n].life # "gone"
                                    /\ nd[n].cancelled \/ "ended" \in {nd[n].p2p, nd[n].rpc}
    IN  Ending ~> ~Ending

(* Once nobody commands the miner any more, the mirror settles to what the miner   *)
(* of a running node does, although an answer may be recorded long after it was    *)
(* taken and a command's flags are set at another time than it is executed.        *)
MirrorSettles ==
    <>[](svc.node # NoNode => mirror = nd[svc.node].mining)
=============================================================================
