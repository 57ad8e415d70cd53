---------------------------- MODULE ServicesProofs ----------------------------
(***************************************************************************)
(* The proofs about what runs around the chain, for any number of callers. *)
(*                                                                         *)
(* The wallet application's service accounts for its nodes: NodeInv adds   *)
(* to NodeAccounted that a node whose Run has returned was cancelled, so   *)
(* its RPC server never listens later, and that whoever waits for a node   *)
(* to come up waits for the newest one, every earlier one being gone.      *)
(*                                                                         *)
(* The pool server keeps its limits: LimitsInv adds to LimitsHold that no  *)
(* address has more submissions looked at than counted in its window.      *)
(*                                                                         *)
(* The mining RPCs tell the truth: in WorkInv the active chain is stored   *)
(* and validated, and a block is stored before anyone is told.  The rate   *)
(* limiter earns what it gives: BucketInv weighs the balance granted so    *)
(* far against what the bucket holds.                                      *)
(*                                                                         *)
(* The event stream skips nothing: a subscriber's queue is two runs of     *)
(* numbers that rise (TwoRuns), and what it lacks was written out.  The    *)
(* agent's payments are told as they are made: PayInv says that whatever   *)
(* the network has from a request is the payment the request stopped at,   *)
(* and FloorInv how far the fee loop still is from a fee that suffices.    *)
(***************************************************************************)
EXTENDS NodeService, Stratum, Events, AgentSend, WorkRpc, FiniteSetTheorems, SequenceTheorems,
        WellFoundedInduction, Sums, TLAPS

(* The service and its nodes *)

Nodes == [life : {"none", "run", "returned", "gone"}, cancelled : BOOLEAN,
          p2p : {"none", "new", "up", "closing", "ended"},
          rpc : {"none", "new", "up", "closing", "ended"}, mining : BOOLEAN]

Ops == [step : {"idle", "wait", "drain", "stopflags", "stoprpc", "cancel", "join",
                "startrpc", "startflags", "record"},
        node : NodeId \cup {NoNode}, active : BOOLEAN, stop : BOOLEAN]

(* Whoever waits for a node knows which. *)
OpsTyped ==
    /\ op \in [Thread -> Ops]
    /\ \A t \in Thread : op[t].step \in {"wait", "drain", "join"} => op[t].node \in NodeId

NodeTyped ==
    /\ scene \in {"ports", "miner"}
    /\ svc \in [node : NodeId \cup {NoNode}, starting : BOOLEAN, stopping : BOOLEAN]
    /\ nd \in [NodeId -> Nodes]
    /\ mirror \in BOOLEAN /\ foreign \in BOOLEAN
    /\ OpsTyped
    /\ calls \in 0 .. MaxCalls[scene]
    /\ told \subseteq NodeId
    /\ readyBy \in [NodeId -> SUBSET (NodeId \cup {Other})]

(* Run cancels its context before it returns. *)
EndedCancelled == \A n \in NodeId : nd[n].life \in {"returned", "gone"} => nd[n].cancelled

(* Start waits for the newest node; those before it are gone and do not    *)
(* listen on the RPC port.                                                 *)
WaitsForNewest ==
    \A t \in Thread : op[t].step = "wait" =>
        \A m \in NodeId : m < op[t].node => nd[m].life = "gone" /\ nd[m].rpc # "up"

NodeInv == NodeTyped /\ NodeAccounted /\ EndedCancelled /\ WaitsForNewest

LEMMA NodeIds == NodeId \subseteq Nat \ {0} /\ NoNode \notin NodeId
<1> DEFINE bounds == {MaxNodes[s] : s \in DOMAIN MaxNodes}
<1>1. bounds = {MaxNodes["ports"], MaxNodes["miner"]}
  BY ServiceAssumption
<1>2. MaxNodes["ports"] \in Nat /\ MaxNodes["miner"] \in Nat
  BY ServiceAssumption
<1>3. \E x \in bounds : \A y \in bounds : x >= y
  BY <1>1, <1>2
<1>4. Max(bounds) \in bounds
  BY <1>3 DEF Max
<1>5. Max(bounds) \in Nat
  BY <1>1, <1>2, <1>4
<1> QED  BY <1>5, ServiceAssumption DEF NodeId

LEMMA InitNodeInv == SvcInit => NodeInv
<1> SUFFICES ASSUME SvcInit PROVE NodeInv
  OBVIOUS
<1>1. scene \in {"ports", "miner"} /\ MaxCalls[scene] \in Nat
  BY ServiceAssumption DEF SvcInit
<1>2. Fresh \in Nodes /\ NoOp \in Ops
  BY DEF Fresh, Nodes, NoOp, Ops
<1>3. /\ nd \in [NodeId -> Nodes] /\ op \in [Thread -> Ops]
      /\ \A t \in Thread : op[t].step = "idle"
  BY <1>2 DEF SvcInit, NoOp
<1>4. /\ svc \in [node : NodeId \cup {NoNode}, starting : BOOLEAN, stopping : BOOLEAN]
      /\ mirror \in BOOLEAN /\ foreign \in BOOLEAN /\ told \subseteq NodeId
      /\ readyBy \in [NodeId -> SUBSET (NodeId \cup {Other})]
  BY DEF SvcInit
<1>5. calls \in 0 .. MaxCalls[scene]
  BY <1>1 DEF SvcInit
<1>6. NodeTyped
  BY <1>1, <1>3, <1>4, <1>5 DEF NodeTyped, OpsTyped
<1> QED  BY <1>6 DEF SvcInit, NodeInv, NodeAccounted, NoStrayNode, StoppedHasEnded, ReadyIsOwn,
                     EndedCancelled, WaitsForNewest, Fresh, NoOp

(* No thread begins to wait for a node. *)
NoNewWait == \A t \in Thread : op'[t].step = "wait" => op'[t] = op[t]

(* No node starts or ends, is no longer cancelled, or begins to listen. *)
NodesKept ==
    /\ nd' \in [NodeId -> Nodes]
    /\ \A m \in NodeId : /\ nd'[m].life = nd[m].life
                         /\ nd[m].cancelled => nd'[m].cancelled
                         /\ nd'[m].rpc = "up" => nd[m].rpc = "up"

(* Steps that start, end and report no node and let none listen.           *)
LEMMA StepQuiet ==
    ASSUME NodeInv, NodeTyped', svc'.node = svc.node, UNCHANGED <<told, readyBy>>,
           NodesKept, NoNewWait
    PROVE  NodeInv'
  BY DEF NodeInv, NodeAccounted, NoStrayNode, StoppedHasEnded, ReadyIsOwn, EndedCancelled,
         WaitsForNewest, NodeTyped, NodesKept, NoNewWait

-----------------------------------------------------------------------------
(* A call's place, and the place a step gives it. *)
LEMMA OpMoves ==
    ASSUME NodeTyped, NEW t \in Thread, NEW o \in Ops,
           o.step \in {"wait", "drain", "join"} => o.node \in NodeId,
           op' = [op EXCEPT ![t] = o]
    PROVE  /\ OpsTyped'
           /\ op'[t] = o /\ \A u \in Thread \ {t} : op'[u] = op[u]
  BY DEF NodeTyped, OpsTyped

LEMMA OpValues ==
    /\ NoOp \in Ops /\ NoOp.step = "idle"
    /\ \A o \in Ops, s \in {"drain", "stoprpc", "cancel", "join", "startflags"} :
          /\ [o EXCEPT !.step = s] \in Ops
          /\ [o EXCEPT !.step = s].step = s /\ [o EXCEPT !.step = s].node = o.node
  BY DEF NoOp, Ops

(* ToStep and Done. *)
LEMMA OpSteps ==
    ASSUME NodeTyped, NEW t \in Thread
    PROVE  /\ Done(t) => OpsTyped' /\ NoNewWait
           /\ \A s \in {"drain", "stoprpc", "cancel", "join", "startflags"} :
                 ToStep(t, s) /\ (s \in {"drain", "join"} => op[t].node \in NodeId) =>
                     OpsTyped' /\ NoNewWait
<1>1. op \in [Thread -> Ops]
  BY DEF NodeTyped, OpsTyped
<1>2. ASSUME Done(t)
      PROVE  OpsTyped' /\ NoNewWait
  <2>1. NoOp \in Ops /\ NoOp.step = "idle" /\ op' = [op EXCEPT ![t] = NoOp]
    BY <1>2, OpValues DEF Done
  <2>2. OpsTyped' /\ op'[t] = NoOp /\ \A u \in Thread \ {t} : op'[u] = op[u]
    BY <2>1, OpMoves
  <2> QED  BY ONLY <2>1, <2>2 DEF NoNewWait
<1>3. ASSUME NEW s \in {"drain", "stoprpc", "cancel", "join", "startflags"}, ToStep(t, s),
             s \in {"drain", "join"} => op[t].node \in NodeId
      PROVE  OpsTyped' /\ NoNewWait
  <2>1. op' = [op EXCEPT ![t] = [op[t] EXCEPT !.step = s]]
    BY <1>3, <1>1 DEF ToStep
  <2>2. [op[t] EXCEPT !.step = s] \in Ops /\ [op[t] EXCEPT !.step = s].step = s
        /\ [op[t] EXCEPT !.step = s].node = op[t].node
    BY <1>1, OpValues
  <2> QED  BY <2>1, <2>2, <1>3, OpMoves DEF NoNewWait
<1> QED  BY <1>2, <1>3

(* A step that changes one node, but not whether it has started or ended,  *)
(* and does not let it listen on the RPC port.                             *)
NodeKept(n, new) ==
    /\ new \in Nodes /\ new.life = nd[n].life
    /\ nd[n].cancelled => new.cancelled
    /\ new.rpc = "up" => nd[n].rpc = "up"
    /\ nd' = [nd EXCEPT ![n] = new]

LEMMA NodeKeptQuiet ==
    ASSUME NodeTyped, NEW n \in NodeId, NEW new, NodeKept(n, new)
    PROVE  NodesKept
  BY DEF NodeTyped, NodeKept, NodesKept

LEMMA StepNodeKept ==
    ASSUME NodeInv, NEW n \in NodeId, NEW new, NodeKept(n, new), UNCHANGED scene,
           UNCHANGED <<svc, mirror, op, foreign, told, readyBy>>,
           calls' \in 0 .. MaxCalls[scene]
    PROVE  NodeInv'
<1>1. NodesKept
  BY NodeKeptQuiet DEF NodeInv
<1>2. NodeTyped'
  BY <1>1 DEF NodeInv, NodeTyped, NodesKept, OpsTyped
<1> QED  BY <1>1, <1>2, StepQuiet DEF NoNewWait

Cancels(n) == nd' = [nd EXCEPT ![n].cancelled = TRUE]

LEMMA CancelQuiet ==
    ASSUME NodeTyped, NEW n \in NodeId, Cancels(n)
    PROVE  NodesKept
<1> DEFINE new == [nd[n] EXCEPT !.cancelled = TRUE]
<1>0. nd[n] \in Nodes
  BY DEF NodeTyped
<1>1. new \in Nodes /\ new.life = nd[n].life /\ new.cancelled /\ new.rpc = nd[n].rpc
  BY <1>0 DEF Nodes
<1>2. nd' = [nd EXCEPT ![n] = new]
  BY DEF Cancels
<1> HIDE DEF new
<1>3. NodeKept(n, new)
  BY <1>1, <1>2 DEF NodeKept
<1> QED  BY <1>3, NodeKeptQuiet

LEMMA MiningKept ==
    ASSUME NodeTyped, NEW n \in NodeId, NEW on \in BOOLEAN, nd' = [nd EXCEPT ![n].mining = on]
    PROVE  NodesKept
<1> DEFINE new == [nd[n] EXCEPT !.mining = on]
<1>1. nd[n] \in Nodes
  BY DEF NodeTyped
<1>2. new \in Nodes /\ new.life = nd[n].life /\ new.cancelled = nd[n].cancelled /\ new.rpc = nd[n].rpc
  BY <1>1 DEF Nodes
<1>3. nd' = [nd EXCEPT ![n] = new]
  OBVIOUS
<1> HIDE DEF new
<1>4. NodeKept(n, new)
  BY <1>2, <1>3 DEF NodeKept
<1> QED  BY <1>4, NodeKeptQuiet

-----------------------------------------------------------------------------
(* Start *)

LEMMA StepStart ==
    ASSUME NodeInv, NEW t \in Thread, UNCHANGED scene, Start(t)
    PROVE  NodeInv'
<1>1. /\ svc.node = NoNode /\ calls' = calls + 1 /\ calls < MaxCalls[scene]
      /\ UNCHANGED <<mirror, foreign, told, readyBy>>
  BY DEF Start
<1>2. calls' \in 0 .. MaxCalls[scene]
  BY <1>1, ServiceAssumption DEF NodeInv, NodeTyped, OpsTyped
<1>3. CASE svc' = [svc EXCEPT !.stopping = FALSE] /\ UNCHANGED <<nd, op>>
  <2>1. NodeTyped'
    BY <1>1, <1>2, <1>3 DEF NodeInv, NodeTyped, OpsTyped
  <2> QED  BY <1>1, <1>3, <2>1, StepQuiet DEF NodeInv, NodeTyped, NodesKept, NoNewWait
<1>4. ASSUME NEW n \in NodeId, PortsFree, Unused(n), StartNode(t, n)
      PROVE  NodeInv'
  <2> DEFINE o == [NoOp EXCEPT !.step = "wait", !.node = n]
  <2>1. o \in Ops /\ o.node = n /\ o.step = "wait"
    BY DEF NoOp, Ops
  <2>2. op' = [op EXCEPT ![t] = o]
    BY <1>4 DEF StartNode
  <2> HIDE DEF o
  <2>3. /\ OpsTyped'
        /\ op'[t] = o /\ \A u \in Thread \ {t} : op'[u] = op[u]
    BY <2>1, <2>2, OpMoves DEF NodeInv
  <2>4. /\ nd' \in [NodeId -> Nodes]
        /\ nd'[n].life = "run" /\ nd'[n].rpc = "new" /\ nd'[n].cancelled = nd[n].cancelled
        /\ \A m \in NodeId \ {n} : nd'[m] = nd[m]
    <3> DEFINE new == [nd[n] EXCEPT !.life = "run", !.p2p = "new", !.rpc = "new"]
    <3>1. nd \in [NodeId -> Nodes] /\ nd' = [nd EXCEPT ![n] = new]
      BY <1>4 DEF StartNode, NodeInv, NodeTyped, OpsTyped
    <3>2. new \in Nodes /\ new.life = "run" /\ new.rpc = "new" /\ new.cancelled = nd[n].cancelled
      BY <3>1 DEF Nodes
    <3> HIDE DEF new
    <3> QED  BY <3>1, <3>2
  <2>5. svc' = [node |-> n, starting |-> TRUE, stopping |-> FALSE]
    BY <1>4 DEF StartNode
  <2>6. NodeTyped'
    BY <1>1, <1>2, <2>3, <2>4, <2>5 DEF NodeInv, NodeTyped, OpsTyped
  <2>7. \A m \in NodeId : nd[m].life \in {"none", "gone"}
    BY <1>1, NodeIds DEF NodeInv, NodeAccounted, NoStrayNode, NodeTyped, Nodes
  <2>8. nd[n].life = "none" /\ \A m \in NodeId : m < n => nd[m].life = "gone" /\ nd[m].rpc # "up"
    BY <1>4, <2>7 DEF Unused, PortsFree
  <2>9. NoStrayNode' /\ StoppedHasEnded' /\ ReadyIsOwn' /\ EndedCancelled'
    <3>1. NoStrayNode'
      BY <2>4, <2>5, <2>7 DEF NoStrayNode
    <3>2. StoppedHasEnded'
      BY <1>1, <2>4, <2>8 DEF NodeInv, NodeAccounted, StoppedHasEnded, NodeTyped, OpsTyped
    <3>3. ReadyIsOwn'
      BY <1>1 DEF NodeInv, NodeAccounted, ReadyIsOwn
    <3>4. EndedCancelled'
      BY <2>4 DEF NodeInv, EndedCancelled
    <3> QED  BY <3>1, <3>2, <3>3, <3>4
  <2>10. WaitsForNewest'
    <3> SUFFICES ASSUME NEW u \in Thread, op'[u].step = "wait", NEW m \in NodeId, m < op'[u].node
                 PROVE  nd'[m].life = "gone" /\ nd'[m].rpc # "up"
      BY DEF WaitsForNewest
    <3>1. m \in Nat /\ n \in Nat
      BY NodeIds
    <3>2. CASE u = t
      BY <3>1, <3>2, <2>1, <2>3, <2>4, <2>8
    <3>3. CASE u # t
      BY <3>1, <3>3, <2>3, <2>4, <2>8 DEF NodeInv, WaitsForNewest
    <3> QED  BY <3>2, <3>3
  <2> QED  BY <2>6, <2>9, <2>10 DEF NodeInv, NodeAccounted
<1> QED  BY <1>3, <1>4 DEF Start

LEMMA StepStartReady ==
    ASSUME NodeInv, NEW t \in Thread, UNCHANGED scene, StartReady(t)
    PROVE  NodeInv'
<1>1. /\ op[t].step = "wait" /\ op[t].node \in NodeId /\ svc'.node = svc.node
      /\ svc' = [svc EXCEPT !.starting = FALSE]
      /\ readyBy' = [readyBy EXCEPT ![op[t].node] =
                       @ \cup Listeners \cup (IF foreign THEN {Other} ELSE {})]
      /\ Done(t) /\ UNCHANGED <<nd, mirror, foreign, calls, told>>
  BY DEF StartReady, AtStep, NodeInv, NodeTyped, OpsTyped
<1>2. OpsTyped' /\ NoNewWait
  BY <1>1, OpSteps DEF NodeInv
<1>3. readyBy' \in [NodeId -> SUBSET (NodeId \cup {Other})]
  BY <1>1 DEF NodeInv, NodeTyped, Listeners
<1>4. NodeTyped'
  BY <1>1, <1>2, <1>3 DEF NodeInv, NodeTyped, OpsTyped
<1>5. \A m \in Listeners : m >= op[t].node
  BY <1>1, NodeIds DEF NodeInv, WaitsForNewest, Listeners
<1>6. ReadyIsOwn'
  BY <1>1, <1>5 DEF NodeInv, NodeAccounted, ReadyIsOwn, NodeTyped, OpsTyped
<1> QED  BY <1>1, <1>2, <1>4, <1>6 DEF NodeInv, NodeAccounted, NoStrayNode, StoppedHasEnded,
            EndedCancelled, WaitsForNewest, NoNewWait

(* The wait for the RPC port fails, and the node is cancelled. *)
LEMMA StepStartFails ==
    ASSUME NodeInv, NEW t \in Thread, UNCHANGED scene, StartFails(t) \/ StartReturns(t)
    PROVE  NodeInv'
<1>1. CASE StartFails(t)
  <2>1. /\ op[t].node \in NodeId /\ ToStep(t, "drain")
        /\ nd' = [nd EXCEPT ![op[t].node].cancelled = TRUE]
        /\ UNCHANGED <<svc, mirror, foreign, calls, told, readyBy>>
    BY <1>1 DEF StartFails, AtStep, NodeInv, NodeTyped, OpsTyped
  <2>2. OpsTyped' /\ NoNewWait
    BY <2>1, OpSteps DEF NodeInv
  <2>3. NodesKept
    BY <2>1, CancelQuiet DEF Cancels, NodeInv
  <2>4. NodeTyped'
    BY <2>1, <2>2, <2>3 DEF NodeInv, NodeTyped, NodesKept
  <2> QED  BY <2>1, <2>2, <2>3, <2>4, StepQuiet
<1>2. CASE StartReturns(t)
  <2>1. /\ Done(t) /\ svc' = [svc EXCEPT !.starting = FALSE]
        /\ UNCHANGED <<nd, mirror, foreign, calls, told, readyBy>>
    BY <1>2 DEF StartReturns
  <2>2. OpsTyped' /\ NoNewWait
    BY <2>1, OpSteps DEF NodeInv
  <2>3. NodeTyped' /\ svc'.node = svc.node
    BY <2>1, <2>2 DEF NodeInv, NodeTyped, OpsTyped
  <2> QED  BY <2>1, <2>2, <2>3, StepQuiet DEF NodesKept, NodeInv, NodeTyped
<1> QED  BY <1>1, <1>2

-----------------------------------------------------------------------------
(* The node *)

(* A server that would listen although its node is gone was cancelled.     *)
LEMMA StepListens ==
    ASSUME NodeInv, NEW n \in NodeId, UNCHANGED scene, P2PListens(n) \/ RPCListens(n)
    PROVE  NodeInv'
<1>1. CASE P2PListens(n)
  <2>1. PICK x \in {"ended", "up"} : nd' = [nd EXCEPT ![n].p2p = x]
    BY <1>1 DEF P2PListens
  <2> DEFINE new == [nd[n] EXCEPT !.p2p = x]
  <2>2. new \in Nodes /\ new.life = nd[n].life /\ new.cancelled = nd[n].cancelled
        /\ new.rpc = nd[n].rpc
    BY DEF NodeInv, NodeTyped, Nodes
  <2>3. nd' = [nd EXCEPT ![n] = new]
    BY <2>1
  <2> HIDE DEF new
  <2>4. NodeKept(n, new)
    BY <2>2, <2>3 DEF NodeKept
  <2> QED  BY <1>1, <2>4, StepNodeKept DEF P2PListens, NodeInv, NodeTyped, OpsTyped
<1>2. CASE RPCListens(n)
  <2>1. /\ nd[n].rpc = "new" /\ UNCHANGED <<svc, mirror, op, foreign, calls, told, readyBy>>
        /\ nd' = [nd EXCEPT ![n].rpc = IF foreign \/ Listeners # {} \/ nd[n].cancelled
                                       THEN "ended" ELSE "up"]
    BY <1>2 DEF RPCListens
  <2>2. PICK x \in {"ended", "up"} : /\ nd' = [nd EXCEPT ![n].rpc = x]
                                     /\ nd[n].cancelled => x = "ended"
    BY <2>1
  <2> DEFINE new == [nd[n] EXCEPT !.rpc = x]
  <2>3. new \in Nodes /\ new.life = nd[n].life /\ new.cancelled = nd[n].cancelled
        /\ new.rpc = x
    BY DEF NodeInv, NodeTyped, Nodes
  <2>4. nd' = [nd EXCEPT ![n] = new]
    BY <2>2
  <2> HIDE DEF new
  <2>5. /\ nd' \in [NodeId -> Nodes] /\ nd'[n] = new
        /\ \A m \in NodeId \ {n} : nd'[m] = nd[m]
    BY <2>3, <2>4 DEF NodeInv, NodeTyped, OpsTyped
  <2>6. NodeTyped'
    BY <2>1, <2>5 DEF NodeInv, NodeTyped, OpsTyped
  <2>7. NodeAccounted' /\ EndedCancelled'
    BY <2>1, <2>3, <2>5 DEF NodeInv, NodeAccounted, NoStrayNode, StoppedHasEnded, ReadyIsOwn,
       EndedCancelled, NodeTyped, OpsTyped
  <2>8. nd[n].life = "gone" => new.rpc # "up"
    BY <2>2, <2>3 DEF NodeInv, EndedCancelled
  <2>9. WaitsForNewest'
    <3>1. op' = op /\ new.life = nd[n].life /\ WaitsForNewest
      BY <2>1, <2>3 DEF NodeInv
    <3>2. \A m \in NodeId : nd[m].life = "gone" /\ nd[m].rpc # "up" => nd'[m].life = "gone" /\ nd'[m].rpc # "up"
      BY ONLY <2>5, <2>8, <3>1
    <3> QED  BY ONLY <3>1, <3>2 DEF WaitsForNewest
  <2> QED  BY <2>6, <2>7, <2>9 DEF NodeInv
<1> QED  BY <1>1, <1>2

LEMMA StepServerCloses ==
    ASSUME NodeInv, NEW n \in NodeId, UNCHANGED scene, ServerCloses(n)
    PROVE  NodeInv'
<1>1. UNCHANGED <<svc, mirror, op, foreign, calls, told, readyBy>>
  BY DEF ServerCloses
<1>2. nd[n] \in Nodes
  BY DEF NodeInv, NodeTyped, OpsTyped
<1>3. PICK new \in {[nd[n] EXCEPT !.p2p = "closing"], [nd[n] EXCEPT !.p2p = "ended"],
                    [nd[n] EXCEPT !.rpc = "closing"],
                    [nd[n] EXCEPT !.rpc = "ended", !.mining = FALSE]} :
          nd' = [nd EXCEPT ![n] = new]
  BY DEF ServerCloses, NodeInv, NodeTyped, OpsTyped
<1>4. new \in Nodes /\ new.life = nd[n].life /\ new.cancelled = nd[n].cancelled
      /\ (new.rpc = "up" => nd[n].rpc = "up")
  BY <1>2 DEF Nodes
<1>5. NodeKept(n, new)
  BY <1>3, <1>4 DEF NodeKept
<1> QED  BY <1>1, <1>5, StepNodeKept DEF NodeInv, NodeTyped, OpsTyped

(* Run returns, cancelling its context; the goroutine of Start resets the  *)
(* fields, which name this node.                                           *)
LEMMA StepRunEnds ==
    ASSUME NodeInv, NEW n \in NodeId, UNCHANGED scene, RunReturns(n) \/ NodeEnds(n)
    PROVE  NodeInv'
<1>1. CASE RunReturns(n)
  <2> DEFINE new == [nd[n] EXCEPT !.life = "returned", !.cancelled = TRUE]
  <2>1. /\ nd[n].life = "run" /\ nd' = [nd EXCEPT ![n] = new]
        /\ UNCHANGED <<svc, mirror, op, foreign, calls, told, readyBy>>
    BY <1>1 DEF RunReturns, NodeInv, NodeTyped, OpsTyped
  <2>2. nd[n] \in Nodes
    BY DEF NodeInv, NodeTyped, OpsTyped
  <2>3. new \in Nodes /\ new.life = "returned" /\ new.cancelled /\ new.rpc = nd[n].rpc
    BY <2>2 DEF Nodes
  <2> HIDE DEF new
  <2>4. /\ nd' \in [NodeId -> Nodes] /\ nd'[n] = new
        /\ \A m \in NodeId \ {n} : nd'[m] = nd[m]
    BY <2>1, <2>3 DEF NodeInv, NodeTyped, OpsTyped
  <2>5. NodeTyped'
    BY <2>1, <2>4 DEF NodeInv, NodeTyped, OpsTyped
  <2>6. NodeAccounted'
    BY <2>1, <2>3, <2>4 DEF NodeInv, NodeAccounted, NoStrayNode, StoppedHasEnded, ReadyIsOwn, NodeTyped, OpsTyped
  <2>7. EndedCancelled' /\ WaitsForNewest'
    BY <2>1, <2>3, <2>4 DEF NodeInv, EndedCancelled, WaitsForNewest
  <2> QED  BY <2>5, <2>6, <2>7 DEF NodeInv
<1>2. CASE NodeEnds(n)
  <2> DEFINE new == [nd[n] EXCEPT !.life = "gone"]
  <2>1. /\ nd[n].life = "returned" /\ nd' = [nd EXCEPT ![n] = new]
        /\ svc' = [node |-> NoNode, starting |-> FALSE, stopping |-> FALSE]
        /\ UNCHANGED <<mirror, op, foreign, calls, told, readyBy>>
    BY <1>2 DEF NodeEnds, NodeInv, NodeTyped, OpsTyped
  <2>2. nd[n] \in Nodes
    BY DEF NodeInv, NodeTyped, OpsTyped
  <2>3. new \in Nodes /\ new.life = "gone" /\ new.cancelled = nd[n].cancelled
        /\ new.rpc = nd[n].rpc
    BY <2>2 DEF Nodes
  <2> HIDE DEF new
  <2>4. /\ nd' \in [NodeId -> Nodes] /\ nd'[n] = new
        /\ \A m \in NodeId \ {n} : nd'[m] = nd[m]
    BY <2>1, <2>3 DEF NodeInv, NodeTyped, OpsTyped
  <2>5. NodeTyped'
    BY <2>1, <2>4 DEF NodeInv, NodeTyped, OpsTyped
  <2>6. \A m \in NodeId \ {n} : nd[m].life \notin {"run", "returned"}
    BY <2>1 DEF NodeInv, NodeAccounted, NoStrayNode
  <2>7. NodeAccounted'
    BY <2>1, <2>3, <2>4, <2>6 DEF NodeInv, NodeAccounted, NoStrayNode, StoppedHasEnded, ReadyIsOwn, NodeTyped, OpsTyped
  <2>8. EndedCancelled' /\ WaitsForNewest'
    BY <2>1, <2>3, <2>4 DEF NodeInv, EndedCancelled, WaitsForNewest
  <2> QED  BY <2>5, <2>7, <2>8 DEF NodeInv
<1> QED  BY <1>1, <1>2

-----------------------------------------------------------------------------
(* StopWithReport *)

(* A call begins in a step that does not wait for a node. *)
LEMMA CallBegins ==
    ASSUME NodeInv, NEW t \in Thread, NEW o \in Ops,
           o.step \notin {"wait", "drain", "join"}, UNCHANGED scene, Call(t, o)
    PROVE  /\ calls' \in 0 .. MaxCalls[scene]
           /\ OpsTyped' /\ NoNewWait
<1>1. calls < MaxCalls[scene] /\ calls' = calls + 1 /\ op' = [op EXCEPT ![t] = o]
  BY DEF Call
<1>2. calls' \in 0 .. MaxCalls[scene]
  BY <1>1, ServiceAssumption DEF NodeInv, NodeTyped, OpsTyped
<1> QED  BY <1>1, <1>2, OpMoves DEF NodeInv, NoNewWait

LEMMA StepStop ==
    ASSUME NodeInv, NEW t \in Thread, UNCHANGED scene,
           Stop(t) \/ CancelNode(t) \/ StopTimesOut(t)
    PROVE  NodeInv'
<1>1. CASE Stop(t)
  <2> DEFINE o == [NoOp EXCEPT !.step = "stopflags", !.node = svc.node, !.stop = TRUE]
  <2>1. /\ Call(t, o) /\ svc' = [svc EXCEPT !.stopping = svc.node # NoNode]
        /\ UNCHANGED <<nd, mirror, foreign, told, readyBy>>
    BY <1>1 DEF Stop
  <2>2. o \in Ops /\ o.step = "stopflags"
    BY DEF NodeInv, NodeTyped, NoOp, Ops
  <2> HIDE DEF o
  <2>3. /\ calls' \in 0 .. MaxCalls[scene] /\ OpsTyped' /\ NoNewWait
    BY <2>1, <2>2, CallBegins
  <2>4. NodeTyped' /\ svc'.node = svc.node
    BY <2>1, <2>3 DEF NodeInv, NodeTyped, OpsTyped
  <2> QED  BY <2>1, <2>3, <2>4, StepQuiet DEF NodesKept, NodeInv, NodeTyped
<1>2. CASE CancelNode(t) /\ op[t].node = NoNode
  <2>1. /\ Done(t) /\ svc' = [svc EXCEPT !.stopping = FALSE]
        /\ UNCHANGED <<nd, mirror, foreign, calls, told, readyBy>>
    BY <1>2 DEF CancelNode
  <2>2. OpsTyped' /\ NoNewWait
    BY <2>1, OpSteps DEF NodeInv
  <2>3. NodeTyped' /\ svc'.node = svc.node
    BY <2>1, <2>2 DEF NodeInv, NodeTyped, OpsTyped
  <2> QED  BY <2>1, <2>2, <2>3, StepQuiet DEF NodesKept, NodeInv, NodeTyped
<1>3. CASE CancelNode(t) /\ op[t].node # NoNode
  <2>1. /\ op[t].node \in NodeId /\ ToStep(t, "join") /\ Cancels(op[t].node)
        /\ UNCHANGED <<svc, mirror, foreign, calls, told, readyBy>>
    BY <1>3 DEF CancelNode, Cancels, NodeInv, NodeTyped, OpsTyped, Ops
  <2>2. OpsTyped' /\ NoNewWait
    BY <2>1, OpSteps DEF NodeInv
  <2>3. NodesKept
    BY <2>1, CancelQuiet DEF NodeInv
  <2>4. NodeTyped'
    BY <2>1, <2>2, <2>3 DEF NodeInv, NodeTyped, NodesKept
  <2> QED  BY <2>1, <2>2, <2>3, <2>4, StepQuiet
<1>4. CASE StopTimesOut(t)
  <2>1. /\ Done(t) /\ svc' = [svc EXCEPT !.stopping = FALSE]
        /\ UNCHANGED <<nd, mirror, foreign, calls, told, readyBy>>
    BY <1>4 DEF StopTimesOut
  <2>2. OpsTyped' /\ NoNewWait
    BY <2>1, OpSteps DEF NodeInv
  <2>3. NodeTyped' /\ svc'.node = svc.node
    BY <2>1, <2>2 DEF NodeInv, NodeTyped, OpsTyped
  <2> QED  BY <2>1, <2>2, <2>3, StepQuiet DEF NodesKept, NodeInv, NodeTyped
<1> QED  BY <1>1, <1>2, <1>3, <1>4

(* done is closed only by the end of the node the stop waited for. *)
LEMMA StepStopped ==
    ASSUME NodeInv, NEW t \in Thread, UNCHANGED scene, Stopped(t)
    PROVE  NodeInv'
<1>1. /\ op[t].node \in NodeId /\ nd[op[t].node].life = "gone"
      /\ told' = told \cup {op[t].node} /\ svc' = [svc EXCEPT !.stopping = FALSE]
      /\ Done(t) /\ UNCHANGED <<nd, mirror, foreign, calls, readyBy>>
  BY DEF Stopped, AtStep, NodeInv, NodeTyped, OpsTyped
<1>2. OpsTyped' /\ NoNewWait
  BY <1>1, OpSteps DEF NodeInv
<1>3. NodeTyped' /\ svc'.node = svc.node
  BY <1>1, <1>2 DEF NodeInv, NodeTyped
<1> QED  BY <1>1, <1>2, <1>3 DEF NodeInv, NodeAccounted, NoStrayNode, StoppedHasEnded, ReadyIsOwn,
            EndedCancelled, WaitsForNewest, NoNewWait
-----------------------------------------------------------------------------
(* The miner and what happens outside *)

LEMMA MiningQuiet ==
    ASSUME NodeTyped, NEW on \in BOOLEAN, Executed(on) \/ UNCHANGED nd
    PROVE  NodesKept
<1>1. CASE UNCHANGED nd
  BY <1>1 DEF NodesKept, NodeTyped
<1>2. ASSUME NEW n \in NodeId, nd' = [nd EXCEPT ![n].mining = on]
      PROVE  NodesKept
  BY <1>2, MiningKept
<1> QED  BY <1>1, <1>2 DEF Executed, Listeners

(* Calls that only move on. *)
LEMMA StepMiner ==
    ASSUME NodeInv, NEW t \in Thread, UNCHANGED scene,
           \/ StartMiner(t) \/ StartMinerRPC(t) \/ StartMinerFlags(t)
           \/ StopMiner(t) \/ StopMinerFlags(t) \/ StopMinerRPC(t)
    PROVE  NodeInv'
<1>1. UNCHANGED <<svc, foreign, told, readyBy>> /\ mirror' \in BOOLEAN
  BY DEF StartMiner, StartMinerRPC, StartMinerFlags, StopMiner, StopMinerFlags, StopMinerRPC,
         NodeInv, NodeTyped
<1>2. NodesKept
  BY MiningQuiet DEF StartMiner, StartMinerRPC, StartMinerFlags, StopMiner, StopMinerFlags,
     StopMinerRPC, NodeInv
<1>3. OpsTyped' /\ NoNewWait /\ calls' \in 0 .. MaxCalls[scene]
  <2>1. CASE StartMiner(t) \/ StopMiner(t)
    <3> DEFINE o(s) == [NoOp EXCEPT !.step = s]
    <3>1. /\ o("startrpc") \in Ops /\ o("startrpc").step = "startrpc"
          /\ o("stopflags") \in Ops /\ o("stopflags").step = "stopflags"
      BY DEF NoOp, Ops
    <3>2. Call(t, o("startrpc")) \/ Call(t, o("stopflags"))
      BY <2>1 DEF StartMiner, StopMiner
    <3> HIDE DEF o
    <3> QED  BY <3>1, <3>2, CallBegins
  <2>2. CASE StartMinerRPC(t) \/ StartMinerFlags(t) \/ StopMinerFlags(t) \/ StopMinerRPC(t)
    <3>1. /\ ToStep(t, "startflags") \/ ToStep(t, "stoprpc") \/ ToStep(t, "cancel") \/ Done(t)
          /\ UNCHANGED calls
      BY <2>2 DEF StartMinerRPC, StartMinerFlags, StopMinerFlags, StopMinerRPC
    <3>2. OpsTyped' /\ NoNewWait
      BY <3>1, OpSteps DEF NodeInv
    <3> QED  BY <3>1, <3>2 DEF NodeInv, NodeTyped
  <2> QED  BY <2>1, <2>2
<1>4. NodeTyped'
  BY <1>1, <1>2, <1>3 DEF NodeInv, NodeTyped, NodesKept
<1> QED  BY <1>1, <1>2, <1>3, <1>4, StepQuiet

LEMMA StepPolls ==
    ASSUME NodeInv, UNCHANGED scene, Polls
    PROVE  NodeInv'
<1>0. Poller \in Thread
  BY DEF Thread
<1>1. CASE GetMinerStatus
  <2>1. PICK n \in NodeId : op' = [op EXCEPT ![Poller] =
                              [NoOp EXCEPT !.step = "record", !.active = nd[n].mining]]
    BY <1>1 DEF GetMinerStatus
  <2> DEFINE o == [NoOp EXCEPT !.step = "record", !.active = nd[n].mining]
  <2>2. nd[n].mining \in BOOLEAN
    BY DEF NodeInv, NodeTyped, Nodes
  <2>3. o \in Ops /\ o.step = "record"
    BY <2>2 DEF NoOp, Ops
  <2>4. op' = [op EXCEPT ![Poller] = o]
    BY <2>1
  <2> HIDE DEF o
  <2>5. OpsTyped' /\ NoNewWait
    BY <1>0, <2>3, <2>4, OpMoves DEF NodeInv, NoNewWait
  <2>6. UNCHANGED <<svc, nd, mirror, foreign, calls, told, readyBy>>
    BY <1>1 DEF GetMinerStatus
  <2>7. NodeTyped' /\ NodesKept
    BY <2>5, <2>6 DEF NodeInv, NodeTyped, NodesKept
  <2> QED  BY <2>5, <2>6, <2>7, StepQuiet
<1>2. CASE recordMinerStatusSuccess
  <2>1. Done(Poller) /\ mirror' = op[Poller].active
        /\ UNCHANGED <<svc, nd, foreign, calls, told, readyBy>>
    BY <1>2 DEF recordMinerStatusSuccess
  <2>2. OpsTyped' /\ NoNewWait
    BY <1>0, <2>1, OpSteps DEF NodeInv
  <2>3. mirror' \in BOOLEAN
    BY <1>0, <2>1 DEF NodeInv, NodeTyped, OpsTyped, Ops
  <2>4. NodeTyped' /\ NodesKept
    BY <2>1, <2>2, <2>3 DEF NodeInv, NodeTyped, NodesKept
  <2> QED  BY <2>1, <2>2, <2>4, StepQuiet
<1> QED  BY <1>1, <1>2 DEF Polls

LEMMA StepOutside ==
    ASSUME NodeInv, UNCHANGED scene, Outside
    PROVE  NodeInv'
<1>1. UNCHANGED <<svc, mirror, op, told, readyBy>> /\ foreign' \in BOOLEAN
  BY DEF Outside, NodeInv, NodeTyped
<1>2. calls' \in 0 .. MaxCalls[scene]
  BY ServiceAssumption DEF Outside, NodeInv, NodeTyped
<1>3. NodesKept
  <2>1. CASE UNCHANGED nd
    BY <2>1 DEF NodesKept, NodeInv, NodeTyped
  <2>2. CASE \E n \in NodeId : Cancels(n) \/ nd' = [nd EXCEPT ![n].mining = FALSE]
    BY <2>2, CancelQuiet, MiningKept DEF NodeInv
  <2> QED  BY <2>1, <2>2 DEF Outside, Cancels, Listeners
<1>4. NodeTyped'
  BY <1>1, <1>2, <1>3 DEF NodeInv, NodeTyped, NodesKept, OpsTyped
<1> QED  BY <1>1, <1>3, <1>4, StepQuiet DEF NoNewWait
-----------------------------------------------------------------------------
LEMMA StepNodeInv == NodeInv /\ [SvcNext]_svcvars => NodeInv'
<1> SUFFICES ASSUME NodeInv, [SvcNext]_svcvars PROVE NodeInv'
  OBVIOUS
<1>1. CASE UNCHANGED svcvars
  <2>1. NodeTyped' /\ NodesKept
    BY <1>1 DEF svcvars, NodeInv, NodeTyped, OpsTyped, NodesKept
  <2> QED  BY <1>1, <2>1, StepQuiet DEF svcvars, NoNewWait
<1>2. CASE UNCHANGED scene /\ \E t \in User : \/ Start(t) \/ Stop(t) \/ StartMiner(t) \/ StopMiner(t)
                                                \/ Proceeds(t)
  <2>1. User \subseteq Thread
    BY DEF Thread
  <2> QED  BY <1>2, <2>1, StepStart, StepStartReady, StepStartFails, StepStop, StepStopped, StepMiner
              DEF Proceeds
<1>3. CASE UNCHANGED scene /\ \E n \in NodeId : NodeStep(n)
  BY <1>3, StepListens, StepServerCloses, StepRunEnds DEF NodeStep
<1> QED  BY <1>1, <1>2, <1>3, StepPolls, StepOutside DEF SvcNext

(* Whatever Starts, Stops, time-outs and ends of nodes interleave: the node *)
(* that runs is the one the service names, a node reported as stopped is    *)
(* gone, and a Start that reported success saw no earlier node's listener.  *)
THEOREM NodeAlwaysAccounted == SvcSpec => []NodeAccounted
<1>1. NodeInv => NodeAccounted
  BY DEF NodeInv
<1> QED  BY <1>1, InitNodeInv, StepNodeInv, PTL DEF SvcSpec

(* Every field and every call keeps its type. *)
THEOREM TypeCorrect == SvcSpec => []SvcTypeOK
<1>1. NodeInv => SvcTypeOK
  BY DEF NodeInv, NodeTyped, OpsTyped, SvcTypeOK, Nodes
<1> QED  BY <1>1, InitNodeInv, StepNodeInv, PTL DEF SvcSpec
-----------------------------------------------------------------------------
(* The pool server *)

PoolTyped ==
    /\ conn \in [Conn -> {"new", "counted", "up", "closing", "closed"}]
    /\ ipCounts \in [IP -> Int]
    /\ shares \in [IP -> Nat] /\ handled \in [IP -> Nat]
    /\ todo \subseteq Conn
    /\ stop \in {"new", "no", "asked", "done"}

(* The connections of an address that hold one of its places. *)
Its(a) == {c \in Conn : IPOf[c] = a /\ conn[c] \in {"counted", "up", "closing"}}

Counted == \A a \in IP : stop # "done" => ipCounts[a] = Cardinality(Its(a))
PlacesBounded == \A a \in IP : Cardinality(Its(a)) <= PerIP
SharesBounded == \A a \in IP : handled[a] <= shares[a] /\ handled[a] <= ShareLimit

LimitsInv == PoolTyped /\ Counted /\ PlacesBounded /\ SharesBounded

LEMMA LimitsFollow == LimitsInv => LimitsHold
  BY DEF LimitsInv, Counted, PlacesBounded, SharesBounded, LimitsHold, Its

LEMMA PlacesFinite == ASSUME NEW a \in IP PROVE IsFiniteSet(Its(a)) /\ Cardinality(Its(a)) \in Nat
  BY StratumAssumption, FS_Subset, FS_CardinalityType DEF Its

LEMMA InitLimits == StratumInit => LimitsInv
<1> SUFFICES ASSUME StratumInit PROVE LimitsInv
  OBVIOUS
<1>1. PoolTyped
  BY DEF StratumInit, PoolTyped
<1>2. \A a \in IP : Its(a) = {}
  BY DEF StratumInit, Its
<1>3. Cardinality({}) = 0
  BY FS_EmptySet
<1> QED  BY <1>1, <1>2, <1>3, StratumAssumption DEF StratumInit, LimitsInv, Counted, PlacesBounded,
            SharesBounded

(* Steps that leave every address its places. *)
LEMMA StepSamePlaces ==
    ASSUME LimitsInv, PoolTyped', UNCHANGED <<ipCounts, shares, handled>>,
           stop = "done" => stop' = "done", \A a \in IP : Its(a)' = Its(a)
    PROVE  LimitsInv'
  BY DEF LimitsInv, Counted, PlacesBounded, SharesBounded

LEMMA StepAccept ==
    ASSUME LimitsInv, NEW c \in Conn, Accept(c)
    PROVE  LimitsInv'
<1>1. /\ conn[c] = "new" /\ stop = "no" /\ ipCounts[IPOf[c]] < PerIP
      /\ conn' = [conn EXCEPT ![c] = "counted"]
      /\ ipCounts' = [ipCounts EXCEPT ![IPOf[c]] = @ + 1]
      /\ UNCHANGED <<todo, shares, handled, stop>>
  BY DEF Accept
<1>2. IPOf[c] \in IP
  BY DEF IP
<1>3. Its(IPOf[c])' = Its(IPOf[c]) \cup {c} /\ c \notin Its(IPOf[c])
      /\ \A a \in IP \ {IPOf[c]} : Its(a)' = Its(a)
  BY <1>1 DEF Its, LimitsInv, PoolTyped
<1>4. Cardinality(Its(IPOf[c])') = Cardinality(Its(IPOf[c])) + 1
  BY <1>2, <1>3, PlacesFinite, FS_AddElement
<1>5. PoolTyped'
  BY <1>1, <1>2 DEF LimitsInv, PoolTyped
<1>6. ipCounts[IPOf[c]] = Cardinality(Its(IPOf[c]))
  BY <1>1, <1>2 DEF LimitsInv, Counted
<1>7. \A a \in IP : ipCounts'[a] = Cardinality(Its(a)') /\ Cardinality(Its(a)') <= PerIP
  <2> TAKE a \in IP
  <2>1. CASE a = IPOf[c]
    BY <1>1, <1>2, <1>4, <1>6, <2>1, PlacesFinite, StratumAssumption DEF LimitsInv, PoolTyped
  <2>2. CASE a # IPOf[c]
    BY <1>1, <1>2, <1>3, <2>2 DEF LimitsInv, PoolTyped, Counted, PlacesBounded
  <2> QED  BY <2>1, <2>2
<1> QED  BY <1>1, <1>5, <1>7 DEF LimitsInv, Counted, PlacesBounded, SharesBounded

LEMMA StepHandlerEnds ==
    ASSUME LimitsInv, NEW c \in Conn, HandlerEnds(c)
    PROVE  LimitsInv'
<1>1. /\ conn[c] = "closing"
      /\ conn' = [conn EXCEPT ![c] = "new"]
      /\ ipCounts' = [ipCounts EXCEPT ![IPOf[c]] = @ - 1]
      /\ UNCHANGED <<todo, shares, handled, stop>>
  BY DEF HandlerEnds
<1>2. IPOf[c] \in IP
  BY DEF IP
<1>3. Its(IPOf[c])' = Its(IPOf[c]) \ {c} /\ c \in Its(IPOf[c])
      /\ \A a \in IP \ {IPOf[c]} : Its(a)' = Its(a)
  BY <1>1 DEF Its, LimitsInv, PoolTyped
<1>4. Cardinality(Its(IPOf[c])') = Cardinality(Its(IPOf[c])) - 1
  BY <1>2, <1>3, PlacesFinite, FS_RemoveElement
<1>5. PoolTyped'
  BY <1>1, <1>2 DEF LimitsInv, PoolTyped
<1>6. \A a \in IP : /\ stop' # "done" => ipCounts'[a] = Cardinality(Its(a)')
                    /\ Cardinality(Its(a)') <= PerIP
  <2> TAKE a \in IP
  <2>1. CASE a = IPOf[c]
    BY <1>1, <1>2, <1>4, <2>1, PlacesFinite, StratumAssumption
       DEF LimitsInv, PoolTyped, Counted, PlacesBounded
  <2>2. CASE a # IPOf[c]
    BY <1>1, <1>2, <1>3, <2>2 DEF LimitsInv, PoolTyped, Counted, PlacesBounded
  <2> QED  BY <2>1, <2>2
<1> QED  BY <1>1, <1>5, <1>6 DEF LimitsInv, Counted, PlacesBounded, SharesBounded

(* A connection that comes too late keeps its place in ipCounts only. *)
LEMMA StepRegister ==
    ASSUME LimitsInv, NEW c \in Conn, Register(c)
    PROVE  LimitsInv'
<1>1. /\ conn[c] = "counted"
      /\ conn' = [conn EXCEPT ![c] = IF stop = "done" THEN "closed" ELSE "up"]
      /\ UNCHANGED <<todo, ipCounts, shares, handled, stop>>
  BY DEF Register
<1>2. PoolTyped'
  BY <1>1 DEF LimitsInv, PoolTyped
<1>3. CASE stop # "done"
  <2>1. \A a \in IP : Its(a)' = Its(a)
    BY <1>1, <1>3 DEF Its, LimitsInv, PoolTyped
  <2> QED  BY <1>1, <1>2, <2>1, StepSamePlaces
<1>4. CASE stop = "done"
  <2>1. \A a \in IP : Its(a)' \subseteq Its(a)
    BY <1>1, <1>4 DEF Its, LimitsInv, PoolTyped
  <2>2. \A a \in IP : Cardinality(Its(a)') \in Nat /\ Cardinality(Its(a)') <= Cardinality(Its(a))
    BY <2>1, PlacesFinite, FS_Subset, FS_CardinalityType
  <2>3. PlacesBounded'
    BY <2>2, PlacesFinite, StratumAssumption DEF LimitsInv, PlacesBounded
  <2> QED  BY <1>1, <1>2, <1>4, <2>3 DEF LimitsInv, Counted, SharesBounded
<1> QED  BY <1>3, <1>4

(* A submission is looked at only below the limit. *)
LEMMA StepSubmit ==
    ASSUME LimitsInv, NEW c \in Conn, Submit(c)
    PROVE  LimitsInv'
<1>1. /\ shares' = [shares EXCEPT ![IPOf[c]] = @ + 1]
      /\ UNCHANGED <<conn, todo, ipCounts, stop>>
      /\ \/ UNCHANGED handled
         \/ shares[IPOf[c]] < ShareLimit /\ handled' = [handled EXCEPT ![IPOf[c]] = @ + 1]
  BY DEF Submit, WithinLimit
<1>2. IPOf[c] \in IP
  BY DEF IP
<1>3. PoolTyped'
  BY <1>1, <1>2 DEF LimitsInv, PoolTyped
<1>4. SharesBounded'
  BY <1>1, <1>2, StratumAssumption DEF LimitsInv, PoolTyped, SharesBounded
<1>5. \A a \in IP : Its(a)' = Its(a)
  BY <1>1 DEF Its
<1> QED  BY <1>1, <1>3, <1>4, <1>5 DEF LimitsInv, Counted, PlacesBounded

(* Everything else leaves the places alone and counts no submission. *)
LEMMA StepOther ==
    ASSUME LimitsInv,
           \/ \E c \in Conn : Breaks(c) \/ HandleSubscribe(c) \/ NotifyMiner(c)
           \/ RefreshJob \/ ActivateJob \/ NewTip \/ StartServer \/ StopServer \/ StopCloses
           \/ UNCHANGED stratumvars
    PROVE  LimitsInv'
<1>1. UNCHANGED <<ipCounts, shares, handled>> /\ (stop = "done" => stop' = "done")
  BY DEF Breaks, HandleSubscribe, NotifyMiner, RefreshJob, ActivateJob, NewTip, StartServer,
         StopServer, StopCloses, stratumvars
<1>2. conn' \in [Conn -> {"new", "counted", "up", "closing", "closed"}]
  BY DEF Breaks, HandleSubscribe, NotifyMiner, RefreshJob, ActivateJob, NewTip, StartServer,
         StopServer, StopCloses, stratumvars, LimitsInv, PoolTyped
<1>3. todo' \subseteq Conn /\ stop' \in {"new", "no", "asked", "done"}
  BY DEF Breaks, HandleSubscribe, NotifyMiner, RefreshJob, ActivateJob, NewTip, StartServer,
         StopServer, StopCloses, stratumvars, LimitsInv, PoolTyped, Live
<1>4. \A d \in Conn : conn'[d] = conn[d] \/ (conn[d] = "up" /\ conn'[d] = "closing")
  <2>1. CASE \E c \in Conn : Breaks(c)
    BY <2>1 DEF Breaks, LimitsInv, PoolTyped
  <2>2. CASE StopCloses
    BY <2>2 DEF StopCloses, LimitsInv, PoolTyped
  <2>3. CASE UNCHANGED conn
    BY <2>3
  <2> QED
    BY <2>1, <2>2, <2>3 DEF HandleSubscribe, NotifyMiner, RefreshJob, ActivateJob, NewTip, StartServer,
       StopServer, stratumvars
<1>5. PoolTyped'
  BY <1>1, <1>2, <1>3 DEF LimitsInv, PoolTyped
<1>6. \A a \in IP : Its(a)' = Its(a)
  BY <1>4 DEF Its
<1> QED  BY <1>1, <1>5, <1>6, StepSamePlaces

LEMMA StepWindowPasses ==
    ASSUME LimitsInv, WindowPasses
    PROVE  LimitsInv'
<1>1. PICK a \in IP : shares' = [shares EXCEPT ![a] = 0] /\ handled' = [handled EXCEPT ![a] = 0]
  BY DEF WindowPasses
<1>2. UNCHANGED <<conn, todo, ipCounts, stop>>
  BY DEF WindowPasses
<1>3. PoolTyped'
  BY <1>1, <1>2 DEF LimitsInv, PoolTyped
<1>4. SharesBounded'
  BY <1>1, StratumAssumption DEF LimitsInv, PoolTyped, SharesBounded
<1>5. \A d \in IP : Its(d)' = Its(d)
  BY <1>2 DEF Its
<1> QED  BY <1>2, <1>3, <1>4, <1>5 DEF LimitsInv, Counted, PlacesBounded

LEMMA StepLimitsInv == LimitsInv /\ [StratumNext]_stratumvars => LimitsInv'
  BY StepAccept, StepRegister, StepHandlerEnds, StepSubmit, StepWindowPasses, StepOther
     DEF StratumNext

(* The limits hold at every interleaving of acceptLoop, the handlers and Stop.  *)
THEOREM LimitsAlwaysHold == StratumSpec => []LimitsHold
  BY InitLimits, StepLimitsInv, LimitsFollow, PTL DEF StratumSpec

-----------------------------------------------------------------------------
(* What mining software is told *)

Chains == Seq([by : Miner \cup {"peer"}, txs : SUBSET PoolTx])

CallFields == {"at", "id", "held", "prev", "txs", "block", "sent", "tries", "unsafe"}

CallTyped(w) ==
    /\ DOMAIN w = CallFields
    /\ w.prev \in Chains /\ w.block \in Chains /\ w.sent \in Chains
    /\ w.txs \subseteq PoolTx

WorkTyped ==
    /\ entries \subseteq PoolTx
    /\ DOMAIN work = Miner
    /\ \A c \in Miner : CallTyped(work[c])

(* The active chain is stored, block by block, and each of its blocks was *)
(* validated on the one before.                                           *)
ActiveStored ==
    /\ best \in Chains /\ stored \subseteq Chains /\ sides \subseteq Chains
    /\ \A y \in Branch(best) : y \in stored /\ Attaches(y)

(* A block is stored before submitblock says so, and only the call that *)
(* stored it will.                                                      *)
AnswersOwed ==
    /\ \A b \in DOMAIN accepted : accepted[b] = 1 /\ b \in stored
    /\ \A c \in Miner : work[c].at = "connected" =>
          /\ work[c].sent \in stored \ DOMAIN accepted
          /\ \A d \in Miner \ {c} : work[d].at = "connected" => work[d].sent # work[c].sent

ProposalChecked ==
    /\ proposal.block \in Chains
    /\ proposal.block # <<>> => Front(proposal.block) = proposal.on /\ Attaches(proposal.block)

WorkInv == WorkTyped /\ ActiveStored /\ AnswersOwed /\ ProposalChecked

LEMMA ChainPrefixes ==
    ASSUME NEW b \in Chains
    PROVE  /\ \A n \in 0 .. Len(b) : SubSeq(b, 1, n) \in Chains /\ Len(SubSeq(b, 1, n)) = n
           /\ \A n \in 0 .. Len(b) : \A m \in 0 .. n : SubSeq(SubSeq(b, 1, n), 1, m) = SubSeq(b, 1, m)
           /\ SubSeq(b, 1, Len(b)) = b
           /\ Len(b) \in Nat /\ (b # <<>> => Len(b) > 0)
<1> DEFINE S == [by : Miner \cup {"peer"}, txs : SUBSET PoolTx]
<1>0. b \in Seq(S)
  BY DEF Chains
<1> HIDE DEF S
<1>1. Len(b) \in Nat /\ (b # <<>> => Len(b) > 0) /\ DOMAIN b = 1 .. Len(b)
  BY <1>0
<1>2. \A n \in 0 .. Len(b) : /\ SubSeq(b, 1, n) \in Seq(S) /\ Len(SubSeq(b, 1, n)) = n
                             /\ \A i \in 1 .. n : SubSeq(b, 1, n)[i] = b[i]
  BY <1>0, <1>1
<1>3. \A n \in 0 .. Len(b) : \A m \in 0 .. n : SubSeq(SubSeq(b, 1, n), 1, m) = SubSeq(b, 1, m)
  <2> SUFFICES ASSUME NEW n \in 0 .. Len(b), NEW m \in 0 .. n
               PROVE  SubSeq(SubSeq(b, 1, n), 1, m) = SubSeq(b, 1, m)
    OBVIOUS
  <2> DEFINE p == SubSeq(b, 1, n)
  <2> DEFINE q == SubSeq(p, 1, m)
  <2> DEFINE r == SubSeq(b, 1, m)
  <2>1. p \in Seq(S) /\ Len(p) = n /\ \A i \in 1 .. n : p[i] = b[i]
    BY <1>2
  <2>2. r \in Seq(S) /\ Len(r) = m /\ \A i \in 1 .. m : r[i] = b[i]
    BY <1>1, <1>2
  <2> HIDE DEF p
  <2>3. q \in Seq(S) /\ Len(q) = m /\ \A i \in 1 .. m : q[i] = p[i]
    BY <1>1, <2>1
  <2> HIDE DEF q, r
  <2>4. \A i \in 1 .. m : q[i] = r[i]
    BY <1>1, <2>1, <2>2, <2>3
  <2>5. q = r
    BY <2>2, <2>3, <2>4, SeqEqual
  <2> QED  BY <2>5 DEF p, q, r
<1>4. SubSeq(b, 1, Len(b)) = b
  <2> DEFINE p == SubSeq(b, 1, Len(b))
  <2>1. p \in Seq(S) /\ Len(p) = Len(b) /\ \A i \in 1 .. Len(b) : p[i] = b[i]
    BY <1>1, <1>2
  <2> HIDE DEF p
  <2>2. p = b
    BY <2>1, <1>0, SeqEqual
  <2> QED  BY <2>2 DEF p
<1> QED  BY <1>1, <1>2, <1>3, <1>4 DEF Chains, S

LEMMA Branches ==
    ASSUME NEW b \in Chains
    PROVE  /\ Branch(b) \subseteq Chains
           /\ \A y \in Branch(b) : y \in Branch(y)
           /\ b # <<>> => /\ b \in Branch(b) /\ Front(b) \in Chains
                          /\ Branch(b) = Branch(Front(b)) \cup {b}
<1>1. Len(b) \in Nat /\ (b # <<>> => Len(b) > 0) /\ SubSeq(b, 1, Len(b)) = b
  BY ChainPrefixes
<1>2. Branch(b) \subseteq Chains
  <2>1. \A n \in 1 .. Len(b) : SubSeq(b, 1, n) \in Chains
    BY <1>1, ChainPrefixes
  <2> QED  BY <2>1 DEF Branch
<1>3. \A y \in Branch(b) : y \in Branch(y)
  <2> SUFFICES ASSUME NEW n \in 1 .. Len(b) PROVE SubSeq(b, 1, n) \in Branch(SubSeq(b, 1, n))
    BY DEF Branch
  <2> DEFINE y == SubSeq(b, 1, n)
  <2>1. y \in Chains /\ Len(y) = n
    BY <1>1, ChainPrefixes
  <2> HIDE DEF y
  <2>2. SubSeq(y, 1, Len(y)) = y
    BY <2>1, ChainPrefixes
  <2>3. y \in Branch(y)
    BY <1>1, <2>1, <2>2 DEF Branch
  <2> QED  BY <2>3 DEF y
<1>4. ASSUME b # <<>>
      PROVE  b \in Branch(b) /\ Front(b) \in Chains /\ Branch(b) = Branch(Front(b)) \cup {b}
  <2> DEFINE L == Len(b)
  <2>1. L \in Nat /\ L > 0
    BY <1>1, <1>4
  <2>2. Front(b) = SubSeq(b, 1, L - 1) /\ L - 1 \in 0 .. Len(b)
    BY <2>1 DEF Front
  <2>3. Front(b) \in Chains /\ Len(Front(b)) = L - 1
    BY <2>2, ChainPrefixes
  <2>4. \A m \in 0 .. L - 1 : SubSeq(Front(b), 1, m) = SubSeq(b, 1, m)
    BY <2>2, ChainPrefixes
  <2>5. Branch(Front(b)) = {SubSeq(b, 1, n) : n \in 1 .. L - 1}
    BY <2>1, <2>3, <2>4 DEF Branch
  <2>6. 1 .. L = (1 .. L - 1) \cup {L}
    BY <2>1
  <2>7. Branch(b) = {SubSeq(b, 1, n) : n \in 1 .. L}
    BY DEF Branch
  <2>8. SubSeq(b, 1, L) = b
    BY <1>1
  <2> HIDE DEF L
  <2>9. {SubSeq(b, 1, n) : n \in 1 .. L} = {SubSeq(b, 1, n) : n \in 1 .. L - 1} \cup {b}
    BY <2>6, <2>8
  <2> QED  BY <2>3, <2>5, <2>7, <2>9
<1> QED  BY <1>2, <1>3, <1>4

LEMMA Appended ==
    ASSUME NEW p \in Chains, NEW e \in [by : Miner \cup {"peer"}, txs : SUBSET PoolTx]
    PROVE  Append(p, e) \in Chains /\ Append(p, e) # <<>>
  BY DEF Chains

(* ProcessBlockWithResult keeps the active chain stored and validated, forgets *)
(* no block, and makes active only a block that was not stored before.         *)
LEMMA ProcessKeeps ==
    ASSUME ActiveStored, NEW b \in Chains, b # <<>>, ProcessBlock(b)
    PROVE  /\ ActiveStored'
           /\ stored \subseteq stored'
           /\ Activates(b) => b \in stored' \ stored
<1>1. b \in Branch(b) /\ Branch(b) \subseteq Chains /\ \A y \in Branch(b) : y \in Branch(y)
  BY Branches
<1>2. stored \subseteq stored' /\ stored' \subseteq Chains /\ sides' \subseteq Chains
  BY <1>1 DEF ProcessBlock, ActiveStored, Connectable, Path
<1>3. ASSUME Activates(b) PROVE b \in stored' \ stored /\ best' = b /\ \A y \in Branch(b) : y \in stored' /\ Attaches(y)
  <2>1. b \notin stored
    BY <1>3 DEF Activates, Tried, Heavier, Preview, HasBlock
  <2>2. Tried(b) /\ Connectable(b) = Path(b)
    BY <1>3 DEF Activates
  <2>3. best' = b /\ stored' = stored \cup Path(b)
    BY <1>3, <2>2 DEF ProcessBlock
  <2>4. \A y \in Path(b) : Attaches(y)
    BY <1>1, <2>2 DEF Connectable, Path
  <2>5. \A y \in Branch(b) \ Path(b) : y \in stored /\ Attaches(y)
    BY DEF Path, ActiveStored
  <2> QED  BY <1>1, <2>1, <2>3, <2>4, <2>5
<1>4. ASSUME ~Activates(b) PROVE best' = best
  BY <1>4 DEF ProcessBlock
<1>5. ActiveStored'
  BY <1>2, <1>3, <1>4 DEF ActiveStored, Branch, Attaches, ConfirmedIn
<1> QED  BY <1>2, <1>3, <1>5

(* A call that goes on with w leaves everybody else's where they were. *)
LEMMA OneCall ==
    ASSUME WorkTyped, NEW c \in Miner, NEW w, Set(c, w), CallTyped(w), entries' \subseteq PoolTx
    PROVE  WorkTyped' /\ work'[c] = w /\ \A d \in Miner \ {c} : work'[d] = work[d]
  BY DEF WorkTyped, Set, CallTyped

(* A step of a call that tells nobody anything. *)
LEMMA QuietStep ==
    ASSUME WorkInv, NEW c \in Miner, NEW w, Set(c, w), CallTyped(w), w.at # "connected",
           UNCHANGED <<chainvars, accepted, proposal>>, entries' \subseteq PoolTx
    PROVE  WorkInv'
<1>1. WorkTyped' /\ work'[c] = w /\ \A d \in Miner \ {c} : work'[d] = work[d]
  BY OneCall DEF WorkInv
<1>2. ActiveStored' /\ ProposalChecked'
  BY DEF WorkInv, ActiveStored, ProposalChecked, chainvars, Branch, Attaches, ConfirmedIn
<1>3. AnswersOwed'
  BY <1>1 DEF WorkInv, AnswersOwed, chainvars
<1> QED  BY <1>1, <1>2, <1>3 DEF WorkInv

(* The same, when the call also had a block processed. *)
LEMMA ChainStep ==
    ASSUME WorkInv, NEW c \in Miner, NEW w, Set(c, w), CallTyped(w), w.at # "connected",
           ActiveStored', stored \subseteq stored',
           UNCHANGED <<accepted, proposal>>, entries' \subseteq PoolTx
    PROVE  WorkInv'
<1>1. WorkTyped' /\ work'[c] = w /\ \A d \in Miner \ {c} : work'[d] = work[d]
  BY OneCall DEF WorkInv
<1>2. ProposalChecked'
  BY DEF WorkInv, ProposalChecked, Attaches, ConfirmedIn
<1>3. AnswersOwed'
  BY <1>1 DEF WorkInv, AnswersOwed
<1> QED  BY <1>1, <1>2, <1>3 DEF WorkInv

LEMMA SameCall ==
    ASSUME NEW w, CallTyped(w), NEW a
    PROVE  /\ CallTyped([w EXCEPT !.at = a]) /\ [w EXCEPT !.at = a].at = a
           /\ [w EXCEPT !.at = a].sent = w.sent /\ [w EXCEPT !.at = a].prev = w.prev
  BY DEF CallTyped, CallFields

LEMMA AnsweredCall ==
    ASSUME NEW c \in Miner, NEW w, CallTyped(w), Answered(c, w)
    PROVE  \E v : Set(c, v) /\ CallTyped(v) /\ v.at # "connected"
<1> DEFINE x == [w EXCEPT !.at = "idle"]
<1> DEFINE y == [x EXCEPT !.sent = <<>>]
<1> DEFINE v == [y EXCEPT !.tries = 0]
<1>1. [w EXCEPT !.at = "idle", !.sent = <<>>, !.tries = 0] = v
  OBVIOUS
<1>2. <<>> \in Chains
  BY DEF Chains
<1>3. CallTyped(x) /\ x.at = "idle"
  BY SameCall
<1> HIDE DEF x
<1>4. CallTyped(y) /\ y.at = "idle"
  BY <1>2, <1>3 DEF CallTyped, CallFields
<1> HIDE DEF y
<1>5. CallTyped(v) /\ v.at = "idle"
  BY <1>4 DEF CallTyped, CallFields
<1> QED  BY <1>1, <1>5 DEF Answered

(* The steps of the calls that only read, and the caller's own work. *)
LEMMA ReadingKeeps ==
    ASSUME WorkInv, NEW c \in Miner,
           \/ AskTemplate(c) \/ PollEnds(c) \/ ReadTip(c) \/ ReadPool(c) \/ Answer(c) \/ Solve(c)
           \/ Generate(c) \/ GenerateTemplate(c) \/ GenerateFinds(c) \/ SendRaw(c)
    PROVE  WorkInv'
<1> DEFINE w == work[c]
<1>0. CallTyped(w) /\ best \in Chains /\ entries \subseteq PoolTx
  BY DEF WorkInv, WorkTyped, ActiveStored
<1> HIDE DEF w
<1>1. ASSUME NEW v, Set(c, v), CallTyped(v), v.at # "connected",
             UNCHANGED <<chainvars, entries, accepted, proposal>>
      PROVE  WorkInv'
  BY <1>0, <1>1, QuietStep
<1>2. ASSUME NEW v, Answered(c, v), CallTyped(v), UNCHANGED <<chainvars, accepted, proposal>>,
             entries' \subseteq PoolTx
      PROVE  WorkInv'
  BY <1>2, AnsweredCall, QuietStep
<1>3. CASE AskTemplate(c)
  <2>1. /\ Set(c, [w EXCEPT !.at = "build"]) \/ Set(c, [w EXCEPT !.at = "polling"])
        /\ UNCHANGED <<chainvars, entries, accepted, proposal>>
    BY <1>3 DEF AskTemplate, w
  <2> QED  BY <1>0, <1>1, <2>1, SameCall
<1>4. CASE PollEnds(c)
  BY <1>0, <1>1, <1>4, SameCall DEF PollEnds, w
<1>5. CASE ReadTip(c)
  <2> DEFINE x == [w EXCEPT !.at = "pool"]
  <2> DEFINE y == [x EXCEPT !.prev = best]
  <2> DEFINE v == [y EXCEPT !.held = FALSE]
  <2> DEFINE u == [w EXCEPT !.unsafe = TRUE]
  <2>1. CallTyped(x) /\ x.at = "pool"
    BY <1>0, SameCall
  <2>2. CallTyped(u)
    BY <1>0 DEF CallTyped, CallFields
  <2>3. [w EXCEPT !.at = "pool", !.prev = best, !.held = FALSE] = v
    OBVIOUS
  <2>4. /\ Set(c, v) \/ Answered(c, u)
        /\ UNCHANGED <<chainvars, entries, accepted, proposal>>
    BY <1>5, <2>3 DEF ReadTip, w
  <2> HIDE DEF x, u
  <2>5. CallTyped(y) /\ y.at = "pool"
    BY <1>0, <2>1 DEF CallTyped, CallFields
  <2> HIDE DEF y
  <2>6. CallTyped(v) /\ v.at = "pool"
    BY <2>5 DEF CallTyped, CallFields
  <2> HIDE DEF v
  <2> QED  BY <1>0, <1>1, <1>2, <2>2, <2>4, <2>6
<1>6. CASE ReadPool(c)
  <2> DEFINE x == [w EXCEPT !.at = "id"]
  <2> DEFINE v == [x EXCEPT !.txs = entries \ ConfirmedIn(best)]
  <2>1. CallTyped(x) /\ x.at = "id"
    BY <1>0, SameCall
  <2>2. [w EXCEPT !.at = "id", !.txs = entries \ ConfirmedIn(best)] = v
    OBVIOUS
  <2>3. Set(c, v) /\ UNCHANGED <<chainvars, entries, accepted, proposal>>
    BY <1>6, <2>2 DEF ReadPool, w
  <2> HIDE DEF x
  <2>4. CallTyped(v) /\ v.at = "id"
    BY <1>0, <2>1 DEF CallTyped, CallFields
  <2> HIDE DEF v
  <2> QED  BY <1>1, <2>3, <2>4
<1>7. CASE Answer(c)
  <2> DEFINE x == [w EXCEPT !.id = <<LongPollID>>]
  <2> DEFINE y == [x EXCEPT !.held = TRUE]
  <2> DEFINE v == [y EXCEPT !.unsafe = FALSE]
  <2>1. [w EXCEPT !.id = <<LongPollID>>, !.held = TRUE, !.unsafe = FALSE] = v
    OBVIOUS
  <2>2. Answered(c, v) /\ UNCHANGED <<chainvars, entries, accepted, proposal>>
    BY <1>7, <2>1 DEF Answer, w
  <2>3. CallTyped(x)
    BY <1>0 DEF CallTyped, CallFields
  <2> HIDE DEF x
  <2>4. CallTyped(y)
    BY <2>3 DEF CallTyped, CallFields
  <2> HIDE DEF y
  <2>5. CallTyped(v)
    BY <2>4 DEF CallTyped, CallFields
  <2> HIDE DEF v
  <2> QED  BY <1>0, <1>2, <2>2, <2>5
<1>8. CASE Solve(c)
  <2>1. PICK txs \in SUBSET PoolTx :
           LET b == Append(w.prev, [by |-> c, txs |-> txs])
           IN  Set(c, [w EXCEPT !.block = b, !.held = FALSE, !.txs = {}])
    BY <1>8 DEF Solve, w
  <2> DEFINE b == Append(w.prev, [by |-> c, txs |-> txs])
  <2> DEFINE x == [w EXCEPT !.block = b]
  <2> DEFINE y == [x EXCEPT !.held = FALSE]
  <2> DEFINE v == [y EXCEPT !.txs = {}]
  <2>2. [w EXCEPT !.block = b, !.held = FALSE, !.txs = {}] = v
    OBVIOUS
  <2>3. w.at = "idle" /\ UNCHANGED <<chainvars, entries, accepted, proposal>>
    BY <1>8 DEF Solve, w
  <2>4. b \in Chains
    BY <1>0, Appended DEF CallTyped
  <2>5. Set(c, v)
    BY <2>1, <2>2
  <2> HIDE DEF b
  <2>6. CallTyped(x) /\ x.at = "idle"
    BY <1>0, <2>3, <2>4 DEF CallTyped, CallFields
  <2> HIDE DEF x
  <2>7. CallTyped(y) /\ y.at = "idle"
    BY <2>6 DEF CallTyped, CallFields
  <2> HIDE DEF y
  <2>8. CallTyped(v) /\ v.at = "idle"
    BY <2>7 DEF CallTyped, CallFields
  <2> HIDE DEF v
  <2> QED  BY <1>1, <2>3, <2>5, <2>8
<1>9. CASE Generate(c)
  <2> DEFINE x == [w EXCEPT !.at = "template"]
  <2> DEFINE y == [x EXCEPT !.held = FALSE]
  <2> DEFINE v == [y EXCEPT !.tries = 1]
  <2>1. [w EXCEPT !.at = "template", !.held = FALSE, !.tries = 1] = v
    OBVIOUS
  <2>2. /\ Set(c, v) \/ Answered(c, w)
        /\ UNCHANGED <<chainvars, entries, accepted, proposal>>
    BY <1>9, <2>1 DEF Generate, w
  <2>3. CallTyped(x) /\ x.at = "template"
    BY <1>0, SameCall
  <2> HIDE DEF x
  <2>4. CallTyped(y) /\ y.at = "template"
    BY <2>3 DEF CallTyped, CallFields
  <2> HIDE DEF y
  <2>5. CallTyped(v) /\ v.at = "template"
    BY <2>4 DEF CallTyped, CallFields
  <2> HIDE DEF v
  <2> QED  BY <1>0, <1>1, <1>2, <2>2, <2>5
<1>10. CASE GenerateTemplate(c)
  <2> DEFINE x == [w EXCEPT !.at = "mining"]
  <2> DEFINE y == [x EXCEPT !.prev = best]
  <2> DEFINE v == [y EXCEPT !.txs = entries \ ConfirmedIn(best)]
  <2>1. [w EXCEPT !.at = "mining", !.prev = best, !.txs = entries \ ConfirmedIn(best)] = v
    OBVIOUS
  <2>2. /\ Set(c, v) \/ Answered(c, w)
        /\ UNCHANGED <<chainvars, entries, accepted, proposal>>
    BY <1>10, <2>1 DEF GenerateTemplate, w
  <2>3. CallTyped(x) /\ x.at = "mining"
    BY <1>0, SameCall
  <2> HIDE DEF x
  <2>4. CallTyped(y) /\ y.at = "mining"
    BY <1>0, <2>3 DEF CallTyped, CallFields
  <2> HIDE DEF y
  <2>5. CallTyped(v) /\ v.at = "mining"
    BY <1>0, <2>4 DEF CallTyped, CallFields
  <2> HIDE DEF v
  <2> QED  BY <1>0, <1>1, <1>2, <2>2, <2>5
<1>11. CASE GenerateFinds(c)
  <2>1. /\ Set(c, [w EXCEPT !.at = "found"]) \/ Answered(c, w)
        /\ UNCHANGED <<chainvars, entries, accepted, proposal>>
    BY <1>11 DEF GenerateFinds, w
  <2> QED  BY <1>0, <1>1, <1>2, <2>1, SameCall
<1>12. CASE SendRaw(c)
  <2>1. Answered(c, w) /\ UNCHANGED <<chainvars, accepted, proposal>> /\ entries' \subseteq PoolTx
    BY <1>0, <1>12 DEF SendRaw, w
  <2> QED  BY <1>0, <1>2, <2>1
<1> QED  BY <1>3, <1>4, <1>5, <1>6, <1>7, <1>8, <1>9, <1>10, <1>11, <1>12

LEMMA SubmitKeeps == ASSUME WorkInv, NEW c \in Miner, SubmitBlock(c) PROVE WorkInv'
<1> DEFINE w == work[c]
<1>0. CallTyped(w) /\ entries' \subseteq PoolTx /\ UNCHANGED <<entries, accepted, proposal>>
  BY DEF WorkInv, WorkTyped, SubmitBlock
<1> HIDE DEF w
<1>1. PICK b \in Solved :
         /\ ProcessBlock(b)
         /\ IF Reply(b) = "null" THEN Set(c, [w EXCEPT !.at = "connected", !.sent = b])
            ELSE Answered(c, w)
  BY DEF SubmitBlock, w
<1>2. b \in Chains /\ b # <<>>
  BY DEF Solved, WorkInv, WorkTyped, CallTyped
<1>3. ActiveStored' /\ stored \subseteq stored' /\ (Activates(b) => b \in stored' \ stored)
  BY <1>1, <1>2, ProcessKeeps DEF WorkInv
<1>4. CASE Reply(b) # "null"
  BY <1>0, <1>1, <1>3, <1>4, AnsweredCall, ChainStep
<1>5. CASE Reply(b) = "null"
  <2> DEFINE x == [w EXCEPT !.at = "connected"]
  <2> DEFINE v == [x EXCEPT !.sent = b]
  <2>1. [w EXCEPT !.at = "connected", !.sent = b] = v
    OBVIOUS
  <2>2. Set(c, v)
    BY <1>1, <1>5, <2>1
  <2>3. CallTyped(x) /\ x.at = "connected"
    BY <1>0, SameCall
  <2> HIDE DEF x
  <2>4. CallTyped(v) /\ v.at = "connected" /\ v.sent = b
    BY <1>2, <2>3 DEF CallTyped, CallFields
  <2> HIDE DEF v
  <2>5. WorkTyped' /\ work'[c] = v /\ \A d \in Miner \ {c} : work'[d] = work[d]
    BY <1>0, <2>2, <2>4, OneCall DEF WorkInv
  <2>6. b \in stored' \ stored
    BY <1>3, <1>5 DEF Reply, Preview
  <2>7. b \notin DOMAIN accepted
    BY <2>6 DEF WorkInv, AnswersOwed
  <2>8. AnswersOwed'
    BY <1>0, <1>3, <2>4, <2>5, <2>6, <2>7 DEF WorkInv, AnswersOwed
  <2>9. ProposalChecked'
    BY <1>0 DEF WorkInv, ProposalChecked, Attaches, ConfirmedIn
  <2> QED  BY <1>3, <2>5, <2>8, <2>9 DEF WorkInv
<1> QED  BY <1>4, <1>5

LEMMA ReconcileKeeps == ASSUME WorkInv, NEW c \in Miner, Reconcile(c) PROVE WorkInv'
<1> DEFINE w == work[c]
<1> DEFINE b == w.sent
<1>0. CallTyped(w) /\ w.at = "connected"
  BY DEF WorkInv, WorkTyped, Reconcile
<1>1. /\ entries' \subseteq PoolTx
      /\ accepted' = accepted (+) SetToBag({b})
      /\ Answered(c, w) /\ UNCHANGED <<chainvars, proposal>>
  BY DEF WorkInv, WorkTyped, Reconcile
<1>2. b \in stored \ DOMAIN accepted
  BY <1>0 DEF WorkInv, AnswersOwed
<1>3. \A d \in Miner \ {c} : work[d].at = "connected" => work[d].sent # b
  BY <1>0 DEF WorkInv, AnswersOwed
<1> HIDE DEF w, b
<1>4. PICK v : Set(c, v) /\ CallTyped(v) /\ v.at # "connected"
  BY <1>0, <1>1, AnsweredCall
<1>5. WorkTyped' /\ work'[c] = v /\ \A d \in Miner \ {c} : work'[d] = work[d]
  BY <1>1, <1>4, OneCall DEF WorkInv
<1>6. DOMAIN accepted' = DOMAIN accepted \cup {b} /\ accepted'[b] = 1
  BY <1>1, <1>2 DEF (+), SetToBag
<1>7. \A e \in DOMAIN accepted : accepted[e] = 1 /\ e # b
  BY <1>2 DEF WorkInv, AnswersOwed
<1>8. \A e \in DOMAIN accepted : accepted'[e] = 1
  BY <1>1, <1>7 DEF (+), SetToBag
<1>9. AnswersOwed'
  <2>1. AnswersOwed /\ stored' = stored
    BY <1>1 DEF WorkInv, chainvars
  <2>2. \A e \in DOMAIN accepted' : accepted'[e] = 1 /\ e \in stored'
    BY ONLY <1>2, <1>6, <1>8, <2>1 DEF AnswersOwed
  <2>3. ASSUME NEW d \in Miner, work'[d].at = "connected"
        PROVE  d # c /\ work'[d] = work[d] /\ work[d].sent # b
    BY ONLY <1>3, <1>4, <1>5, <2>3
  <2>4. ASSUME NEW d \in Miner, work'[d].at = "connected"
        PROVE  /\ work'[d].sent \in stored' \ DOMAIN accepted'
               /\ \A e \in Miner \ {d} : work'[e].at = "connected" => work'[e].sent # work'[d].sent
    BY ONLY <1>6, <2>1, <2>3, <2>4 DEF AnswersOwed
  <2> QED  BY ONLY <2>2, <2>4 DEF AnswersOwed
<1>10. ActiveStored' /\ ProposalChecked'
  BY <1>1 DEF WorkInv, ActiveStored, ProposalChecked, chainvars, Branch, Attaches, ConfirmedIn
<1> QED  BY <1>5, <1>9, <1>10 DEF WorkInv

LEMMA ProposeKeeps == ASSUME WorkInv, NEW c \in Miner, Propose(c) PROVE WorkInv'
<1>1. PICK b \in Solved :
         /\ proposal' = IF Proposed(b) = "none" THEN [block |-> b, on |-> best] ELSE proposal
         /\ Answered(c, work[c])
  BY DEF Propose
<1>2. b \in Chains /\ CallTyped(work[c]) /\ entries' \subseteq PoolTx /\ UNCHANGED <<chainvars, accepted>>
  BY DEF Solved, WorkInv, WorkTyped, CallTyped, Propose
<1>3. PICK v : Set(c, v) /\ CallTyped(v) /\ v.at # "connected"
  BY <1>1, <1>2, AnsweredCall
<1>4. WorkTyped' /\ work'[c] = v /\ \A d \in Miner \ {c} : work'[d] = work[d]
  BY <1>2, <1>3, OneCall DEF WorkInv
<1>5. AnswersOwed' /\ ActiveStored'
  BY <1>2, <1>3, <1>4 DEF WorkInv, AnswersOwed, ActiveStored, chainvars, Branch, Attaches, ConfirmedIn
<1>6. ProposalChecked'
  <2>1. CASE Proposed(b) = "none"
    <3>1. Front(b) = best /\ Attaches(b)
      BY <2>1 DEF Proposed, Preview
    <3>2. proposal'.block = b /\ proposal'.on = best
      BY <1>1, <2>1
    <3> QED  BY <1>2, <3>1, <3>2 DEF ProposalChecked, Attaches, ConfirmedIn
  <2>2. CASE Proposed(b) # "none"
    BY <1>1, <2>2 DEF WorkInv, ProposalChecked, Attaches, ConfirmedIn
  <2> QED  BY <2>1, <2>2
<1> QED  BY <1>4, <1>5, <1>6 DEF WorkInv

LEMMA GenerateConnectsKeeps == ASSUME WorkInv, NEW c \in Miner, GenerateConnects(c) PROVE WorkInv'
<1> DEFINE w == work[c]
<1> DEFINE b == Append(w.prev, [by |-> c, txs |-> w.txs])
<1>0. CallTyped(w) /\ UNCHANGED <<accepted, proposal>> /\ b = Mined(c)
  BY DEF WorkInv, WorkTyped, GenerateConnects, Mined
<1>1. b \in Chains /\ b # <<>>
  BY <1>0, Appended DEF CallTyped
<1>2. CASE w.prev = best
  <2>1. /\ ProcessBlock(b) /\ entries' \subseteq entries
        /\ Answered(c, [w EXCEPT !.txs = {}])
    BY <1>0, <1>2 DEF GenerateConnects
  <2>2. ActiveStored' /\ stored \subseteq stored'
    BY <1>1, <2>1, ProcessKeeps DEF WorkInv
  <2>3. CallTyped([w EXCEPT !.txs = {}]) /\ entries' \subseteq PoolTx
    BY <1>0, <2>1 DEF CallTyped, CallFields, WorkInv, WorkTyped
  <2> QED  BY <1>0, <2>1, <2>2, <2>3, AnsweredCall, ChainStep
<1>3. CASE w.prev # best
  <2> DEFINE x == [w EXCEPT !.at = "template"]
  <2> DEFINE v == [x EXCEPT !.tries = w.tries + 1]
  <2>1. [w EXCEPT !.at = "template", !.tries = @ + 1] = v
    OBVIOUS
  <2>2. /\ UNCHANGED <<chainvars, entries>>
        /\ Set(c, v) \/ Answered(c, w)
    BY <1>3, <2>1 DEF GenerateConnects
  <2>3. CallTyped(x) /\ x.at = "template"
    BY <1>0, SameCall
  <2> HIDE DEF x
  <2>4. CallTyped(v) /\ v.at = "template"
    BY <2>3 DEF CallTyped, CallFields
  <2>5. entries' \subseteq PoolTx
    BY <2>2 DEF WorkInv, WorkTyped
  <2> HIDE DEF v, w, b
  <2> QED  BY <1>0, <2>2, <2>4, <2>5, AnsweredCall, QuietStep
<1> QED  BY <1>2, <1>3

LEMMA DisconnectKeeps == ASSUME WorkInv, NEW c \in Miner, disconnecttip(c) PROVE WorkInv'
<1>0. /\ CallTyped(work[c]) /\ best \in Chains /\ best # <<>> /\ best' = Front(best) /\ Answered(c, work[c])
      /\ UNCHANGED <<stored, sides, entries, accepted, proposal>>
  BY DEF WorkInv, WorkTyped, ActiveStored, disconnecttip
<1>1. best' \in Chains /\ Branch(best') \subseteq Branch(best)
  BY <1>0, Branches
<1>2. ActiveStored'
  BY <1>0, <1>1 DEF WorkInv, ActiveStored, Branch, Attaches, ConfirmedIn
<1>3. entries' \subseteq PoolTx
  BY <1>0 DEF WorkInv, WorkTyped
<1> QED  BY <1>0, <1>2, <1>3, AnsweredCall, ChainStep

LEMMA PeerBlockKeeps == ASSUME WorkInv, PeerBlock PROVE WorkInv'
<1>1. PICK p \in Known, txs \in SUBSET PoolTx :
         LET b == Append(p, [by |-> "peer", txs |-> txs])
         IN  /\ ProcessBlock(b)
             /\ entries' = IF Activates(b) THEN entries \ txs ELSE entries
  BY DEF PeerBlock
<1> DEFINE b == Append(p, [by |-> "peer", txs |-> txs])
<1>2. p \in Chains /\ UNCHANGED <<work, accepted, proposal>>
  BY DEF WorkInv, ActiveStored, Known, PeerBlock
<1>3. b \in Chains /\ b # <<>>
  BY <1>2, Appended
<1>4. ProcessBlock(b) /\ entries' \subseteq entries
  BY <1>1
<1> HIDE DEF b
<1>5. ActiveStored' /\ stored \subseteq stored'
  BY <1>3, <1>4, ProcessKeeps DEF WorkInv
<1>6. WorkTyped' /\ AnswersOwed' /\ ProposalChecked'
  BY <1>2, <1>4, <1>5 DEF WorkInv, WorkTyped, AnswersOwed, ProposalChecked, Attaches, ConfirmedIn
<1> QED  BY <1>5, <1>6 DEF WorkInv

(* Whatever callers, peers and the operator do to the chain in between, no     *)
(* block is answered null for twice, and what validateblockproposal accepts is *)
(* accepted by submitblock while the tip is the same.                          *)
THEOREM MinersToldTrue == WorkSpec => [](AcceptedOnce /\ ProposalHolds)
<1>1. WorkInit => WorkInv
  <2> SUFFICES ASSUME WorkInit PROVE WorkInv
    OBVIOUS
  <2>1. <<>> \in Chains
    BY DEF Chains
  <2>2. CallTyped(NoCall) /\ NoCall.at = "idle"
    BY <2>1 DEF CallTyped, CallFields, NoCall
  <2>3. WorkTyped
    BY <2>2 DEF WorkInit, WorkTyped
  <2>4. Branch(best) = {}
    BY DEF WorkInit, Branch
  <2>5. ActiveStored
    BY <2>1, <2>4 DEF WorkInit, ActiveStored
  <2>6. DOMAIN accepted = {}
    BY DEF WorkInit, EmptyBag, SetToBag
  <2>7. AnswersOwed
    BY <2>2, <2>6 DEF WorkInit, AnswersOwed
  <2>8. ProposalChecked
    BY <2>1 DEF WorkInit, ProposalChecked
  <2> QED  BY <2>3, <2>5, <2>7, <2>8 DEF WorkInv
<1>2. WorkInv /\ [(WorkNext /\ UNCHANGED bucket) \/ (LimitNext /\ UNCHANGED workvars)]_wvars => WorkInv'
  <2>1. ASSUME WorkInv, UNCHANGED workvars PROVE WorkInv'
    BY <2>1 DEF WorkInv, workvars, chainvars, WorkTyped, ActiveStored, AnswersOwed, ProposalChecked,
                Branch, Attaches, ConfirmedIn
  <2>2. ASSUME WorkInv, WorkNext PROVE WorkInv'
    BY <2>1, <2>2, ReadingKeeps, SubmitKeeps, ReconcileKeeps, ProposeKeeps, GenerateConnectsKeeps,
       DisconnectKeeps, PeerBlockKeeps DEF WorkNext, TooBusy, Steps
  <2> QED  BY <2>1, <2>2 DEF wvars
<1>3. WorkInv => AcceptedOnce /\ ProposalHolds
  <2> SUFFICES ASSUME WorkInv PROVE AcceptedOnce /\ ProposalHolds
    OBVIOUS
  <2>1. AcceptedOnce
    BY DEF WorkInv, AnswersOwed, AcceptedOnce, BagToSet
  <2>2. ASSUME proposal.block # <<>>, best = proposal.on
        PROVE  Reply(proposal.block) \in {"null", "duplicate"}
    <3> DEFINE b == proposal.block
    <3>1. b \in Chains /\ b # <<>> /\ Front(b) = best /\ Attaches(b)
      BY <2>2 DEF WorkInv, ProposalChecked
    <3> HIDE DEF b
    <3>2. CASE HasBlock(b)
      BY <3>2 DEF Reply, Activates, Tried, Heavier, Preview, b
    <3>3. CASE ~HasBlock(b)
      <4>1. Tried(b)
        BY <3>1, <3>3 DEF Tried, Preview
      <4>2. Branch(b) = Branch(best) \cup {b}
        BY <3>1, Branches
      <4>3. b \notin Branch(best) /\ \A y \in Branch(best) : Attaches(y)
        BY <3>3 DEF WorkInv, ActiveStored, HasBlock
      <4>4. Connectable(b) = Path(b)
        BY <3>1, <4>2, <4>3 DEF Connectable, Path
      <4> QED  BY <4>1, <4>4 DEF Reply, Activates, b
    <3> QED  BY <3>2, <3>3
  <2> QED  BY <2>1, <2>2 DEF ProposalHolds
<1> QED  BY <1>1, <1>2, <1>3, PTL DEF WorkSpec

-----------------------------------------------------------------------------
(* The rate limit *)

Least(a, b) == IF a < b THEN a ELSE b
FullCredit == 2 * MaxTokens + 1

(* What the bucket will have granted when the time passed is counted, in half tokens. *)
Funds == 2 * bucket.tokens + bucket.age

Buckets == [tokens : 0 .. MaxTokens, age : 0 .. IdleLimit + 2, cleaner : {"away", "stale"},
            credit : Int, last : {"none", "granted", "refused"}]

(* The balance and the funds differ by no more than a half token one way, and  *)
(* one bucket the other way, which a bucket about to be deleted still has to   *)
(* give.                                                                       *)
BucketInv ==
    /\ bucket \in Buckets
    /\ bucket.credit >= Least(FullCredit, Funds - 2 * MaxTokens)
    /\ bucket.cleaner = "stale" => bucket.credit >= Least(FullCredit, Funds)
    /\ bucket.credit <= Funds + 1
    /\ bucket.credit <= FullCredit
    /\ bucket.last = "refused" => bucket.credit <= 2

LEMMA MinOfTwo ==
    ASSUME NEW a \in Int, NEW b \in Int
    PROVE  Min({a, b}) = Least(a, b)
<1> DEFINE m == Least(a, b)
<1> DEFINE Lowest(x) == \A y \in {a, b} : x =< y
<1>1. m \in {a, b} /\ Lowest(m)
  BY DEF Least
<1>2. \A x \in {a, b} : Lowest(x) => x = m
  BY DEF Least
<1>3. Min({a, b}) = CHOOSE x \in {a, b} : Lowest(x)
  BY DEF Min
<1> HIDE DEF m, Lowest
<1>4. (CHOOSE x \in {a, b} : Lowest(x)) = m
  BY <1>1, <1>2
<1> QED  BY <1>3, <1>4 DEF m

LEMMA HalfSeconds ==
    ASSUME NEW a \in Nat
    PROVE  a \div 2 \in Nat /\ a % 2 \in 0 .. 1 /\ a = 2 * (a \div 2) + (a % 2)
  OBVIOUS

(* What a bucket's time buys, up to its size. *)
LEMMA RefillKeeps ==
    ASSUME BucketInv
    PROVE  /\ Refill(bucket) = [bucket EXCEPT !.tokens = Refill(bucket).tokens, !.age = Refill(bucket).age]
           /\ Refill(bucket).tokens \in 0 .. MaxTokens /\ Refill(bucket).age \in 0 .. 1
           /\ Refill(bucket).age <= bucket.age
           /\ 2 * Refill(bucket).tokens + Refill(bucket).age = Least(Funds, 2 * MaxTokens + Refill(bucket).age)
<1> DEFINE d == bucket.age \div 2
<1> DEFINE e == bucket.age % 2
<1>0. MaxTokens \in Nat /\ bucket.tokens \in 0 .. MaxTokens /\ bucket.age \in Nat /\ bucket \in Buckets
  BY WorkAssumption DEF BucketInv, Buckets
<1>1. d \in Nat /\ e \in 0 .. 1 /\ bucket.age = 2 * d + e
  BY <1>0, HalfSeconds
<1> HIDE DEF d, e
<1>2. Min({MaxTokens, bucket.tokens + d}) = Least(MaxTokens, bucket.tokens + d)
  BY <1>0, <1>1, MinOfTwo
<1>3. Refill(bucket) = [bucket EXCEPT !.tokens = Least(MaxTokens, bucket.tokens + d), !.age = e]
  BY <1>2 DEF Refill, d, e
<1>4. Refill(bucket).tokens = Least(MaxTokens, bucket.tokens + d) /\ Refill(bucket).age = e
  BY <1>0, <1>3 DEF Buckets
<1>5. Refill(bucket) = [bucket EXCEPT !.tokens = Refill(bucket).tokens, !.age = Refill(bucket).age]
  BY <1>3, <1>4
<1> QED  BY <1>0, <1>1, <1>4, <1>5 DEF Least, Funds

LEMMA TickKeeps == ASSUME BucketInv, Tick PROVE BucketInv'
<1>0. MaxTokens \in Nat /\ IdleLimit \in Nat /\ bucket \in Buckets
  BY WorkAssumption DEF BucketInv
<1> DEFINE age == Least(bucket.age + 1, IdleLimit + 2)
<1> DEFINE credit == IF bucket.credit > 2 * MaxTokens THEN bucket.credit ELSE bucket.credit + 1
<1>1. Min({bucket.age + 1, IdleLimit + 2}) = age
  BY <1>0, MinOfTwo DEF Buckets
<1>2. bucket' = [tokens |-> bucket.tokens, age |-> age, cleaner |-> bucket.cleaner,
                 credit |-> credit, last |-> "none"]
  BY <1>0, <1>1 DEF Tick, Buckets
<1>3. /\ bucket'.tokens = bucket.tokens /\ bucket'.age = age /\ bucket'.cleaner = bucket.cleaner
      /\ bucket'.credit = credit /\ bucket'.last = "none"
  BY <1>2
<1>4. age \in 0 .. IdleLimit + 2 /\ credit \in Int
  BY <1>0 DEF Buckets, Least
<1>5. bucket' \in Buckets
  BY <1>0, <1>2, <1>4 DEF Buckets
<1>6. /\ bucket.tokens \in 0 .. MaxTokens /\ bucket.age \in 0 .. IdleLimit + 2 /\ bucket.credit \in Int
  BY <1>0 DEF Buckets
<1>7. IdleLimit >= 4 * MaxTokens
  BY WorkAssumption
<1>8. BucketInv => /\ bucket.credit >= Least(FullCredit, Funds - 2 * MaxTokens)
                   /\ bucket.cleaner = "stale" => bucket.credit >= Least(FullCredit, Funds)
                   /\ bucket.credit <= Funds + 1 /\ bucket.credit <= FullCredit
  BY DEF BucketInv
<1>9. Funds' = 2 * bucket.tokens + age
  BY <1>3 DEF Funds
<1>10. /\ credit >= Least(FullCredit, Funds' - 2 * MaxTokens)
       /\ credit <= Funds' + 1 /\ credit <= FullCredit
  BY <1>0, <1>6, <1>7, <1>8, <1>9 DEF Least, FullCredit, Funds
<1>11. bucket.cleaner = "stale" => credit >= Least(FullCredit, Funds')
  BY <1>0, <1>6, <1>7, <1>8, <1>9 DEF Least, FullCredit, Funds
<1> QED  BY <1>3, <1>5, <1>10, <1>11 DEF BucketInv, FullCredit

LEMMA AllowKeeps == ASSUME BucketInv, Allow PROVE BucketInv'
<1> DEFINE full == Refill(bucket)
<1>0. MaxTokens \in Nat /\ IdleLimit \in Nat /\ bucket \in Buckets
  BY WorkAssumption DEF BucketInv
<1>1. /\ full = [bucket EXCEPT !.tokens = full.tokens, !.age = full.age]
      /\ full.tokens \in 0 .. MaxTokens /\ full.age \in 0 .. 1 /\ full.age <= bucket.age
      /\ 2 * full.tokens + full.age = Least(Funds, 2 * MaxTokens + full.age)
  BY RefillKeeps
<1>2. bucket' = IF full.tokens > 0
                THEN [full EXCEPT !.tokens = full.tokens - 1, !.credit = full.credit - 2, !.last = "granted"]
                ELSE [full EXCEPT !.last = "refused"]
  BY DEF Allow
<1> HIDE DEF full
<1>3. /\ full.cleaner = bucket.cleaner /\ full.credit = bucket.credit /\ full.last = bucket.last
      /\ full \in Buckets
  <2> DEFINE n == full.tokens
  <2> DEFINE g == full.age
  <2>1. full = [bucket EXCEPT !.tokens = n, !.age = g] /\ n \in 0 .. MaxTokens /\ g \in 0 .. IdleLimit + 2
    BY <1>0, <1>1
  <2> HIDE DEF n, g
  <2>2. full = [tokens |-> n, age |-> g, cleaner |-> bucket.cleaner, credit |-> bucket.credit,
                last |-> bucket.last]
    BY <1>0, <2>1 DEF Buckets
  <2> QED  BY <1>0, <2>1, <2>2 DEF Buckets
<1>4. /\ bucket.tokens \in 0 .. MaxTokens /\ bucket.age \in 0 .. IdleLimit + 2 /\ bucket.credit \in Int
  BY <1>0 DEF Buckets
<1>5. /\ bucket.credit >= Least(FullCredit, Funds - 2 * MaxTokens)
      /\ bucket.cleaner = "stale" => bucket.credit >= Least(FullCredit, Funds)
      /\ bucket.credit <= Funds + 1 /\ bucket.credit <= FullCredit
  BY DEF BucketInv
<1>6. CASE full.tokens > 0
  <2>1. bucket' = [tokens |-> full.tokens - 1, age |-> full.age, cleaner |-> full.cleaner,
                   credit |-> full.credit - 2, last |-> "granted"]
    BY <1>2, <1>3, <1>6 DEF Buckets
  <2>2. /\ bucket'.tokens = full.tokens - 1 /\ bucket'.age = full.age /\ bucket'.cleaner = bucket.cleaner
        /\ bucket'.credit = bucket.credit - 2 /\ bucket'.last = "granted"
    BY <2>1, <1>3
  <2>3. full.tokens - 1 \in 0 .. MaxTokens /\ full.age \in 0 .. IdleLimit + 2 /\ full.credit - 2 \in Int
    BY <1>0, <1>1, <1>3, <1>4, <1>6
  <2>4. bucket' \in Buckets
    BY <2>1, <2>3, <1>3 DEF Buckets
  <2>5. Funds' = 2 * (full.tokens - 1) + full.age
    BY <2>2 DEF Funds
  <2>6. /\ bucket.credit - 2 >= Least(FullCredit, Funds' - 2 * MaxTokens)
        /\ bucket.credit - 2 <= Funds' + 1 /\ bucket.credit - 2 <= FullCredit
    <3> DEFINE n == full.tokens
    <3> DEFINE g == full.age
    <3> DEFINE c == bucket.credit
    <3>1. /\ n \in Nat /\ g \in 0 .. 1 /\ c \in Int /\ MaxTokens \in Nat /\ Funds \in Int
          /\ 2 * n + g = Least(Funds, 2 * MaxTokens + g) /\ n <= MaxTokens
          /\ c >= Least(FullCredit, Funds - 2 * MaxTokens) /\ c <= Funds + 1 /\ c <= FullCredit
          /\ FullCredit = 2 * MaxTokens + 1
      BY <1>0, <1>1, <1>4, <1>5 DEF Funds, FullCredit
    <3>2. n > 0 /\ Funds' = 2 * (n - 1) + g
      BY <1>6, <2>5
    <3> HIDE DEF n, g, c
    <3>3. c - 2 >= Least(FullCredit, Funds' - 2 * MaxTokens)
      BY <3>1, <3>2 DEF Least
    <3>4. c - 2 <= Funds' + 1 /\ c - 2 <= FullCredit
      BY <3>1, <3>2 DEF Least
    <3> QED  BY <3>3, <3>4 DEF c
  <2>7. bucket.cleaner = "stale" => bucket.credit - 2 >= Least(FullCredit, Funds')
    BY <1>0, <1>1, <1>4, <1>5, <1>6, <2>5 DEF Least, FullCredit, Funds
  <2> QED  BY <2>2, <2>4, <2>6, <2>7 DEF BucketInv, FullCredit
<1>7. CASE ~(full.tokens > 0)
  <2>1. bucket' = [tokens |-> full.tokens, age |-> full.age, cleaner |-> full.cleaner,
                   credit |-> full.credit, last |-> "refused"]
    BY <1>2, <1>3, <1>7 DEF Buckets
  <2>2. /\ bucket'.tokens = full.tokens /\ bucket'.age = full.age /\ bucket'.cleaner = bucket.cleaner
        /\ bucket'.credit = bucket.credit /\ bucket'.last = "refused"
    BY <2>1, <1>3
  <2>3. bucket' \in Buckets
    BY <2>1, <1>3 DEF Buckets
  <2>5. Funds' = 2 * full.tokens + full.age /\ full.tokens = 0
    BY <2>2, <1>1, <1>7 DEF Funds
  <2>6. /\ bucket.credit >= Least(FullCredit, Funds' - 2 * MaxTokens)
        /\ bucket.credit <= Funds' + 1 /\ bucket.credit <= 2
    <3> DEFINE n == full.tokens
    <3> DEFINE g == full.age
    <3> DEFINE c == bucket.credit
    <3>1. /\ n \in Nat /\ g \in 0 .. 1 /\ c \in Int /\ MaxTokens \in Nat /\ Funds \in Int
          /\ 2 * n + g = Least(Funds, 2 * MaxTokens + g) /\ n <= MaxTokens
          /\ c >= Least(FullCredit, Funds - 2 * MaxTokens) /\ c <= Funds + 1 /\ c <= FullCredit
          /\ FullCredit = 2 * MaxTokens + 1
      BY <1>0, <1>1, <1>4, <1>5 DEF Funds, FullCredit
    <3>2. n = 0 /\ Funds' = 2 * n + g
      BY <2>5
    <3> HIDE DEF n, g, c
    <3>3. c >= Least(FullCredit, Funds' - 2 * MaxTokens)
      BY <3>1, <3>2 DEF Least
    <3>4. c <= Funds' + 1 /\ c <= 2
      BY <3>1, <3>2 DEF Least
    <3> QED  BY <3>3, <3>4 DEF c
  <2>7. bucket.cleaner = "stale" => bucket.credit >= Least(FullCredit, Funds')
    BY <1>0, <1>1, <1>4, <1>5, <2>5 DEF Least, FullCredit, Funds
  <2> QED  BY <1>5, <2>2, <2>3, <2>6, <2>7 DEF BucketInv, FullCredit
<1> QED  BY <1>6, <1>7

LEMMA CleanerKeeps == ASSUME BucketInv, CleanerLooks \/ CleanerDeletes PROVE BucketInv'
<1>0. MaxTokens \in Nat /\ IdleLimit \in Nat /\ IdleLimit >= 4 * MaxTokens /\ bucket \in Buckets
  BY WorkAssumption DEF BucketInv
<1>4. /\ bucket.tokens \in 0 .. MaxTokens /\ bucket.age \in 0 .. IdleLimit + 2 /\ bucket.credit \in Int
  BY <1>0 DEF Buckets
<1>5. /\ bucket.credit >= Least(FullCredit, Funds - 2 * MaxTokens)
      /\ bucket.cleaner = "stale" => bucket.credit >= Least(FullCredit, Funds)
      /\ bucket.credit <= Funds + 1 /\ bucket.credit <= FullCredit
      /\ bucket.last = "refused" => bucket.credit <= 2
  BY DEF BucketInv
<1>6. CASE CleanerLooks
  <2>1. bucket' = [tokens |-> bucket.tokens, age |-> bucket.age, cleaner |-> "stale",
                   credit |-> bucket.credit, last |-> bucket.last]
    BY <1>0, <1>6 DEF CleanerLooks, Buckets
  <2>2. /\ bucket'.tokens = bucket.tokens /\ bucket'.age = bucket.age /\ bucket'.cleaner = "stale"
        /\ bucket'.credit = bucket.credit /\ bucket'.last = bucket.last
    BY <2>1
  <2>3. bucket' \in Buckets
    BY <1>0, <2>1 DEF Buckets
  <2>4. bucket.age > IdleLimit
    BY <1>6 DEF CleanerLooks
  <2>5. Funds' = Funds
    BY <2>2 DEF Funds
  <2>6. bucket.credit >= Least(FullCredit, Funds)
    BY <1>0, <1>4, <1>5, <2>4 DEF Least, FullCredit, Funds
  <2> QED  BY <1>5, <2>2, <2>3, <2>5, <2>6 DEF BucketInv, FullCredit
<1>7. CASE CleanerDeletes
  <2>1. bucket' = [tokens |-> MaxTokens, age |-> 0, cleaner |-> "away",
                   credit |-> bucket.credit, last |-> bucket.last] /\ bucket.cleaner = "stale"
    BY <1>0, <1>7 DEF CleanerDeletes, Buckets
  <2>2. /\ bucket'.tokens = MaxTokens /\ bucket'.age = 0 /\ bucket'.cleaner = "away"
        /\ bucket'.credit = bucket.credit /\ bucket'.last = bucket.last
    BY <2>1
  <2>3. bucket' \in Buckets
    BY <1>0, <2>1 DEF Buckets
  <2>5. Funds' = 2 * MaxTokens
    BY <1>0, <2>2 DEF Funds
  <2>6. /\ bucket.credit >= Least(FullCredit, Funds' - 2 * MaxTokens)
        /\ bucket.credit <= Funds' + 1
    BY <1>0, <1>4, <1>5, <2>1, <2>5 DEF Least, FullCredit, Funds
  <2> QED  BY <1>5, <2>2, <2>3, <2>6 DEF BucketInv, FullCredit
<1> QED  BY <1>6, <1>7

(* For any bucket and idle time, and however requests, ticks and the cleaner   *)
(* interleave, the limiter of handleRPCRequest lets through what the time      *)
(* passed allows, no more and no less, one bucket more for each deletion.      *)
THEOREM RateAlwaysExact == WorkSpec => []RateExact
<1>1. WorkInit => BucketInv
  <2> SUFFICES ASSUME WorkInit PROVE BucketInv
    OBVIOUS
  <2>1. MaxTokens \in Nat /\ IdleLimit \in Nat
    BY WorkAssumption
  <2>2. bucket = [tokens |-> MaxTokens, age |-> 0, cleaner |-> "away",
                  credit |-> 2 * MaxTokens + 1, last |-> "none"]
    BY DEF WorkInit
  <2>3. bucket \in Buckets
    BY <2>1, <2>2 DEF Buckets
  <2>4. Funds = 2 * MaxTokens /\ bucket.credit = FullCredit /\ bucket.last = "none" /\ bucket.cleaner = "away"
    BY <2>1, <2>2 DEF Funds, FullCredit
  <2> QED  BY <2>1, <2>3, <2>4 DEF BucketInv, FullCredit, Least
<1>2. BucketInv /\ [(WorkNext /\ UNCHANGED bucket) \/ (LimitNext /\ UNCHANGED workvars)]_wvars => BucketInv'
  <2>1. ASSUME BucketInv, UNCHANGED bucket PROVE BucketInv'
    BY <2>1 DEF BucketInv, Funds
  <2> QED  BY <2>1, TickKeeps, AllowKeeps, CleanerKeeps DEF LimitNext, wvars
<1>3. BucketInv => RateExact
  <2> SUFFICES ASSUME BucketInv PROVE RateExact
    OBVIOUS
  <2>1. /\ MaxTokens \in Nat /\ bucket.tokens \in Nat /\ bucket.age \in Nat /\ bucket.credit \in Int
        /\ bucket.credit >= Least(FullCredit, Funds - 2 * MaxTokens)
    BY WorkAssumption DEF BucketInv, Buckets
  <2>2. bucket.credit + 2 * MaxTokens >= 0
    BY <2>1 DEF Least, FullCredit, Funds
  <2> QED  BY <2>2 DEF RateExact, RateBounded, RefusedWhenSpent, BucketInv
<1> QED  BY <1>1, <1>2, <1>3, PTL DEF WorkSpec
-----------------------------------------------------------------------------
(* The agent's payments *)

Payments == [by : Ask \cup {0}, probe : BOOLEAN, ins : SUBSET Coin, pays : Int, change : Int, size : Int]

Places == {"idle", "estimate", "probe", "select", "pass", "final", "broadcast", "answered", "failed"}

Requests == [pc : Places, op : {"send", "estimate"}, amount : Int, fee : Int, all : BOOLEAN,
             list : SUBSET Coin, seen : SUBSET Coin, ins : SUBSET Coin, used : Int, size : Int,
             pass : Int, tx : Payments, tries : Int, paid : Int]

(* What a request hands to the network is the payment it reports. *)
Owed(x, r) ==
    /\ x.tx.by = r /\ Spend(x.tx) = x.paid
    /\ IF x.all THEN x.tx.ins = x.list /\ x.tx.change = 0 ELSE x.tx.pays = x.amount

(* Which chain's way of paying leads there. *)
Way(pc, x) ==
    /\ x.all => chain = "LBTC"
    /\ pc = "probe" => chain = "KAS"
    /\ pc = "select" => chain # "LBTC"
    /\ pc = "estimate" /\ chain = "LBTC" => x.op # "send"
    /\ pc = "final" /\ x.all => x.ins = x.list

Progress(x, r) ==
    /\ Way(x.pc, x)
    /\ x.pc = "broadcast" => Owed(x, r)
    /\ x.pc = "answered" /\ x.op = "send" => Owed(x, r) /\ x.tx \in mem

(* Whatever the network has from a request is the payment it stopped at. *)
SentOnce(x, r) ==
    chain # "KAS" => \A t \in mem : t.by = r => t = x.tx /\ x.pc \in {"broadcast", "answered", "failed"}

PayInv ==
    /\ chain \in {"LBTC", "BTC", "KAS"} /\ coins \subseteq Coin /\ late \subseteq Coin
    /\ ask \in [Ask -> Requests]
    /\ \A r \in Ask : Progress(ask[r], r) /\ SentOnce(ask[r], r)

(* The values of coins add up to numbers. *)
LEMMA TotalIsNumber == \A S \in SUBSET Coin : Total(S) \in Nat
<1> SUFFICES ASSUME NEW S \in SUBSET Coin PROVE Total(S) \in Nat
  OBVIOUS
<1>1. IsFiniteSet(S) /\ \A c \in S : Worth[c] \in Nat
  BY AgentAssumption, FS_Subset
<1>2. WeightOf(Worth, S) \in Nat
  BY <1>1, WeightType
<1> QED  BY <1>2 DEF Total, WeightOf

(* The largest coins of a list, down to one of them, that reach a sum. *)
Prefix(S, d) == {c \in S : Worth[c] >= Worth[d]}
EnoughOf(S, needed) == {P \in {Prefix(S, d) : d \in S} : Total(P) >= needed}

(* pickGreedy takes the fewest of the largest coins that reach the sum.    *)
LEMMA GreedyLeast ==
    ASSUME NEW S \in SUBSET Coin, NEW needed
    PROVE  /\ \A P \in EnoughOf(S, needed) : P \in SUBSET S /\ P # {}
           /\ IF EnoughOf(S, needed) = {} THEN pickGreedy(S, needed) = S
              ELSE /\ pickGreedy(S, needed) \in EnoughOf(S, needed)
                   /\ \A Q \in EnoughOf(S, needed) : pickGreedy(S, needed) \subseteq Q
<1> DEFINE enough == EnoughOf(S, needed)
<1> DEFINE Fewest(P) == \A Q \in enough : P \subseteq Q
<1>1. pickGreedy(S, needed) = IF enough = {} THEN S ELSE CHOOSE P \in enough : Fewest(P)
  BY DEF pickGreedy, EnoughOf, Prefix
<1>2. \A P \in enough : P \subseteq S /\ P # {} /\ IsFiniteSet(P) /\ \E d \in S : P = Prefix(S, d)
  <2> SUFFICES ASSUME NEW P \in enough PROVE P \subseteq S /\ P # {} /\ IsFiniteSet(P) /\ \E d \in S : P = Prefix(S, d)
    OBVIOUS
  <2>1. PICK d \in S : P = Prefix(S, d)
    BY DEF EnoughOf
  <2>2. d \in P /\ P \subseteq S
    BY <2>1, AgentAssumption DEF Prefix
  <2> QED  BY <2>1, <2>2, AgentAssumption, FS_Subset
<1>3. \A d, e \in S : Prefix(S, d) \subseteq Prefix(S, e) \/ Prefix(S, e) \subseteq Prefix(S, d)
  BY AgentAssumption DEF Prefix
<1> HIDE DEF enough
<1>4. ASSUME enough # {} PROVE \E P \in enough : Fewest(P)
  <2>1. PICK P \in enough : \A Q \in enough : Cardinality(P) <= Cardinality(Q)
    BY <1>2, <1>4, SmallestOf
  <2>2. ASSUME NEW Q \in enough PROVE P \subseteq Q
    <3>1. P \subseteq Q \/ Q \subseteq P
      BY <1>2, <1>3
    <3>2. Cardinality(P) <= Cardinality(Q) /\ IsFiniteSet(P)
      BY <1>2, <2>1
    <3>3. CASE Q \subseteq P /\ Q # P
      <4>1. Cardinality(Q) < Cardinality(P) /\ Cardinality(Q) \in Nat /\ Cardinality(P) \in Nat
        BY <1>2, <3>2, <3>3, FS_Subset, FS_CardinalityType
      <4> QED  BY <3>2, <4>1
    <3> QED  BY <3>1, <3>3
  <2> QED  BY <2>1, <2>2
<1> HIDE DEF Fewest
<1>5. enough # {} => pickGreedy(S, needed) \in enough /\ Fewest(pickGreedy(S, needed))
  BY <1>1, <1>4
<1> QED  BY <1>1, <1>2, <1>5 DEF enough, Fewest

(* pickGreedy takes coins of the list, and some if there are any. *)
LEMMA GreedyPicks ==
    ASSUME NEW S \in SUBSET Coin, NEW needed
    PROVE  pickGreedy(S, needed) \in SUBSET S /\ (S # {} => pickGreedy(S, needed) # {})
  BY GreedyLeast

(* A larger sum takes the same coins, or more of them when they no longer  *)
(* reach it.                                                               *)
LEMMA GreedyGrows ==
    ASSUME NEW S \in SUBSET Coin, NEW needed \in Int, NEW more \in Int, needed <= more
    PROVE  /\ pickGreedy(S, needed) \subseteq pickGreedy(S, more)
           /\ Total(pickGreedy(S, needed)) >= more => pickGreedy(S, more) = pickGreedy(S, needed)
<1> DEFINE P == pickGreedy(S, needed)
<1> DEFINE Q == pickGreedy(S, more)
<1>1. P \in SUBSET S /\ Q \in SUBSET S /\ Total(P) \in Nat
  BY GreedyPicks, TotalIsNumber
<1>2. EnoughOf(S, more) \subseteq EnoughOf(S, needed)
  <2> SUFFICES ASSUME NEW X \in EnoughOf(S, more) PROVE X \in EnoughOf(S, needed)
    OBVIOUS
  <2>1. X \in {Prefix(S, d) : d \in S} /\ Total(X) >= more /\ X \in SUBSET Coin
    BY GreedyLeast DEF EnoughOf
  <2>2. Total(X) \in Nat
    BY <2>1, TotalIsNumber
  <2>3. Total(X) >= needed
    BY <2>1, <2>2
  <2> QED  BY <2>1, <2>3 DEF EnoughOf
<1>3. CASE EnoughOf(S, needed) = {}
  <2>1. P = S /\ Q = S
    BY <1>2, <1>3, GreedyLeast
  <2> QED  BY <2>1
<1>4. CASE EnoughOf(S, needed) # {}
  <2>1. P \in EnoughOf(S, needed) /\ \A X \in EnoughOf(S, needed) : P \subseteq X
    BY <1>4, GreedyLeast
  <2>2. Q = S \/ (Q \in EnoughOf(S, more) /\ \A X \in EnoughOf(S, more) : Q \subseteq X)
    BY GreedyLeast
  <2>3. P \subseteq Q
    BY <1>1, <1>2, <2>1, <2>2
  <2>4. ASSUME Total(P) >= more PROVE Q = P
    <3>1. P \in EnoughOf(S, more)
      BY <2>1, <2>4 DEF EnoughOf
    <3>2. \A X \in EnoughOf(S, more) : Q \subseteq X
      BY <3>1, GreedyLeast
    <3> QED  BY <2>3, <3>1, <3>2
  <2> QED  BY <2>3, <2>4
<1> QED  BY <1>3, <1>4

LEMMA SizeType ==
    ASSUME NEW S \in SUBSET Coin, NEW change
    PROVE  Size(S, change) \in Int
<1>1. Cardinality(S) \in Nat
  BY AgentAssumption, FS_Subset, FS_CardinalityType
<1> QED  BY <1>1, AgentAssumption DEF Size

LEMMA EstimateType ==
    ASSUME NEW S \in SUBSET Coin, NEW amount \in Int
    PROVE  Estimated(S, amount).fee \in Int
<1> DEFINE Rounds == [fee : Int, done : BOOLEAN, ok : BOOLEAN]
<1>1. ASSUME NEW p \in Rounds PROVE EstimateRound(S, amount, p) \in Rounds
  <2> DEFINE fee == FeeFor(S, amount, p.fee)
  <2>1. pickGreedy(S, amount + p.fee) \in SUBSET Coin
    BY GreedyPicks
  <2>2. fee \in Int
    BY <2>1, SizeType DEF FeeFor
  <2>3. EstimateRound(S, amount, p) =
          IF p.done \/ ~p.ok THEN p
          ELSE IF Total(S) < amount + p.fee THEN [p EXCEPT !.ok = FALSE]
          ELSE [p EXCEPT !.fee = fee, !.done = fee = p.fee]
    BY DEF EstimateRound
  <2> HIDE DEF fee
  <2>4. [p EXCEPT !.ok = FALSE] \in Rounds /\ [p EXCEPT !.fee = fee, !.done = fee = p.fee] \in Rounds
    BY <2>2
  <2> QED  BY <2>3, <2>4
<1> HIDE DEF Rounds
<1>2. ASSUME NEW p \in Rounds PROVE TwoRounds(S, amount, p) \in Rounds
  BY <1>1 DEF TwoRounds
<1>3. ASSUME NEW p \in Rounds PROVE FourRounds(S, amount, p) \in Rounds
  BY <1>2 DEF FourRounds
<1> DEFINE begin == [fee |-> 0, done |-> FALSE, ok |-> TRUE]
<1> DEFINE last == FourRounds(S, amount, FourRounds(S, amount, begin))
<1>4. begin \in Rounds
  BY DEF Rounds
<1>5. Estimated(S, amount).fee = last.fee
  BY DEF Estimated
<1> HIDE DEF begin
<1>6. last \in Rounds
  BY <1>3, <1>4
<1> HIDE DEF last
<1>7. last.fee \in Int
  BY <1>6 DEF Rounds
<1> QED  BY <1>5, <1>7

(* A step of request r, which may have sent its payment. *)
LEMMA RequestMoves ==
    ASSUME PayInv, NEW r \in Ask,
           ask' \in [Ask -> Requests], \A s \in Ask \ {r} : ask'[s] = ask[s], UNCHANGED <<chain, coins, late>>,
           mem \subseteq mem', chain # "KAS" => \A t \in mem' : t \in mem \/ t.by = r,
           Progress(ask[r], r)', SentOnce(ask[r], r)'
    PROVE  PayInv'
<1>1. ASSUME NEW s \in Ask \ {r} PROVE Progress(ask[s], s)' /\ SentOnce(ask[s], s)'
  <2>1. ask'[s] = ask[s] /\ Progress(ask[s], s) /\ SentOnce(ask[s], s)
    BY DEF PayInv
  <2>2. Progress(ask[s], s)'
    BY <2>1 DEF Progress, Way, Owed, Spend
  <2>3. chain # "KAS" => \A t \in mem' : t.by = s => t \in mem
    OBVIOUS
  <2>4. SentOnce(ask[s], s)'
    BY <2>1, <2>3 DEF SentOnce
  <2> QED  BY <2>2, <2>4
<1>2. \A s \in Ask : Progress(ask[s], s)' /\ SentOnce(ask[s], s)'
  BY <1>1
<1>3. chain' \in {"LBTC", "BTC", "KAS"} /\ coins' \subseteq Coin /\ late' \subseteq Coin
  BY DEF PayInv
<1> QED  BY <1>2, <1>3 DEF PayInv

(* Where Go leaves the requests. *)
LEMMA RequestGoes ==
    ASSUME PayInv, NEW r \in Ask, NEW pc \in Places, NEW b \in Requests, Go(r, pc, b)
    PROVE  /\ ask' \in [Ask -> Requests] /\ \A s \in Ask \ {r} : ask'[s] = ask[s]
           /\ ask'[r].pc = pc /\ ask'[r].op = b.op /\ ask'[r].amount = b.amount /\ ask'[r].all = b.all
           /\ ask'[r].list = b.list /\ ask'[r].ins = b.ins /\ ask'[r].tx = b.tx /\ ask'[r].paid = b.paid
<1> DEFINE x == [b EXCEPT !.pc = pc]
<1>1. ask' = [ask EXCEPT ![r] = x] /\ ask \in [Ask -> Requests]
  BY DEF Go, PayInv
<1>2. /\ x \in Requests /\ x.pc = pc /\ x.op = b.op /\ x.amount = b.amount /\ x.all = b.all
      /\ x.list = b.list /\ x.ins = b.ins /\ x.tx = b.tx /\ x.paid = b.paid
  BY DEF Requests
<1> HIDE DEF x
<1>3. ask' \in [Ask -> Requests] /\ ask'[r] = x /\ \A s \in Ask \ {r} : ask'[s] = ask[s]
  BY <1>1, <1>2
<1> QED  BY <1>2, <1>3

(* A request that has sent nothing goes on, and owes nothing yet. *)
LEMMA RequestGoesOn ==
    ASSUME PayInv, NEW r \in Ask, ask[r].pc \notin {"broadcast", "answered", "failed"},
           NEW pc \in Places, pc # "broadcast", NEW b \in Requests, Go(r, pc, b),
           UNCHANGED <<chain, coins, late>>, mem' = mem \/ (chain = "KAS" /\ mem \subseteq mem'),
           Way(pc, b), pc = "answered" => b.op # "send"
    PROVE  PayInv'
<1>1. /\ ask' \in [Ask -> Requests] /\ \A s \in Ask \ {r} : ask'[s] = ask[s]
      /\ ask'[r].pc = pc /\ ask'[r].op = b.op /\ ask'[r].all = b.all
      /\ ask'[r].list = b.list /\ ask'[r].ins = b.ins
  BY RequestGoes
<1>2. Progress(ask[r], r)'
  BY <1>1 DEF Progress, Way
<1>3. SentOnce(ask[r], r)'
  BY DEF PayInv, SentOnce
<1> QED  BY <1>1, <1>2, <1>3, RequestMoves

(* A request gives up. *)
LEMMA RequestFails ==
    ASSUME PayInv, NEW r \in Ask, Fail(r), ask[r].pc \notin {"broadcast", "answered", "failed"}
    PROVE  PayInv'
<1>1. ask[r] \in Requests /\ Progress(ask[r], r)
  BY DEF PayInv
<1>2. Go(r, "failed", ask[r]) /\ UNCHANGED <<chain, coins, late, mem>>
  BY DEF Fail
<1>3. Way("failed", ask[r])
  BY <1>1 DEF Progress, Way
<1> QED  BY <1>1, <1>2, <1>3, RequestGoesOn DEF Places

(* The payment of a request is handed to the network, or will be again. *)
LEMMA RequestSends ==
    ASSUME PayInv, NEW r \in Ask, NEW pc \in {"broadcast", "answered", "failed"}, NEW b \in Requests,
           Go(r, pc, b), UNCHANGED <<chain, coins, late>>, Owed(b, r), b.all => chain = "LBTC",
           mem' = mem \/ mem' = mem \cup {b.tx}, pc = "answered" => b.tx \in mem',
           chain # "KAS" => \A t \in mem : t.by = r => t = b.tx
    PROVE  PayInv'
<1>1. /\ ask' \in [Ask -> Requests] /\ \A s \in Ask \ {r} : ask'[s] = ask[s]
      /\ ask'[r].pc = pc /\ ask'[r].amount = b.amount /\ ask'[r].all = b.all
      /\ ask'[r].list = b.list /\ ask'[r].tx = b.tx /\ ask'[r].paid = b.paid
  BY RequestGoes DEF Places
<1>2. b.tx.by = r
  BY DEF Owed
<1>3. Owed(ask[r], r)'
  BY <1>1 DEF Owed, Spend
<1>4. Progress(ask[r], r)'
  BY <1>1, <1>3 DEF Progress, Way
<1>5. SentOnce(ask[r], r)'
  BY <1>1 DEF SentOnce
<1>6. mem \subseteq mem' /\ \A t \in mem' : t \in mem \/ t.by = r
  BY <1>2
<1> QED  BY <1>1, <1>4, <1>5, <1>6, RequestMoves

LEMMA ListedCoins == PayInv => Listed \in SUBSET Coin
  BY DEF PayInv, Listed

LEMMA IdleType == Idle \in Requests
  BY DEF Idle, Unsent, Requests, Payments, Places

LEMMA StepBegin == ASSUME PayInv, NEW r \in Ask, Begin(r) PROVE PayInv'
<1>1. ask[r].pc = "idle" /\ UNCHANGED <<chain, coins, late, mem>> /\ chain \in {"LBTC", "BTC", "KAS"}
  BY DEF Begin, At, PayInv
<1>2. PICK a \in Asks[r] :
        LET q == [Idle EXCEPT !.op = a.op, !.amount = a.amount, !.fee = a.fee,
                              !.all = a.all /\ chain = "LBTC", !.list = Listed, !.used = a.fee]
            next == CASE Listed = {} -> "failed"
                      [] Listed # {} /\ chain = "LBTC" -> IF a.op = "send" THEN "pass" ELSE "estimate"
                      [] Listed # {} /\ chain # "LBTC" ->
                            IF a.op = "send" /\ a.fee > 0 THEN "select" ELSE "estimate"
        IN  Go(r, next, q)
  BY DEF Begin
<1>3. a \in [op : {"send", "estimate"}, amount : Nat, fee : Nat, all : BOOLEAN]
  BY AgentAssumption
<1> DEFINE q == [Idle EXCEPT !.op = a.op, !.amount = a.amount, !.fee = a.fee,
                             !.all = a.all /\ chain = "LBTC", !.list = Listed, !.used = a.fee]
<1> DEFINE next == CASE Listed = {} -> "failed"
                     [] Listed # {} /\ chain = "LBTC" -> IF a.op = "send" THEN "pass" ELSE "estimate"
                     [] Listed # {} /\ chain # "LBTC" ->
                           IF a.op = "send" /\ a.fee > 0 THEN "select" ELSE "estimate"
<1>4. next \in {"failed", "pass", "estimate", "select"} /\ Way(next, q)
  <2>1. q.all = (a.all /\ chain = "LBTC") /\ q.op = a.op
    BY DEF Idle
  <2> HIDE DEF q
  <2>2. CASE Listed = {}
    BY <2>1, <2>2 DEF Way
  <2>3. CASE Listed # {} /\ chain = "LBTC"
    BY <2>1, <2>3 DEF Way
  <2>4. CASE Listed # {} /\ chain # "LBTC"
    BY <2>1, <2>4 DEF Way
  <2> QED  BY <2>2, <2>3, <2>4
<1>5. q \in Requests
  <2> DEFINE all == a.all /\ chain = "LBTC"
  <2> DEFINE l == Listed
  <2> DEFINE q1 == [Idle EXCEPT !.op = a.op]
  <2> DEFINE q2 == [q1 EXCEPT !.amount = a.amount]
  <2> DEFINE q3 == [q2 EXCEPT !.fee = a.fee]
  <2> DEFINE q4 == [q3 EXCEPT !.all = all]
  <2> DEFINE q5 == [q4 EXCEPT !.list = l]
  <2>1. q = [q5 EXCEPT !.used = a.fee]
    OBVIOUS
  <2>2. l \in SUBSET Coin /\ all \in BOOLEAN /\ a.op \in {"send", "estimate"} /\ a.amount \in Int /\ a.fee \in Int
    BY <1>3, ListedCoins
  <2> HIDE DEF q, l, all
  <2>3. q1 \in Requests
    BY <2>2, IdleType DEF Requests
  <2> HIDE DEF q1
  <2>4. q2 \in Requests
    BY <2>2, <2>3 DEF Requests
  <2> HIDE DEF q2
  <2>5. q3 \in Requests
    BY <2>2, <2>4 DEF Requests
  <2> HIDE DEF q3
  <2>6. q4 \in Requests
    BY <2>2, <2>5 DEF Requests
  <2> HIDE DEF q4
  <2>7. q5 \in Requests
    BY <2>2, <2>6 DEF Requests
  <2> HIDE DEF q5
  <2> QED  BY <2>1, <2>2, <2>7 DEF Requests
<1>6. Go(r, next, q)
  BY <1>2
<1> HIDE DEF q, next
<1> QED  BY <1>1, <1>4, <1>5, <1>6, RequestGoesOn DEF Places

LEMMA StepEstimate == ASSUME PayInv, NEW r \in Ask, Estimate(r) PROVE PayInv'
<1> DEFINE a == ask[r]
<1> DEFINE f == Estimated(Listed, a.amount).fee
<1> DEFINE b == [a EXCEPT !.fee = f]
<1>1. a \in Requests /\ a.pc = "estimate" /\ chain # "KAS" /\ UNCHANGED <<chain, coins, late, mem>> /\ Progress(a, r)
  BY DEF Estimate, At, PayInv
<1>2. \/ Go(r, "failed", a)
      \/ Go(r, IF a.op = "send" THEN "select" ELSE "answered", b)
  BY DEF Estimate
<1>3. Way("estimate", a)
  BY <1>1 DEF Progress
<1>4. CASE Go(r, "failed", a)
  BY <1>1, <1>4, RequestFails DEF Fail
<1>5. CASE Go(r, IF a.op = "send" THEN "select" ELSE "answered", b)
  <2>1. f \in Int
    BY <1>1, ListedCoins, EstimateType DEF Requests
  <2> HIDE DEF f, a
  <2>2. b \in Requests /\ b.all = a.all /\ b.op = a.op /\ b.ins = a.ins /\ b.list = a.list
    BY <1>1, <2>1 DEF Requests
  <2> HIDE DEF b
  <2>3. CASE a.op = "send"
    <3>1. Go(r, "select", b) /\ Way("select", b)
      BY <1>3, <1>5, <2>2, <2>3 DEF Way
    <3> QED  BY <1>1, <2>2, <3>1, RequestGoesOn DEF Places, a
  <2>4. CASE a.op # "send"
    <3>1. Go(r, "answered", b) /\ Way("answered", b)
      BY <1>3, <1>5, <2>2, <2>4 DEF Way
    <3> QED  BY <1>1, <2>2, <2>4, <3>1, RequestGoesOn DEF Places, a
  <2> QED  BY <2>3, <2>4
<1> QED  BY <1>2, <1>4, <1>5

LEMMA StepProbeList == ASSUME PayInv, NEW r \in Ask, ProbeList(r) PROVE PayInv'
<1> DEFINE a == ask[r]
<1> DEFINE b == [a EXCEPT !.used = 0, !.seen = Listed]
<1> DEFINE pc == IF Listed = {} THEN "failed" ELSE "probe"
<1>1. a \in Requests /\ a.pc = "estimate" /\ chain = "KAS" /\ UNCHANGED <<chain, coins, late, mem>> /\ Progress(a, r)
  BY DEF ProbeList, At, PayInv
<1>2. Go(r, pc, b)
  BY DEF ProbeList
<1> HIDE DEF a
<1>3. b \in Requests /\ b.all = a.all
  <2> DEFINE l == Listed
  <2> DEFINE d == [a EXCEPT !.used = 0]
  <2>1. l \in SUBSET Coin
    BY ListedCoins
  <2>2. b = [d EXCEPT !.seen = l]
    OBVIOUS
  <2>3. d \in Requests /\ d.all = a.all
    BY <1>1 DEF Requests
  <2> HIDE DEF d, l
  <2> QED  BY <2>1, <2>2, <2>3 DEF Requests
<1> HIDE DEF b
<1>4. pc \in {"failed", "probe"} /\ Way(pc, b)
  BY <1>1, <1>3 DEF Progress, Way
<1> HIDE DEF pc
<1> QED  BY <1>1, <1>2, <1>3, <1>4, RequestGoesOn DEF Places, a

LEMMA KaspaTxType ==
    ASSUME NEW r \in Ask, NEW ins \in SUBSET Coin, NEW amount \in Int, NEW fee \in Int,
           NEW probe \in BOOLEAN
    PROVE  /\ KaspaTx(r, ins, amount, fee, probe) \in Payments
           /\ KaspaTx(r, ins, amount, fee, probe).by = r
           /\ KaspaTx(r, ins, amount, fee, probe).pays = amount
<1> DEFINE rest == Total(ins) - amount - fee
<1> DEFINE change == IF rest < Cutoff THEN 0 ELSE rest
<1>1. change \in Int
  BY TotalIsNumber
<1>2. KaspaTx(r, ins, amount, fee, probe) =
        [by |-> r, probe |-> probe, ins |-> ins, pays |-> amount, change |-> change, size |-> Size(ins, change)]
  BY DEF KaspaTx
<1> HIDE DEF change
<1>3. Size(ins, change) \in Int
  BY SizeType
<1> QED  BY <1>1, <1>2, <1>3 DEF Payments

LEMMA StepProbe == ASSUME PayInv, NEW r \in Ask, Probe(r) PROVE PayInv'
<1> DEFINE a == ask[r]
<1> DEFINE sel == pickGreedy(a.seen, a.amount + a.used)
<1> DEFINE t == KaspaTx(r, sel, a.amount, 1, TRUE)
<1> DEFINE u == IF t.size <= a.used THEN a.used + 1 ELSE t.size
<1> DEFINE b == [a EXCEPT !.ins = sel, !.pass = a.pass + 1, !.used = u]
<1>1. a \in Requests /\ a.pc = "probe" /\ Progress(a, r) /\ chain = "KAS"
  BY DEF Probe, At, PayInv, Progress, Way
<1>2. \/ Fail(r)
      \/ Probed(r, a.used) /\ UNCHANGED <<chain, coins, late>> /\ mem \subseteq mem'
      \/ Go(r, "probe", b) /\ UNCHANGED <<chain, coins, late, mem>>
  BY DEF Probe
<1>3. CASE Fail(r)
  BY <1>1, <1>3, RequestFails
<1>4. CASE Probed(r, a.used) /\ UNCHANGED <<chain, coins, late>> /\ mem \subseteq mem'
  <2> DEFINE c == [a EXCEPT !.fee = a.used]
  <2>1. Go(r, IF a.op = "send" THEN "select" ELSE "answered", c)
    BY <1>4 DEF Probed
  <2> HIDE DEF a
  <2>2. c \in Requests /\ c.all = a.all /\ c.op = a.op
    BY <1>1 DEF Requests
  <2> HIDE DEF c
  <2>3. Way("select", c) /\ Way("answered", c)
    BY <1>1, <2>2 DEF Way, Progress
  <2>4. CASE a.op = "send"
    BY <1>1, <1>4, <2>1, <2>2, <2>3, <2>4, RequestGoesOn DEF Places, a
  <2>5. CASE a.op # "send"
    BY <1>1, <1>4, <2>1, <2>2, <2>3, <2>5, RequestGoesOn DEF Places, a
  <2> QED  BY <2>4, <2>5
<1>5. CASE Go(r, "probe", b) /\ UNCHANGED <<chain, coins, late, mem>>
  <2> HIDE DEF a
  <2>1. /\ a.seen \in SUBSET Coin /\ a.amount \in Int /\ a.used \in Int /\ a.pass \in Int
    BY <1>1 DEF Requests
  <2>2. sel \in SUBSET Coin
    BY <2>1, GreedyPicks
  <2> HIDE DEF sel
  <2>3. t \in Payments
    <3>1. TRUE \in BOOLEAN /\ 1 \in Int
      OBVIOUS
    <3> QED  BY <2>1, <2>2, <3>1, KaspaTxType
  <2> HIDE DEF t
  <2>4. u \in Int
    BY <2>1, <2>3 DEF Payments
  <2> HIDE DEF u
  <2>5. b \in Requests /\ b.all = a.all
    <3> DEFINE d == [a EXCEPT !.ins = sel]
    <3> DEFINE e == [d EXCEPT !.pass = a.pass + 1]
    <3>1. b = [e EXCEPT !.used = u]
      OBVIOUS
    <3>2. d \in Requests /\ d.all = a.all
      BY <1>1, <2>2 DEF Requests
    <3> HIDE DEF d
    <3>3. a.pass + 1 \in Int
      BY <2>1
    <3>4. e \in Requests /\ e.all = a.all
      BY <3>2, <3>3 DEF Requests
    <3> HIDE DEF e
    <3> QED  BY <2>4, <3>1, <3>4 DEF Requests
  <2> HIDE DEF b
  <2>6. Way("probe", b)
    BY <1>1, <2>5 DEF Way, Progress
  <2> QED  BY <1>1, <1>5, <2>5, <2>6, RequestGoesOn DEF Places, a
<1> QED  BY <1>2, <1>3, <1>4, <1>5

(* A payment is built, and reported as it was built. *)
LEMMA PaymentBuilt ==
    ASSUME PayInv, NEW r \in Ask, ask[r].pc \notin {"broadcast", "answered", "failed"},
           NEW t \in Payments, t.by = r, NEW paid \in Int, Spend(t) = paid,
           Go(r, "broadcast", [ask[r] EXCEPT !.tx = t, !.paid = paid]), UNCHANGED <<chain, coins, late, mem>>,
           IF ask[r].all THEN t.ins = ask[r].list /\ t.change = 0 ELSE t.pays = ask[r].amount
    PROVE  PayInv'
<1> DEFINE a == ask[r]
<1> DEFINE b == [a EXCEPT !.tx = t, !.paid = paid]
<1>1. a \in Requests /\ Progress(a, r) /\ Go(r, "broadcast", b)
  BY DEF PayInv
<1>2. IF a.all THEN t.ins = a.list /\ t.change = 0 ELSE t.pays = a.amount
  OBVIOUS
<1>3. chain # "KAS" => \A u \in mem : u.by # r
  BY DEF PayInv, SentOnce
<1> HIDE DEF a
<1>4. /\ b \in Requests /\ b.all = a.all /\ b.list = a.list /\ b.amount = a.amount
      /\ b.tx = t /\ b.paid = paid
  BY <1>1 DEF Requests
<1> HIDE DEF b
<1>5. Owed(b, r) /\ (b.all => chain = "LBTC")
  BY <1>1, <1>2, <1>4 DEF Owed, Progress, Way
<1> QED  BY <1>1, <1>3, <1>4, <1>5, RequestSends

LEMMA SpendType ==
    ASSUME NEW t \in Payments
    PROVE  Spend(t) \in Int
<1>1. Total(t.ins) \in Nat /\ t.pays \in Int /\ t.change \in Int
  BY TotalIsNumber DEF Payments
<1> QED  BY <1>1 DEF Spend

LEMMA StepSelect == ASSUME PayInv, NEW r \in Ask, Select(r) PROVE PayInv'
<1> DEFINE a == ask[r]
<1> DEFINE sel == pickGreedy(a.list, a.amount + a.fee)
<1> DEFINE rest == Total(sel) - a.amount - a.fee
<1> DEFINE t == IF chain = "KAS" THEN KaspaTx(r, sel, a.amount, a.fee, FALSE)
                ELSE [by |-> r, probe |-> FALSE, ins |-> sel, pays |-> a.amount, change |-> rest,
                      size |-> Size(sel, rest)]
<1> DEFINE paid == FeeReported(t, a.fee)
<1>1. a \in Requests /\ a.pc = "select" /\ chain # "LBTC" /\ ~a.all
  BY DEF Select, At, PayInv, Progress, Way
<1>2. \/ Fail(r)
      \/ Go(r, "broadcast", [a EXCEPT !.tx = t, !.paid = paid]) /\ UNCHANGED <<chain, coins, late, mem>>
  BY DEF Select
<1>3. CASE Fail(r)
  BY <1>1, <1>3, RequestFails
<1>4. CASE Go(r, "broadcast", [a EXCEPT !.tx = t, !.paid = paid]) /\ UNCHANGED <<chain, coins, late, mem>>
  <2> HIDE DEF a
  <2>1. a.list \in SUBSET Coin /\ a.amount \in Int /\ a.fee \in Int
    BY <1>1 DEF Requests
  <2>2. sel \in SUBSET Coin
    BY <2>1, GreedyPicks
  <2> HIDE DEF sel
  <2>3. Total(sel) \in Nat
    BY <2>2, TotalIsNumber
  <2>4. rest \in Int
    BY <2>1, <2>3
  <2>5. Total(sel) - a.amount - rest = a.fee
    BY <2>1, <2>3
  <2> HIDE DEF rest
  <2>6. Size(sel, rest) \in Int
    BY <2>2, SizeType
  <2>7. t \in Payments /\ t.by = r /\ t.pays = a.amount /\ (chain # "KAS" => t.ins = sel /\ t.change = rest)
    <3>1. CASE chain = "KAS"
      <4> DEFINE k == KaspaTx(r, sel, a.amount, a.fee, FALSE)
      <4> DEFINE no == FALSE
      <4> DEFINE pays == a.amount
      <4> DEFINE f == a.fee
      <4>1. no \in BOOLEAN /\ pays \in Int /\ f \in Int
        BY <2>1
      <4>2. k = KaspaTx(r, sel, pays, f, no) /\ pays = a.amount
        OBVIOUS
      <4> HIDE DEF no, pays, f, k
      <4>4. /\ KaspaTx(r, sel, pays, f, no) \in Payments
            /\ KaspaTx(r, sel, pays, f, no).by = r
            /\ KaspaTx(r, sel, pays, f, no).pays = pays
        BY <2>2, <4>1, KaspaTxType
      <4>3. t = k
        BY <3>1 DEF k
      <4> HIDE DEF t
      <4> QED  BY <3>1, <4>2, <4>3, <4>4
    <3>2. CASE chain # "KAS"
      BY <2>1, <2>2, <2>4, <2>6, <3>2 DEF Payments
    <3> QED  BY <3>1, <3>2
  <2> HIDE DEF t
  <2>8. Spend(t) = paid /\ paid \in Int
    <3>1. CASE chain = "KAS"
      BY <2>7, <3>1, SpendType DEF FeeReported
    <3>2. CASE chain # "KAS"
      BY <2>1, <2>5, <2>7, <3>2 DEF FeeReported, Spend
    <3> QED  BY <3>1, <3>2
  <2> HIDE DEF paid
  <2> QED  BY <1>1, <1>4, <2>7, <2>8, PaymentBuilt DEF a
<1> QED  BY <1>2, <1>3, <1>4

LEMMA StepPass == ASSUME PayInv, NEW r \in Ask, Pass(r) PROVE PayInv'
<1> DEFINE a == ask[r]
<1> DEFINE ins == Inputs(a)
<1>1. a \in Requests /\ a.pc = "pass" /\ Progress(a, r)
  BY DEF Pass, At, PayInv
<1>2. CASE Fail(r)
  BY <1>1, <1>2, RequestFails
<1>3. CASE ~Fail(r)
  <2>1. PICK jitter \in 0 .. 1 :
          LET size == Size(ins, Change(a, ins)) + jitter
              settled == Covers(a.used, size)
              b == [a EXCEPT !.ins = ins, !.size = IF settled THEN size ELSE 0,
                             !.used = IF settled THEN @ ELSE size, !.pass = @ + 1]
          IN  Go(r, IF settled \/ b.pass = MaxPasses THEN "final" ELSE "pass", b)
    BY <1>3 DEF Pass
  <2> DEFINE size == Size(ins, Change(a, ins)) + jitter
  <2> DEFINE settled == Covers(a.used, size)
  <2> DEFINE left == IF settled THEN size ELSE 0
  <2> DEFINE used == IF settled THEN a.used ELSE size
  <2> DEFINE b == [a EXCEPT !.ins = ins, !.size = left, !.used = used, !.pass = a.pass + 1]
  <2> DEFINE pc == IF settled \/ b.pass = MaxPasses THEN "final" ELSE "pass"
  <2>2. Go(r, pc, b)
    BY <2>1
  <2>3. UNCHANGED <<chain, coins, late, mem>>
    BY <1>3 DEF Pass
  <2> HIDE DEF a
  <2>4. a.list \in SUBSET Coin /\ a.used \in Int /\ a.pass \in Int
    BY <1>1 DEF Requests
  <2>5. ins \in SUBSET Coin /\ (a.all => ins = a.list)
    BY <2>4, GreedyPicks DEF Inputs
  <2> HIDE DEF ins
  <2>6. size \in Int
    BY <2>5, SizeType
  <2> HIDE DEF size
  <2>7. left \in Int /\ used \in Int
    BY <2>4, <2>6
  <2> HIDE DEF settled, left, used
  <2>8. b \in Requests /\ b.all = a.all /\ b.list = a.list /\ b.ins = ins
    <3> DEFINE c == [a EXCEPT !.ins = ins]
    <3> DEFINE d == [c EXCEPT !.size = left]
    <3> DEFINE e == [d EXCEPT !.used = used]
    <3>1. b = [e EXCEPT !.pass = a.pass + 1]
      OBVIOUS
    <3>2. c \in Requests /\ c.all = a.all /\ c.list = a.list /\ c.ins = ins
      BY <1>1, <2>5 DEF Requests
    <3> HIDE DEF c
    <3>3. d \in Requests /\ d.all = a.all /\ d.list = a.list /\ d.ins = ins
      BY <2>7, <3>2 DEF Requests
    <3> HIDE DEF d
    <3>4. e \in Requests /\ e.all = a.all /\ e.list = a.list /\ e.ins = ins
      BY <2>7, <3>3 DEF Requests
    <3> HIDE DEF e
    <3>5. a.pass + 1 \in Int
      BY <2>4
    <3> QED  BY <3>1, <3>4, <3>5 DEF Requests
  <2>9. pc \in {"final", "pass"}
    OBVIOUS
  <2> HIDE DEF b, pc
  <2>10. Way(pc, b)
    BY <1>1, <2>5, <2>8, <2>9 DEF Way, Progress
  <2> QED  BY <1>1, <2>2, <2>3, <2>8, <2>9, <2>10, RequestGoesOn DEF Places, a
<1> QED  BY <1>2, <1>3

(* A sweep leaves no change, any other payment what it did not use. *)
LEMMA StepFinal == ASSUME PayInv, NEW r \in Ask, Final(r) PROVE PayInv'
<1> DEFINE a == ask[r]
<1>1. a \in Requests /\ a.pc = "final" /\ (a.all => a.ins = a.list)
  BY DEF Final, At, PayInv, Progress, Way
<1>2. CASE Fail(r)
  BY <1>1, <1>2, RequestFails
<1>3. CASE ~Fail(r)
  <2>1. PICK jitter \in 0 .. 1 :
          LET size == Size(a.ins, Change(a, a.ins)) + jitter
          IN  Go(r, "broadcast", [a EXCEPT !.paid = a.used, !.tx =
                [by |-> r, probe |-> FALSE, ins |-> a.ins, pays |-> Pays(a, a.ins),
                 change |-> Change(a, a.ins), size |-> size]])
    BY <1>3 DEF Final
  <2>2. UNCHANGED <<chain, coins, late, mem>>
    BY <1>3 DEF Final
  <2> DEFINE size == Size(a.ins, Change(a, a.ins)) + jitter
  <2> DEFINE pays == Pays(a, a.ins)
  <2> DEFINE change == Change(a, a.ins)
  <2> DEFINE t == [by |-> r, probe |-> FALSE, ins |-> a.ins, pays |-> pays, change |-> change, size |-> size]
  <2>3. Go(r, "broadcast", [a EXCEPT !.paid = a.used, !.tx = t])
    BY <2>1
  <2> HIDE DEF a
  <2>4. a.ins \in SUBSET Coin /\ a.used \in Int /\ a.amount \in Int
    BY <1>1 DEF Requests
  <2>5. Total(a.ins) \in Nat
    BY <2>4, TotalIsNumber
  <2>6. pays \in Int /\ (~a.all => pays = a.amount) /\ (a.all => pays = Total(a.ins) - a.used)
    BY <2>4, <2>5 DEF Pays
  <2>7. change = Total(a.ins) - pays - a.used
    BY DEF Change
  <2> HIDE DEF pays
  <2>8. change \in Int /\ Total(a.ins) - pays - change = a.used /\ (a.all => change = 0)
    BY <2>4, <2>5, <2>6, <2>7
  <2>9. size \in Int
    BY <2>4, SizeType
  <2> HIDE DEF change, size
  <2>10. t \in Payments /\ t.by = r /\ t.ins = a.ins /\ t.pays = pays /\ t.change = change
    BY <2>4, <2>6, <2>8, <2>9 DEF Payments
  <2> HIDE DEF t
  <2>11. Spend(t) = a.used
    BY <2>8, <2>10 DEF Spend
  <2>12. IF a.all THEN t.ins = a.list /\ t.change = 0 ELSE t.pays = a.amount
    BY <1>1, <2>6, <2>8, <2>10
  <2>13. [a EXCEPT !.paid = a.used, !.tx = t] = [a EXCEPT !.tx = t, !.paid = a.used]
    BY <1>1 DEF Requests
  <2>14. Go(r, "broadcast", [ask[r] EXCEPT !.tx = t, !.paid = a.used])
    BY <2>3, <2>13 DEF a
  <2>15. IF ask[r].all THEN t.ins = ask[r].list /\ t.change = 0 ELSE t.pays = ask[r].amount
    BY <2>12 DEF a
  <2>16. ask[r].pc \notin {"broadcast", "answered", "failed"}
    BY <1>1 DEF a
  <2> QED  BY <2>2, <2>4, <2>10, <2>11, <2>14, <2>15, <2>16, PaymentBuilt
<1> QED  BY <1>2, <1>3

(* A reply may get lost, what was sent stays the same. *)
LEMMA StepBroadcast == ASSUME PayInv, NEW r \in Ask, Broadcast(r) PROVE PayInv'
<1> DEFINE a == ask[r]
<1> DEFINE b == [a EXCEPT !.tries = a.tries + 1]
<1>1. /\ a \in Requests /\ a.pc = "broadcast" /\ Progress(a, r) /\ SentOnce(a, r)
      /\ UNCHANGED <<chain, coins, late>>
  BY DEF Broadcast, At, PayInv
<1>2. \/ mem' = mem \cup {a.tx} /\ Go(r, "answered", a)
      \/ (mem' = mem \/ mem' = mem \cup {a.tx}) /\ (Go(r, "broadcast", b) \/ Go(r, "failed", b))
  BY DEF Broadcast, Again
<1>3. Owed(a, r)
  BY <1>1 DEF Progress
<1>4. chain # "KAS" => \A t \in mem : t.by = r => t = a.tx
  BY <1>1 DEF SentOnce
<1>5. a.all => chain = "LBTC"
  BY <1>1 DEF Progress, Way
<1>6. CASE mem' = mem \cup {a.tx} /\ Go(r, "answered", a)
  <2> HIDE DEF a
  <2>1. a.tx \in mem'
    BY <1>6
  <2> QED  BY <1>1, <1>3, <1>4, <1>5, <1>6, <2>1, RequestSends
<1>7. ASSUME NEW pc \in {"broadcast", "failed"}, Go(r, pc, b), mem' = mem \/ mem' = mem \cup {a.tx}
      PROVE  PayInv'
  <2> HIDE DEF a
  <2>1. a.tries + 1 \in Int
    BY <1>1 DEF Requests
  <2>2. /\ b \in Requests /\ b.all = a.all /\ b.list = a.list /\ b.amount = a.amount
        /\ b.tx = a.tx /\ b.paid = a.paid
    BY <1>1, <2>1 DEF Requests
  <2> HIDE DEF b
  <2>3. Owed(b, r)
    BY <1>3, <2>2 DEF Owed
  <2> QED  BY <1>1, <1>4, <1>5, <1>7, <2>2, <2>3, RequestSends
<1> QED  BY <1>2, <1>6, <1>7

LEMMA StepPayInv == ASSUME PayInv, [AgentNext]_asvars PROVE PayInv'
<1>1. CASE UNCHANGED <<chain, mem, ask>> /\ coins' \subseteq Coin /\ late' \subseteq Coin
  BY <1>1 DEF PayInv, Progress, SentOnce, Way, Owed
<1>2. CASE UNCHANGED asvars
  BY <1>1, <1>2 DEF asvars, PayInv
<1>3. ASSUME NEW t \in mem, Confirmed(t) PROVE PayInv'
  BY <1>1, <1>3 DEF Confirmed, PayInv
<1>4. ASSUME NEW c \in late, Received(c) PROVE PayInv'
  BY <1>1, <1>4 DEF Received, PayInv
<1> QED  BY <1>2, <1>3, <1>4, StepBegin, StepEstimate, StepProbeList, StepProbe, StepSelect, StepPass,
            StepFinal, StepBroadcast DEF AgentNext

LEMMA InitPayInv == AgentInit => PayInv
<1> SUFFICES ASSUME AgentInit PROVE PayInv
  OBVIOUS
<1>1. Idle \in Requests
  BY IdleType
<1>2. Idle.pc = "idle" /\ ~Idle.all
  BY DEF Idle
<1> QED  BY <1>1, <1>2, AgentAssumption DEF AgentInit, PayInv, Progress, Way, SentOnce

(* A request moves its amount at most once, on the networks that take no   *)
(* payment for an estimate, and what it reports as paid is in the network  *)
(* as it was asked for: for any requests, coins and sizes, with replies    *)
(* lost, calls repeated and blocks in between.                             *)
THEOREM PaymentsAlwaysTold == AgentSpec => [](PaysOnce /\ SuccessIsPaid)
<1>1. AgentInit => PayInv
  BY InitPayInv
<1>2. PayInv /\ [AgentNext]_asvars => PayInv'
  BY StepPayInv
<1>3. PayInv => PaysOnce /\ SuccessIsPaid
  <2> SUFFICES ASSUME PayInv PROVE PaysOnce /\ SuccessIsPaid
    OBVIOUS
  <2>1. ASSUME chain # "KAS", NEW r \in Ask PROVE Cardinality({t \in mem : t.by = r}) <= 1
    <3> DEFINE S == {t \in mem : t.by = r}
    <3>1. S \subseteq {ask[r].tx}
      BY <2>1 DEF PayInv, SentOnce
    <3>2. IsFiniteSet({ask[r].tx}) /\ Cardinality({ask[r].tx}) = 1
      BY FS_Singleton
    <3> HIDE DEF S
    <3>3. Cardinality(S) <= Cardinality({ask[r].tx})
      BY <3>1, <3>2, FS_Subset
    <3> QED  BY <3>2, <3>3 DEF S
  <2>2. SuccessIsPaid
    BY DEF PayInv, Progress, Owed, SuccessIsPaid, At
  <2> QED  BY <2>1, <2>2 DEF PaysOnce
<1> QED  BY <1>1, <1>2, <1>3, PTL DEF AgentSpec
(* The fee loop of LBTC, when there are fewer coins than passes.  An        *)
(* unsettled pass raises the fee to the size it measured, so the next one   *)
(* takes more coins or finds a fee that covers the size, at worst but for   *)
(* the last byte of a signature; then one more pass settles it.             *)
FewCoins == Cardinality(Coin) + 1 < MaxPasses

(* After n passes, with k inputs: coins are left to be added, the fee       *)
(* covers the size and leaves change, or it covers the longest signature.   *)
Settling(n, k, used, size, open) ==
    \/ n < k
    \/ n <= k /\ used >= size /\ open
    \/ n <= k + 1 /\ used >= size + 1

Closing(a) ==
    Settling(a.pass, Cardinality(Inputs(a)), a.used, Size(Inputs(a), Change(a, Inputs(a))),
             a.all \/ Change(a, Inputs(a)) > 0)

Floored(a) ==
    /\ a.pc = "pass" /\ Affords(a, Inputs(a)) => Closing(a)
    /\ a.pc = "final" => a.size > 0 /\ a.used >= a.size
    /\ a.pc = "broadcast" => Spend(a.tx) >= a.tx.size

FloorInv == chain = "LBTC" => \A r \in Ask : Floored(ask[r])

LEMMA SizeFacts ==
    ASSUME NEW S \in SUBSET Coin, NEW x \in Int, NEW y \in Int
    PROVE  /\ Size(S, x) \in Nat \ {0}
           /\ (x > 0 <=> y > 0) => Size(S, x) = Size(S, y)
           /\ x > 0 /\ ~(y > 0) => Size(S, y) + 1 <= Size(S, x)
<1>1. Cardinality(S) \in Nat
  BY AgentAssumption, FS_Subset, FS_CardinalityType
<1> DEFINE base == InSize * Cardinality(S)
<1>2. base \in Nat /\ OutSize \in Nat \ {0}
  BY <1>1, AgentAssumption
<1>3. /\ x > 0 => Size(S, x) = base + OutSize * 2
      /\ ~(x > 0) => Size(S, x) = base + OutSize * 1
      /\ y > 0 => Size(S, y) = base + OutSize * 2
      /\ ~(y > 0) => Size(S, y) = base + OutSize * 1
  BY DEF Size
<1> HIDE DEF base
<1> QED  BY <1>2, <1>3

(* One pass of the loop that does not settle. *)
LEMMA PassCloses ==
    ASSUME FewCoins, NEW a \in Requests, Affords(a, Inputs(a)), Closing(a), NEW jitter \in 0 .. 1,
           ~Covers(a.used, Size(Inputs(a), Change(a, Inputs(a))) + jitter),
           NEW b \in Requests, b.list = a.list, b.all = a.all, b.amount = a.amount,
           b.used = Size(Inputs(a), Change(a, Inputs(a))) + jitter, b.pass = a.pass + 1
    PROVE  b.pass # MaxPasses /\ (Affords(b, Inputs(b)) => Closing(b))
<1> DEFINE S == Inputs(a)
           T == Inputs(b)
           x == Change(a, S)
           y == Change(b, T)
           k == Cardinality(S)
           l == Cardinality(T)
           size == Size(S, x)
           next == Size(T, y)
<1>1. /\ a.list \in SUBSET Coin /\ a.used \in Int /\ a.amount \in Int /\ a.pass \in Int
      /\ b.list \in SUBSET Coin /\ b.used \in Int /\ b.amount \in Int /\ b.pass \in Int
      /\ a.all \in BOOLEAN
  BY DEF Requests
<1>2. S \in SUBSET Coin /\ T \in SUBSET Coin
  BY <1>1, GreedyPicks DEF Inputs
<1>3. IsFiniteSet(Coin) /\ Cardinality(Coin) \in Nat /\ MaxPasses \in Nat
  BY AgentAssumption, FS_CardinalityType
<1>4. /\ k \in Nat /\ l \in Nat /\ k <= Cardinality(Coin) /\ IsFiniteSet(S) /\ IsFiniteSet(T)
  BY <1>2, <1>3, FS_Subset, FS_CardinalityType
<1>5. Total(S) \in Nat /\ Total(T) \in Nat
  BY <1>2, TotalIsNumber
<1>6. /\ x = Total(S) - Pays(a, S) - a.used
      /\ y = Total(T) - Pays(b, T) - b.used
  BY DEF Change
<1>7. /\ a.all => Pays(a, S) = Total(S) - a.used /\ Pays(b, T) = Total(T) - b.used /\ S = a.list /\ T = a.list
      /\ ~a.all => /\ Pays(a, S) = a.amount /\ Pays(b, T) = a.amount
                   /\ S = pickGreedy(a.list, a.amount + a.used) /\ T = pickGreedy(a.list, a.amount + b.used)
  BY DEF Pays, Inputs
<1>8. ~a.all => Total(S) >= a.amount + a.used
  BY DEF Affords
<1>9. ~a.all /\ Affords(b, T) => Total(T) >= a.amount + b.used
  BY DEF Affords
<1>10. /\ Settling(a.pass, k, a.used, size, a.all \/ x > 0)
       /\ ~(a.used >= size + jitter) /\ b.used = size + jitter /\ b.pass = a.pass + 1
  BY DEF Closing, Covers
<1>11. Closing(b) <=> Settling(b.pass, l, b.used, next, a.all \/ y > 0)
  BY DEF Closing
<1> HIDE DEF S, T, x, y, k, l
<1>12. x \in Int /\ y \in Int
  BY <1>1, <1>5, <1>6, <1>7
<1>13. size \in Nat \ {0} /\ next \in Nat \ {0}
  BY <1>2, <1>12, SizeFacts
<1>14. S = T => /\ k = l
                /\ (x > 0 <=> y > 0) => next = size
                /\ x > 0 /\ ~(y > 0) => next + 1 <= size
  BY <1>2, <1>12, SizeFacts DEF k, l
<1> HIDE DEF size, next
<1>15. b.pass # MaxPasses
  BY <1>1, <1>3, <1>4, <1>10, <1>13 DEF Settling, FewCoins
<1>16. CASE a.all
  <2>1. S = T /\ x = 0 /\ y = 0
    BY <1>1, <1>5, <1>6, <1>7, <1>16
  <2>2. k = l /\ next = size
    BY <1>14, <2>1
  <2>3. Settling(b.pass, l, b.used, next, TRUE)
    BY <1>1, <1>4, <1>10, <1>13, <2>2 DEF Settling
  <2> QED  BY <1>11, <1>15, <1>16, <2>3 DEF T, Settling
<1>17. CASE ~a.all
  <2>1. /\ x = Total(S) - a.amount - a.used /\ y = Total(T) - a.amount - b.used /\ x >= 0
    BY <1>1, <1>5, <1>6, <1>7, <1>8, <1>17
  <2>2. a.used < b.used /\ a.amount + a.used <= a.amount + b.used
        /\ a.amount + a.used \in Int /\ a.amount + b.used \in Int
    BY <1>1, <1>10, <1>13
  <2>3. /\ S \subseteq T /\ (Total(S) >= a.amount + b.used => T = S)
    <3> DEFINE needed == a.amount + a.used
               more == a.amount + b.used
               all == a.list
    <3>1. S = pickGreedy(all, needed) /\ T = pickGreedy(all, more)
      BY <1>7, <1>17
    <3>2. all \in SUBSET Coin /\ needed \in Int /\ more \in Int /\ needed <= more
      BY <1>1, <2>2
    <3>3. Total(S) >= more => Total(pickGreedy(all, needed)) >= more
      BY <3>1
    <3> HIDE DEF needed, more, all
    <3>4. /\ pickGreedy(all, needed) \subseteq pickGreedy(all, more)
          /\ Total(pickGreedy(all, needed)) >= more => pickGreedy(all, more) = pickGreedy(all, needed)
      BY <3>2, GreedyGrows
    <3>5. S \subseteq T /\ (Total(S) >= more => T = S)
      BY <3>1, <3>3, <3>4
    <3> QED  BY <3>5 DEF more
  <2>4. CASE Total(S) >= a.amount + b.used
    <3>1. S = T /\ x > 0 /\ y >= 0 /\ k = l
      BY <1>1, <1>5, <1>14, <2>1, <2>2, <2>3, <2>4
    <3>2. (y > 0 /\ next = size) \/ (~(y > 0) /\ next + 1 <= size)
      BY <1>12, <1>14, <3>1
    <3>3. Settling(b.pass, l, b.used, next, y > 0)
      BY <1>1, <1>4, <1>10, <1>13, <3>1, <3>2 DEF Settling
    <3> QED  BY <1>11, <1>15, <1>17, <3>3 DEF T
  <2>5. CASE ~(Total(S) >= a.amount + b.used)
    <3> SUFFICES ASSUME Affords(b, T) PROVE Closing(b)
      BY <1>15 DEF T
    <3>1. Total(T) >= a.amount + b.used /\ S # T
      BY <1>9, <1>17, <2>5
    <3>2. k < l
      BY <1>4, <2>3, <3>1, FS_Subset DEF k, l
    <3>3. ~(a.used >= size /\ x > 0)
      <4> SUFFICES ASSUME a.used >= size, x > 0 PROVE FALSE
        OBVIOUS
      <4>1. b.used <= a.used + 1
        BY <1>1, <1>10, <1>13
      <4>2. Total(S) >= a.amount + a.used + 1
        BY <1>1, <1>5, <2>1
      <4> QED  BY <1>1, <1>5, <2>5, <4>1, <4>2
    <3>4. b.pass < l
      BY <1>1, <1>4, <1>10, <1>13, <1>17, <3>2, <3>3 DEF Settling
    <3> QED  BY <1>11, <3>4 DEF Settling
  <2> QED  BY <2>4, <2>5
<1> QED  BY <1>16, <1>17

LEMMA FlooredStep ==
    ASSUME PayInv, NEW r \in Ask, NEW pc \in Places, NEW b \in Requests, Go(r, pc, b)
    PROVE  /\ \A s \in Ask \ {r} : ask'[s] = ask[s]
           /\ ask'[r] \in Requests /\ ask'[r].pc = pc
           /\ ask'[r].amount = b.amount /\ ask'[r].all = b.all /\ ask'[r].list = b.list
           /\ ask'[r].ins = b.ins /\ ask'[r].tx = b.tx /\ ask'[r].used = b.used
           /\ ask'[r].size = b.size /\ ask'[r].pass = b.pass
<1> DEFINE x == [b EXCEPT !.pc = pc]
<1>1. ask' = [ask EXCEPT ![r] = x] /\ ask \in [Ask -> Requests]
  BY DEF Go, PayInv
<1>2. /\ x \in Requests /\ x.pc = pc /\ x.amount = b.amount /\ x.all = b.all /\ x.list = b.list
      /\ x.ins = b.ins /\ x.tx = b.tx /\ x.used = b.used /\ x.size = b.size /\ x.pass = b.pass
  BY DEF Requests
<1> HIDE DEF x
<1>3. ask'[r] = x /\ \A s \in Ask \ {r} : ask'[s] = ask[s]
  BY <1>1
<1> QED  BY <1>2, <1>3

(* A request of LBTC moves to a place where nothing is asked of it. *)
LEMMA FloorElsewhere ==
    ASSUME FloorInv, chain' = chain, NEW r \in Ask, \A s \in Ask \ {r} : ask'[s] = ask[s],
           chain = "LBTC" => Floored(ask'[r])
    PROVE  FloorInv'
<1>1. ASSUME chain = "LBTC", NEW s \in Ask PROVE Floored(ask'[s])
  BY <1>1 DEF FloorInv
<1> QED  BY <1>1 DEF FloorInv

LEMMA FloorQuiet ==
    ASSUME PayInv, FloorInv, chain' = chain, NEW r \in Ask,
           NEW pc \in Places \ {"pass", "final", "broadcast"}, NEW b \in Requests, Go(r, pc, b)
    PROVE  FloorInv'
<1>1. pc \in Places
  OBVIOUS
<1>2. ask'[r].pc = pc /\ \A s \in Ask \ {r} : ask'[s] = ask[s]
  BY <1>1, FlooredStep
<1>3. Floored(ask'[r])
  BY <1>2 DEF Floored
<1> QED  BY <1>2, <1>3, FloorElsewhere

LEMMA FloorFails == ASSUME PayInv, FloorInv, NEW r \in Ask, Fail(r) PROVE FloorInv'
<1>1. Go(r, "failed", ask[r]) /\ chain' = chain /\ ask[r] \in Requests
  BY DEF Fail, PayInv
<1> QED  BY <1>1, FloorQuiet DEF Places

LEMMA FloorOther ==
    ASSUME PayInv, FloorInv, NEW r \in Ask,
           Estimate(r) \/ ProbeList(r) \/ Probe(r) \/ Select(r)
    PROVE  FloorInv'
<1>1. chain' = chain /\ ask[r] \in Requests /\ Progress(ask[r], r)
  BY DEF Estimate, ProbeList, Probe, Probed, Select, Fail, PayInv
<1>2. CASE chain # "LBTC"
  BY <1>1, <1>2 DEF FloorInv
<1>3. CASE chain = "LBTC"
  <2>1. Estimate(r) /\ ask[r].op # "send"
    BY <1>1, <1>3 DEF ProbeList, Probe, Select, Estimate, At, Progress, Way
  <2> DEFINE f == Estimated(Listed, ask[r].amount).fee
  <2> DEFINE b == [ask[r] EXCEPT !.fee = f]
  <2>2. Go(r, "failed", ask[r]) \/ Go(r, "answered", b)
    BY <2>1 DEF Estimate
  <2>3. ask[r].amount \in Int
    BY <1>1 DEF Requests
  <2>4. f \in Int
    BY <2>3, ListedCoins, EstimateType
  <2> HIDE DEF f
  <2>5. b \in Requests
    BY <1>1, <2>4 DEF Requests
  <2> HIDE DEF b
  <2>6. "failed" \in Places \ {"pass", "final", "broadcast"} /\ "answered" \in Places \ {"pass", "final", "broadcast"}
    BY DEF Places
  <2> QED  BY <1>1, <2>2, <2>5, <2>6, FloorQuiet
<1> QED  BY <1>2, <1>3

(* Before the first pass some coin was listed. *)
LEMMA FloorBegin == ASSUME PayInv, FloorInv, NEW r \in Ask, Begin(r) PROVE FloorInv'
<1>1. chain' = chain
  BY DEF Begin
<1>2. PICK a \in Asks[r] :
        LET q == [Idle EXCEPT !.op = a.op, !.amount = a.amount, !.fee = a.fee,
                              !.all = a.all /\ chain = "LBTC", !.list = Listed, !.used = a.fee]
            next == CASE Listed = {} -> "failed"
                      [] Listed # {} /\ chain = "LBTC" -> IF a.op = "send" THEN "pass" ELSE "estimate"
                      [] Listed # {} /\ chain # "LBTC" ->
                            IF a.op = "send" /\ a.fee > 0 THEN "select" ELSE "estimate"
        IN  Go(r, next, q)
  BY DEF Begin
<1> DEFINE l == Listed
<1> DEFINE q == [Idle EXCEPT !.op = a.op, !.amount = a.amount, !.fee = a.fee,
                             !.all = a.all /\ chain = "LBTC", !.list = l, !.used = a.fee]
<1>3. CASE chain # "LBTC"
  BY <1>1, <1>3 DEF FloorInv
<1>4. CASE chain = "LBTC"
  <2>1. \/ Go(r, "failed", q)
        \/ Go(r, "estimate", q)
        \/ Go(r, "pass", q) /\ l # {}
    BY <1>2, <1>4
  <2>2. l \in SUBSET Coin
    BY ListedCoins
  <2>3. /\ ask' = [ask EXCEPT ![r] = [q EXCEPT !.pc = "failed"]] \/ ask' = [ask EXCEPT ![r] = [q EXCEPT !.pc = "estimate"]]
           \/ (ask' = [ask EXCEPT ![r] = [q EXCEPT !.pc = "pass"]] /\ l # {})
        /\ ask \in [Ask -> Requests]
    BY <2>1 DEF Go, PayInv
  <2>4. /\ [q EXCEPT !.pc = "failed"].pc = "failed" /\ [q EXCEPT !.pc = "estimate"].pc = "estimate"
        /\ [q EXCEPT !.pc = "pass"].pc = "pass" /\ [q EXCEPT !.pc = "pass"].pass = 0
        /\ [q EXCEPT !.pc = "pass"].list = l
    BY DEF Idle
  <2> HIDE DEF q, l
  <2>5. \A s \in Ask \ {r} : ask'[s] = ask[s]
    BY <2>3
  <2>6. \/ ask'[r].pc \in {"failed", "estimate"}
        \/ ask'[r].pc = "pass" /\ ask'[r].pass = 0 /\ ask'[r].list = l /\ l # {}
    BY <2>3, <2>4
  <2> DEFINE b == ask'[r]
  <2>7. b.pc \in {"failed", "estimate"} \/ (b.pc = "pass" /\ b.pass = 0 /\ b.list = l /\ l # {})
    BY <2>6
  <2> HIDE DEF b
  <2>8. ASSUME b.pc \in {"failed", "estimate"} PROVE Floored(b)
    BY <2>8 DEF Floored
  <2>9. ASSUME b.pc = "pass", b.pass = 0, b.list = l, l # {} PROVE Floored(b)
    <3> DEFINE S == Inputs(b)
    <3>1. S \in SUBSET Coin /\ S # {}
      BY <2>2, <2>9, GreedyPicks DEF Inputs
    <3>2. Cardinality(S) \in Nat /\ Cardinality(S) # 0
      BY <3>1, AgentAssumption, FS_Subset, FS_CardinalityType, FS_EmptySet
    <3>3. Closing(b) <=> Settling(b.pass, Cardinality(S), b.used, Size(S, Change(b, S)), b.all \/ Change(b, S) > 0)
      BY DEF Closing
    <3> HIDE DEF S
    <3>4. Closing(b)
      BY <2>9, <3>2, <3>3 DEF Settling
    <3> QED  BY <2>9, <3>4 DEF Floored
  <2>10. Floored(b)
    BY <2>7, <2>8, <2>9
  <2> QED  BY <1>1, <2>5, <2>10, FloorElsewhere DEF b
<1> QED  BY <1>3, <1>4

LEMMA FloorPass == ASSUME FewCoins, PayInv, FloorInv, NEW r \in Ask, Pass(r) PROVE FloorInv'
<1> DEFINE a == ask[r]
           ins == Inputs(a)
<1>1. a \in Requests /\ a.pc = "pass" /\ chain' = chain
  BY DEF Pass, At, PayInv, Fail
<1>2. CASE Fail(r)
  BY <1>2, FloorFails
<1>3. CASE ~Fail(r) /\ chain # "LBTC"
  BY <1>1, <1>3 DEF FloorInv
<1>4. CASE ~Fail(r) /\ chain = "LBTC"
  <2>1. PICK jitter \in 0 .. 1 :
          LET size == Size(ins, Change(a, ins)) + jitter
              settled == Covers(a.used, size)
              b == [a EXCEPT !.ins = ins, !.size = IF settled THEN size ELSE 0,
                             !.used = IF settled THEN @ ELSE size, !.pass = @ + 1]
          IN  Go(r, IF settled \/ b.pass = MaxPasses THEN "final" ELSE "pass", b)
    BY <1>4 DEF Pass
  <2> DEFINE size == Size(ins, Change(a, ins)) + jitter
  <2> DEFINE settled == Covers(a.used, size)
  <2> DEFINE left == IF settled THEN size ELSE 0
  <2> DEFINE used == IF settled THEN a.used ELSE size
  <2> DEFINE b == [a EXCEPT !.ins = ins, !.size = left, !.used = used, !.pass = a.pass + 1]
  <2> DEFINE pc == IF settled \/ b.pass = MaxPasses THEN "final" ELSE "pass"
  <2>2. Go(r, pc, b)
    BY <2>1
  <2>3. Affords(a, ins) /\ Floored(a)
    BY <1>4 DEF Pass, FloorInv
  <2>4. Closing(a)
    BY <1>1, <2>3 DEF Floored
  <2>5. ask[r] = a
    OBVIOUS
  <2> HIDE DEF a
  <2>6. /\ a.list \in SUBSET Coin /\ a.used \in Int /\ a.pass \in Int /\ a.amount \in Int
        /\ ins \in SUBSET Coin /\ Total(ins) \in Nat
    <3>1. a.list \in SUBSET Coin /\ a.used \in Int /\ a.pass \in Int /\ a.amount \in Int
      BY <1>1 DEF Requests
    <3>2. ins \in SUBSET Coin
      BY <3>1, GreedyPicks DEF Inputs
    <3> QED  BY <3>1, <3>2, TotalIsNumber
  <2>7. Change(a, ins) \in Int
    BY <2>6 DEF Change, Pays
  <2>8. Size(ins, Change(a, ins)) \in Nat \ {0}
    BY <2>6, <2>7, SizeFacts
  <2>9. size \in Nat \ {0}
    BY <2>8
  <2>10. ~settled => ~Covers(a.used, Size(Inputs(a), Change(a, Inputs(a))) + jitter)
                     /\ size = Size(Inputs(a), Change(a, Inputs(a))) + jitter
    OBVIOUS
  <2>11. Affords(a, Inputs(a))
    BY <2>3
  <2>12. settled => a.used >= size
    BY DEF Covers
  <2> HIDE DEF ins, size
  <2>13. left \in Int /\ used \in Int /\ (settled => left = size /\ used = a.used) /\ (~settled => used = size)
    BY <2>6, <2>9
  <2> HIDE DEF settled, left, used
  <2>14. /\ b \in Requests /\ b.all = a.all /\ b.list = a.list /\ b.amount = a.amount
         /\ b.used = used /\ b.size = left /\ b.pass = a.pass + 1
    <3> DEFINE c == [a EXCEPT !.ins = ins]
    <3> DEFINE d == [c EXCEPT !.size = left]
    <3> DEFINE e == [d EXCEPT !.used = used]
    <3>1. b = [e EXCEPT !.pass = a.pass + 1]
      OBVIOUS
    <3>2. c \in Requests /\ c.all = a.all /\ c.list = a.list /\ c.amount = a.amount
      BY <1>1, <2>6 DEF Requests
    <3> HIDE DEF c
    <3>3. d \in Requests /\ d.all = a.all /\ d.list = a.list /\ d.amount = a.amount /\ d.size = left
      BY <2>13, <3>2 DEF Requests
    <3> HIDE DEF d
    <3>4. /\ e \in Requests /\ e.all = a.all /\ e.list = a.list /\ e.amount = a.amount
          /\ e.size = left /\ e.used = used
      BY <2>13, <3>3 DEF Requests
    <3> HIDE DEF e
    <3>5. a.pass + 1 \in Int
      BY <2>6
    <3> QED  BY <3>1, <3>4, <3>5 DEF Requests
  <2>15. ~settled => b.pass # MaxPasses /\ (Affords(b, Inputs(b)) => Closing(b))
    <3> SUFFICES ASSUME ~settled PROVE b.pass # MaxPasses /\ (Affords(b, Inputs(b)) => Closing(b))
      OBVIOUS
    <3> HIDE DEF b
    <3>1. b.used = Size(Inputs(a), Change(a, Inputs(a))) + jitter
      BY <2>10, <2>13, <2>14
    <3> QED  BY <1>1, <2>4, <2>10, <2>11, <2>14, <3>1, PassCloses
  <2>16. IF settled THEN pc = "final" ELSE pc = "pass"
    BY <2>15
  <2>17. pc \in Places
    BY <2>16 DEF Places
  <2> HIDE DEF b, pc
  <2> DEFINE x == ask'[r]
  <2>18. /\ \A s \in Ask \ {r} : ask'[s] = ask[s]
         /\ x \in Requests /\ x.pc = pc /\ x.amount = b.amount /\ x.all = b.all /\ x.list = b.list
         /\ x.used = b.used /\ x.size = b.size /\ x.pass = b.pass
    <3>1. b \in Requests
      BY <2>14
    <3>2. /\ \A s \in Ask \ {r} : ask'[s] = ask[s]
          /\ ask'[r] \in Requests /\ ask'[r].pc = pc
          /\ ask'[r].amount = b.amount /\ ask'[r].all = b.all /\ ask'[r].list = b.list
          /\ ask'[r].used = b.used /\ ask'[r].size = b.size /\ ask'[r].pass = b.pass
      BY <2>2, <2>17, <3>1, FlooredStep
    <3> QED  BY <3>2
  <2> HIDE DEF x
  <2>19. ASSUME settled PROVE Floored(x)
    <3>1. x.pc = "final" /\ x.size = size /\ x.used = a.used /\ a.used >= size
      BY <2>12, <2>13, <2>14, <2>16, <2>18, <2>19
    <3> QED  BY <2>9, <3>1 DEF Floored
  <2>20. ASSUME ~settled PROVE Floored(x)
    <3>1. x.pc = "pass"
      BY <2>16, <2>18, <2>20
    <3>2. Inputs(x) = Inputs(b)
      BY <2>18 DEF Inputs
    <3> DEFINE S == Inputs(b)
    <3>3. Affords(x, S) = Affords(b, S) /\ Change(x, S) = Change(b, S)
      BY <2>18 DEF Affords, Change, Pays
    <3>4. Affords(x, Inputs(x)) => Affords(b, Inputs(b))
      BY <3>2, <3>3
    <3>5. Closing(b) => Closing(x)
      BY <2>18, <3>2, <3>3 DEF Closing
    <3> QED  BY <2>15, <2>20, <3>1, <3>4, <3>5 DEF Floored
  <2> QED  BY <1>1, <2>18, <2>19, <2>20, FloorElsewhere DEF x
<1> QED  BY <1>2, <1>3, <1>4

LEMMA FloorFinal == ASSUME PayInv, FloorInv, NEW r \in Ask, Final(r) PROVE FloorInv'
<1> DEFINE a == ask[r]
<1>1. a \in Requests /\ a.pc = "final" /\ chain' = chain
  BY DEF Final, At, PayInv, Fail
<1>2. CASE Fail(r)
  BY <1>2, FloorFails
<1>3. CASE ~Fail(r) /\ chain # "LBTC"
  BY <1>1, <1>3 DEF FloorInv
<1>4. CASE ~Fail(r) /\ chain = "LBTC"
  <2>1. PICK jitter \in 0 .. 1 :
          LET size == Size(a.ins, Change(a, a.ins)) + jitter
          IN  /\ a.size > 0 => size = a.size
              /\ Go(r, "broadcast", [a EXCEPT !.paid = a.used, !.tx =
                    [by |-> r, probe |-> FALSE, ins |-> a.ins, pays |-> Pays(a, a.ins),
                     change |-> Change(a, a.ins), size |-> size]])
    BY <1>4 DEF Final
  <2> DEFINE size == Size(a.ins, Change(a, a.ins)) + jitter
  <2> DEFINE pays == Pays(a, a.ins)
  <2> DEFINE change == Change(a, a.ins)
  <2> DEFINE t == [by |-> r, probe |-> FALSE, ins |-> a.ins, pays |-> pays, change |-> change, size |-> size]
  <2> DEFINE b == [a EXCEPT !.paid = a.used, !.tx = t]
  <2>2. (a.size > 0 => size = a.size) /\ Go(r, "broadcast", b)
    BY <2>1
  <2>3. a.size > 0 /\ a.used >= a.size
    BY <1>1, <1>4 DEF Floored, FloorInv
  <2> HIDE DEF a
  <2>4. a.ins \in SUBSET Coin /\ a.used \in Int /\ a.amount \in Int /\ a.size \in Int
    BY <1>1 DEF Requests
  <2>5. Total(a.ins) \in Nat
    BY <2>4, TotalIsNumber
  <2>6. pays \in Int
    BY <2>4, <2>5 DEF Pays
  <2>7. change = Total(a.ins) - pays - a.used
    BY DEF Change
  <2> HIDE DEF pays, change
  <2>8. change \in Int /\ Total(a.ins) - pays - change = a.used
    BY <2>4, <2>5, <2>6, <2>7
  <2>9. size = a.size
    BY <2>2, <2>3
  <2> HIDE DEF size
  <2>10. t \in Payments /\ t.ins = a.ins /\ t.pays = pays /\ t.change = change /\ t.size = size
    BY <2>4, <2>6, <2>8, <2>9 DEF Payments
  <2> HIDE DEF t
  <2>11. Spend(t) >= t.size
    BY <2>3, <2>8, <2>9, <2>10 DEF Spend
  <2>12. b \in Requests /\ b.tx = t
    BY <1>1, <2>4, <2>10 DEF Requests
  <2> HIDE DEF b
  <2>13. "broadcast" \in Places
    BY DEF Places
  <2>14. /\ \A s \in Ask \ {r} : ask'[s] = ask[s]
         /\ ask'[r].pc = "broadcast" /\ ask'[r].tx = b.tx
    BY <2>2, <2>12, <2>13, FlooredStep
  <2>15. Floored(ask'[r])
    BY <2>11, <2>12, <2>14 DEF Floored
  <2> QED  BY <1>1, <2>14, <2>15, FloorElsewhere
<1> QED  BY <1>2, <1>3, <1>4

LEMMA FloorBroadcast == ASSUME PayInv, FloorInv, NEW r \in Ask, Broadcast(r) PROVE FloorInv'
<1> DEFINE a == ask[r]
<1> DEFINE b == [a EXCEPT !.tries = a.tries + 1]
<1>1. a \in Requests /\ a.pc = "broadcast" /\ chain' = chain
  BY DEF Broadcast, At, PayInv
<1>2. Go(r, "answered", a) \/ Go(r, "broadcast", b) \/ Go(r, "failed", b)
  BY DEF Broadcast, Again
<1>3. chain = "LBTC" => Spend(a.tx) >= a.tx.size
  BY <1>1 DEF FloorInv, Floored
<1> HIDE DEF a
<1>4. b \in Requests /\ b.tx = a.tx
  <2>1. a.tries + 1 \in Int
    BY <1>1 DEF Requests
  <2> QED  BY <1>1, <2>1 DEF Requests
<1> HIDE DEF b
<1>5. CASE Go(r, "answered", a) \/ Go(r, "failed", b)
  <2>1. "answered" \in Places \ {"pass", "final", "broadcast"} /\ "failed" \in Places \ {"pass", "final", "broadcast"}
    BY DEF Places
  <2> QED  BY <1>1, <1>4, <1>5, <2>1, FloorQuiet
<1>6. CASE Go(r, "broadcast", b)
  <2>1. "broadcast" \in Places
    BY DEF Places
  <2>2. /\ \A s \in Ask \ {r} : ask'[s] = ask[s]
        /\ ask'[r].pc = "broadcast" /\ ask'[r].tx = b.tx
    BY <1>4, <1>6, <2>1, FlooredStep
  <2>3. chain = "LBTC" => Floored(ask'[r])
    BY <1>3, <1>4, <2>2 DEF Floored
  <2> QED  BY <1>1, <2>2, <2>3, FloorElsewhere
<1> QED  BY <1>2, <1>5, <1>6

LEMMA StepFloor == ASSUME FewCoins, PayInv, FloorInv, [AgentNext]_asvars PROVE FloorInv'
<1>1. CASE UNCHANGED <<chain, ask>>
  <2>1. ASSUME NEW r \in Ask, chain = "LBTC" PROVE Floored(ask'[r])
    BY <1>1, <2>1 DEF FloorInv
  <2> QED  BY <1>1, <2>1 DEF FloorInv
<1>2. CASE \E r \in Ask : Begin(r) \/ Estimate(r) \/ ProbeList(r) \/ Probe(r) \/ Select(r) \/ Pass(r)
                          \/ Final(r) \/ Broadcast(r)
  BY <1>2, FloorBegin, FloorOther, FloorPass, FloorFinal, FloorBroadcast
<1> QED  BY <1>1, <1>2 DEF AgentNext, asvars, Confirmed, Received

(* A request to pay pays at most once, what it reports is what the network *)
(* took, and what LBTC is offered pays the relay floor of its signed size: *)
(* for any requests, coins and sizes, when the fee loop may make two       *)
(* passes more than the address has coins.                                 *)
THEOREM PaymentsAlwaysSound == ASSUME FewCoins PROVE AgentSpec => []PaymentSound
<1>1. AgentInit => PayInv /\ FloorInv
  <2> SUFFICES ASSUME AgentInit PROVE FloorInv
    BY InitPayInv
  <2>1. \A r \in Ask : ask[r].pc = "idle"
    BY DEF AgentInit, Idle
  <2> QED  BY <2>1 DEF FloorInv, Floored
<1>2. PayInv /\ FloorInv /\ [AgentNext]_asvars => PayInv' /\ FloorInv'
  BY StepPayInv, StepFloor
<1>3. FloorInv => FloorPaid
  BY DEF FloorInv, Floored, FloorPaid, At
<1>4. AgentSpec => []FloorPaid
  BY <1>1, <1>2, <1>3, PTL DEF AgentSpec
<1>5. PaysOnce /\ SuccessIsPaid /\ FloorPaid => PaymentSound
  BY DEF PaymentSound
<1> QED  BY <1>4, <1>5, PaymentsAlwaysTold, PTL
-----------------------------------------------------------------------------
(* The event stream *)

Rises(q, a, b) == \A i, j \in a .. b : i < j => q[i] < q[j]

(* Events that came before the replay, and the history with what follows it. *)
TwoRuns(q) == \E k \in 0 .. Len(q) : Rises(q, 1, k) /\ Rises(q, k + 1, Len(q))

HistoryRight(h, p) ==
    /\ p \in Nat
    /\ h \in Seq(Nat) /\ Len(h) <= p
    /\ \A i \in 1 .. Len(h) : h[i] = p - Len(h) + i

Streams == [phase : {"away", "registered", "live"}, queue : Seq(Nat), got : SUBSET Nat, from : Nat, dropped : BOOLEAN]

Present(x, p) == \A e \in x.from .. p : e \in x.got \/ \E i \in 1 .. Len(x.queue) : x.queue[i] = e

StreamRight(x, p) ==
    /\ x \in Streams
    /\ \A i \in 1 .. Len(x.queue) : x.queue[i] <= p
    /\ x.phase = "away" => x = Nobody
    /\ x.phase = "registered" => Rises(x.queue, 1, Len(x.queue)) /\ Len(x.queue) <= QueueLen
    /\ x.phase = "live" => TwoRuns(x.queue) /\ (~x.dropped => Present(x, p))

EventsInv ==
    /\ HistoryRight(history, published)
    /\ client \in [Client -> Streams] /\ \A c \in Client : StreamRight(client[c], published)

LEMMA EventAppended ==
    ASSUME NEW q \in Seq(Nat), NEW e \in Nat
    PROVE  /\ Append(q, e) \in Seq(Nat) /\ Len(Append(q, e)) = Len(q) + 1 /\ Len(q) \in Nat
           /\ Append(q, e)[Len(q) + 1] = e
           /\ \A i \in 1 .. Len(q) : Append(q, e)[i] = q[i]
  OBVIOUS

(* A newer event at the end. *)
LEMMA NewestLast ==
    ASSUME NEW q \in Seq(Nat), NEW p \in Nat, \A i \in 1 .. Len(q) : q[i] <= p
    PROVE  /\ Rises(q, 1, Len(q)) => Rises(Append(q, p + 1), 1, Len(q) + 1)
           /\ TwoRuns(q) => TwoRuns(Append(q, p + 1))
<1> DEFINE n == Len(q)
<1> DEFINE a == Append(q, p + 1)
<1>1. /\ a \in Seq(Nat) /\ Len(a) = n + 1 /\ n \in Nat /\ a[n + 1] = p + 1
      /\ \A i \in 1 .. n : a[i] = q[i]
  BY EventAppended
<1>2. \A i \in 1 .. n : q[i] \in Nat
  OBVIOUS
<1> HIDE DEF a, n
<1>3. ASSUME NEW k \in 1 .. n + 1, Rises(q, k, n) PROVE Rises(a, k, n + 1)
  <2> SUFFICES ASSUME NEW i \in k .. n + 1, NEW j \in k .. n + 1, i < j PROVE a[i] < a[j]
    BY DEF Rises
  <2>1. i \in 1 .. n /\ i \in k .. n /\ a[i] = q[i] /\ q[i] \in Nat /\ q[i] <= p
    <3>1. \A e \in 1 .. n : q[e] <= p
      BY DEF n
    <3>2. n \in Nat /\ k \in 1 .. n + 1 /\ i \in k .. n + 1 /\ j \in k .. n + 1 /\ i < j
      BY <1>1, <1>3
    <3>3. i \in 1 .. n /\ i \in k .. n
      BY ONLY <3>2
    <3> QED  BY ONLY <1>1, <1>2, <3>1, <3>3
  <2>2. CASE j = n + 1
    BY <1>1, <2>1, <2>2
  <2>3. CASE j # n + 1
    <3>1. j \in 1 .. n /\ j \in k .. n
      BY <1>1, <2>3
    <3> QED  BY <1>1, <1>3, <2>1, <3>1 DEF Rises
  <2> QED  BY <2>2, <2>3
<1>4. ASSUME NEW k \in 0 .. n, Rises(q, 1, k) PROVE Rises(a, 1, k)
  <2>1. 1 .. k \subseteq 1 .. n
    BY <1>1
  <2> QED  BY <1>1, <1>4, <2>1 DEF Rises
<1>5. ASSUME TwoRuns(q) PROVE TwoRuns(a)
  <2>1. PICK k \in 0 .. n : Rises(q, 1, k) /\ Rises(q, k + 1, n)
    BY <1>5 DEF TwoRuns, n
  <2>2. k \in 0 .. n + 1 /\ k + 1 \in 1 .. n + 1
    BY <1>1
  <2>3. Rises(a, 1, k) /\ Rises(a, k + 1, n + 1)
    BY <1>3, <1>4, <2>1, <2>2
  <2> QED  BY <1>1, <2>2, <2>3 DEF TwoRuns
<1>6. Rises(q, 1, n) => Rises(a, 1, n + 1)
  <2>1. 1 \in 1 .. n + 1
    BY <1>1
  <2> QED  BY <1>3, <2>1
<1> QED  BY <1>5, <1>6 DEF a, n

LEMMA OneLess ==
    ASSUME NEW q \in Seq(Nat), q # <<>>, TwoRuns(q)
    PROVE  TwoRuns(Tail(q))
<1> DEFINE n == Len(q)
<1> DEFINE t == Tail(q)
<1>1. t \in Seq(Nat) /\ n \in Nat \ {0} /\ Len(t) = n - 1 /\ \A i \in 1 .. n - 1 : t[i] = q[i + 1]
  OBVIOUS
<1> HIDE DEF t
<1>2. PICK k \in 0 .. n : Rises(q, 1, k) /\ Rises(q, k + 1, n)
  BY DEF TwoRuns
<1> HIDE DEF n
<1> DEFINE m == IF k = 0 THEN 0 ELSE k - 1
<1>3. m \in 0 .. n - 1 /\ (k = 0 => m = 0) /\ (k # 0 => m + 1 = k)
  BY <1>1
<1>4. ASSUME NEW a \in 1 .. n + 1, NEW b \in 0 .. n, NEW c \in Int, NEW d \in Int,
             Rises(q, a, b), c >= 1, c + 1 >= a, d + 1 <= b
      PROVE  Rises(t, c, d)
  <2> SUFFICES ASSUME NEW i \in c .. d, NEW j \in c .. d, i < j PROVE t[i] < t[j]
    BY DEF Rises
  <2>1. i + 1 \in a .. b /\ j + 1 \in a .. b /\ i + 1 < j + 1 /\ i \in 1 .. n - 1 /\ j \in 1 .. n - 1
    BY <1>1, <1>4
  <2> QED  BY <1>1, <1>4, <2>1 DEF Rises
<1>5. Rises(t, 1, m)
  <2>1. CASE k = 0
    <3>1. 1 .. m = {}
      BY <1>3, <2>1
    <3> QED  BY <3>1 DEF Rises
  <2>2. CASE k # 0
    <3>1. 1 \in 1 .. n + 1 /\ m \in Int /\ m + 1 <= k
      BY <1>1, <1>3, <2>2
    <3> QED  BY <1>2, <1>4, <3>1
  <2> QED  BY <2>1, <2>2
<1>6. Rises(t, m + 1, n - 1)
  <2>1. /\ k + 1 \in 1 .. n + 1 /\ n \in 0 .. n /\ m + 1 \in Int /\ n - 1 \in Int
        /\ m + 1 >= 1 /\ m + 1 + 1 >= k + 1 /\ n - 1 + 1 <= n
    BY <1>1, <1>3
  <2> HIDE DEF m
  <2> QED  BY <1>2, <1>4, <2>1
<1> QED  BY <1>1, <1>3, <1>5, <1>6 DEF TwoRuns, t

(* What is left of two rising runs, cut behind the first. *)
LEMMA Joined ==
    ASSUME NEW q \in Seq(Nat), NEW h \in Seq(Nat), Rises(q, 1, Len(q)), Rises(h, 1, Len(h)),
           NEW s \in Seq(Nat), Len(q) <= Len(s), Len(s) <= Len(q) + Len(h),
           \A i \in 1 .. Len(s) : s[i] = (q \o h)[i]
    PROVE  TwoRuns(s)
<1> DEFINE n == Len(q)
<1> DEFINE m == Len(h)
<1> DEFINE l == Len(s)
<1>1. n \in Nat /\ m \in Nat /\ l \in Nat /\ n <= l /\ l <= n + m
  OBVIOUS
<1>2. \A i \in 1 .. n + m : (q \o h)[i] = IF i <= n THEN q[i] ELSE h[i - n]
  OBVIOUS
<1> HIDE DEF n, m, l
<1>3. \A i \in 1 .. l : s[i] = IF i <= n THEN q[i] ELSE h[i - n]
  <2>1. \A i \in 1 .. l : i \in 1 .. n + m
    BY <1>1
  <2> QED  BY <1>2, <2>1 DEF l
<1>4. Rises(s, 1, n)
  <2>1. \A i \in 1 .. n : i \in 1 .. l /\ i <= n
    BY <1>1
  <2> QED  BY <1>3, <2>1 DEF Rises, n
<1>5. Rises(s, n + 1, l)
  <2> SUFFICES ASSUME NEW i \in n + 1 .. l, NEW j \in n + 1 .. l, i < j PROVE s[i] < s[j]
    BY DEF Rises
  <2>1. /\ i \in 1 .. l /\ ~(i <= n) /\ j \in 1 .. l /\ ~(j <= n)
        /\ i - n \in 1 .. m /\ j - n \in 1 .. m /\ i - n < j - n
    BY <1>1
  <2> QED  BY <1>3, <2>1 DEF Rises, m
<1>6. n \in 0 .. l
  BY <1>1
<1> QED  BY <1>4, <1>5, <1>6 DEF TwoRuns, l

(* A number is at most once in each run. *)
LEMMA AtMostTwice ==
    ASSUME NEW q \in Seq(Nat), TwoRuns(q), NEW e
    PROVE  Cardinality({i \in DOMAIN q : q[i] = e}) <= 2
<1> DEFINE n == Len(q)
<1>1. n \in Nat /\ DOMAIN q = 1 .. n /\ \A i \in 1 .. n : q[i] \in Nat
  OBVIOUS
<1>2. PICK k \in 0 .. n : Rises(q, 1, k) /\ Rises(q, k + 1, n)
  BY DEF TwoRuns
<1> HIDE DEF n
<1> DEFINE S == {i \in 1 .. n : q[i] = e}
<1> DEFINE A == {i \in 1 .. k : q[i] = e}
<1> DEFINE B == {i \in k + 1 .. n : q[i] = e}
<1>3. S = A \cup B
  BY <1>1
<1>4. ASSUME NEW a \in 1 .. n + 1, NEW b \in 0 .. n, Rises(q, a, b)
      PROVE  \E i : {j \in a .. b : q[j] = e} \subseteq {i}
  <2>1. ASSUME NEW i \in a .. b, NEW j \in a .. b, q[i] = e, q[j] = e PROVE i = j
    <3>1. i \in 1 .. n /\ j \in 1 .. n /\ i \in Int /\ j \in Int
      BY <1>1
    <3>2. q[i] \in Nat /\ q[j] \in Nat
      BY <1>1, <3>1
    <3>3. ~(i < j) /\ ~(j < i)
      BY <1>4, <2>1, <3>2 DEF Rises
    <3> QED  BY <3>1, <3>3
  <2>2. CASE \E i \in a .. b : q[i] = e
    BY <2>1, <2>2
  <2>3. CASE ~\E i \in a .. b : q[i] = e
    BY <2>3
  <2> QED  BY <2>2, <2>3
<1>5. PICK x : A \subseteq {x}
  <2>1. 1 \in 1 .. n + 1
    BY <1>1
  <2> QED  BY <1>2, <1>4, <2>1
<1>6. PICK y : B \subseteq {y}
  <2>1. k + 1 \in 1 .. n + 1 /\ n \in 0 .. n
    BY <1>1
  <2> QED  BY <1>2, <1>4, <2>1
<1>7. S \subseteq {x, y}
  BY <1>3, <1>5, <1>6
<1>8. IsFiniteSet({x, y}) /\ Cardinality({x, y}) <= 2
  <2>1. IsFiniteSet({x}) /\ Cardinality({x}) = 1
    BY FS_Singleton
  <2>2. {x, y} = {x} \cup {y}
    OBVIOUS
  <2> DEFINE X == {x}
  <2>3. IsFiniteSet(X) /\ Cardinality(X) = 1
    BY <2>1
  <2> HIDE DEF X
  <2>4. /\ IsFiniteSet(X \cup {y})
        /\ Cardinality(X \cup {y}) = IF y \in X THEN Cardinality(X) ELSE Cardinality(X) + 1
    BY <2>3, FS_AddElement
  <2>5. Cardinality(X \cup {y}) <= 2
    BY <2>3, <2>4
  <2> QED  BY <2>2, <2>4, <2>5 DEF X
<1> HIDE DEF S, A, B
<1>9. Cardinality(S) <= Cardinality({x, y}) /\ Cardinality(S) \in Nat /\ Cardinality({x, y}) \in Nat
  BY <1>7, <1>8, FS_Subset, FS_CardinalityType
<1>10. Cardinality(S) <= 2
  BY <1>8, <1>9
<1> QED  BY <1>1, <1>10 DEF S

LEMMA HistoryRises ==
    ASSUME NEW h, NEW p, HistoryRight(h, p)
    PROVE  Rises(h, 1, Len(h))
<1> SUFFICES ASSUME NEW i \in 1 .. Len(h), NEW j \in 1 .. Len(h), i < j
             PROVE  h[i] < h[j]
  BY DEF Rises
<1>1. Len(h) \in Nat /\ p \in Nat
  BY DEF HistoryRight
<1>2. h[i] = p - Len(h) + i /\ h[j] = p - Len(h) + j
  BY DEF HistoryRight
<1> QED  BY <1>1, <1>2

LEMMA PublishHistory ==
    ASSUME NEW g, NEW p, HistoryRight(g, p)
    PROVE  HistoryRight(Trimmed(Append(g, p + 1)), p + 1)
<1> DEFINE n == Len(g)
<1> DEFINE h == Append(g, p + 1)
<1> DEFINE z == Trimmed(h)
<1>1. /\ h \in Seq(Nat) /\ Len(h) = n + 1 /\ n \in Nat /\ h[n + 1] = p + 1
      /\ \A i \in 1 .. n : h[i] = g[i]
  BY EventAppended DEF HistoryRight
<1>2. p \in Nat /\ n <= p /\ \A i \in 1 .. n : g[i] = p - n + i
  BY DEF HistoryRight
<1> HIDE DEF n
<1>3. \A i \in 1 .. n + 1 : h[i] = p - n + i
  <2> HIDE DEF h
  <2> SUFFICES ASSUME NEW i \in 1 .. n + 1 PROVE h[i] = p - n + i
    OBVIOUS
  <2>1. CASE i = n + 1
    BY <1>1, <1>2, <2>1
  <2>2. CASE i # n + 1
    <3>1. i \in 1 .. n
      BY <1>1, <2>2
    <3> QED  BY <1>1, <1>2, <3>1
  <2> QED  BY <2>1, <2>2
<1>4. z = h \/ z = Tail(h)
  BY DEF Trimmed
<1> HIDE DEF h, z
<1>5. ASSUME z = h PROVE HistoryRight(z, p + 1)
  <2>1. (p + 1) \in Nat /\ Len(h) <= (p + 1)
    BY <1>1, <1>2
  <2>2. \A i \in 1 .. n + 1 : h[i] = (p + 1) - (n + 1) + i
    BY <1>1, <1>2, <1>3
  <2>3. HistoryRight(h, p + 1)
    BY <1>1, <2>1, <2>2 DEF HistoryRight
  <2> QED  BY <1>5, <2>3
<1>6. ASSUME z = Tail(h) PROVE HistoryRight(z, p + 1)
  <2> DEFINE t == Tail(h)
  <2>1. h # <<>>
    BY <1>1
  <2>2. t \in Seq(Nat) /\ Len(t) = n /\ \A i \in 1 .. n : t[i] = h[i + 1]
    BY <1>1, <2>1
  <2> HIDE DEF t
  <2>3. \A i \in 1 .. n : t[i] = (p + 1) - n + i
    <3> SUFFICES ASSUME NEW i \in 1 .. n PROVE t[i] = (p + 1) - n + i
      OBVIOUS
    <3>1. i + 1 \in 1 .. n + 1 /\ t[i] = h[i + 1]
      BY <1>1, <2>2
    <3>2. h[i + 1] = p - n + (i + 1)
      BY <1>3, <3>1
    <3> QED  BY <1>1, <1>2, <3>1, <3>2
  <2>4. (p + 1) \in Nat /\ Len(t) <= (p + 1)
    BY <1>1, <1>2, <2>2
  <2>5. HistoryRight(t, p + 1)
    BY <2>2, <2>3, <2>4 DEF HistoryRight
  <2> QED  BY <1>6, <2>5 DEF t
<1> QED  BY <1>4, <1>5, <1>6 DEF z, h

(* An event offered to a subscriber's queue. *)
LEMMA PublishStream ==
    ASSUME NEW p \in Nat, NEW x, StreamRight(x, p), x.phase # "away"
    PROVE  StreamRight(Offer(x, p + 1), p + 1)
<1> DEFINE q == x.queue
<1> DEFINE n == Len(x.queue)
<1> DEFINE e == p + 1
<1>0. q \in Seq(Nat)
  BY DEF StreamRight, Streams
<1>4. \A i \in 1 .. n : q[i] \in Nat
  BY <1>0
<1>1. /\ x \in Streams /\ q \in Seq(Nat) /\ n \in Nat /\ p \in Nat /\ e \in Nat
      /\ \A i \in 1 .. n : q[i] <= p
  BY DEF StreamRight, Streams
<1>2. CASE ~(n < QueueLen)
  <2> DEFINE y == [x EXCEPT !.dropped = TRUE]
  <2>1. Offer(x, e) = y
    BY <1>2 DEF Offer
  <2>2. y \in Streams /\ y.phase = x.phase /\ y.queue = q /\ y.dropped = TRUE
    BY <1>1 DEF Streams
  <2> HIDE DEF y
  <2>3. \A i \in 1 .. n : q[i] <= p + 1
    <3>1. \A i \in 1 .. n : q[i] \in Nat
      BY <1>1
    <3> HIDE DEF n, q
    <3> QED  BY <1>1, <3>1
  <2>4. StreamRight(y, p + 1)
    BY <2>2, <2>3 DEF StreamRight, TwoRuns, Rises
  <2> QED  BY <2>1, <2>2, <2>4
<1>3. CASE n < QueueLen
  <2> DEFINE a == Append(q, e)
  <2> DEFINE y == [x EXCEPT !.queue = a]
  <2>1. Offer(x, e) = y
    BY <1>3 DEF Offer
  <2>2. /\ a \in Seq(Nat) /\ Len(a) = n + 1 /\ a[n + 1] = e
        /\ \A i \in 1 .. n : a[i] = q[i]
    BY <1>1, EventAppended
  <2>3. (Rises(q, 1, n) => Rises(a, 1, n + 1)) /\ (TwoRuns(q) => TwoRuns(a))
    BY <1>1, NewestLast
  <2> HIDE DEF a
  <2>4. y \in Streams /\ y.phase = x.phase /\ y.queue = a /\ y.dropped = x.dropped /\ y.got = x.got /\ y.from = x.from
    BY <1>1, <2>2 DEF Streams
  <2> HIDE DEF y
  <2>5. \A i \in 1 .. n + 1 : a[i] <= p + 1
    <3> SUFFICES ASSUME NEW i \in 1 .. n + 1 PROVE a[i] <= p + 1
      OBVIOUS
    <3>1. CASE i = n + 1
      BY <1>1, <2>2, <3>1
    <3>2. CASE i # n + 1
      <4>1. i \in 1 .. n
        BY <1>1, <3>2
      <4>2. a[i] = q[i]
        BY <2>2, <4>1
      <4> HIDE DEF q
      <4>3. q[i] <= p /\ q[i] \in Nat
        BY <1>1, <1>4, <4>1
      <4> QED  BY <1>1, <4>2, <4>3
    <3> QED  BY <3>1, <3>2
  <2>6. x.phase = "registered" => Rises(a, 1, n + 1) /\ n + 1 <= QueueLen
    BY <1>1, <1>3, <2>3, EventsAssumption DEF StreamRight
  <2>7. ASSUME x.phase = "live", ~x.dropped, NEW f \in x.from .. p + 1
        PROVE  f \in x.got \/ \E i \in 1 .. n + 1 : a[i] = f
    <3>1. CASE f = p + 1
      <4>1. n + 1 \in 1 .. n + 1
        BY <1>1
      <4> QED  BY <2>2, <3>1, <4>1
    <3>2. CASE f # p + 1
      <4>1. f \in x.from .. p
        BY <1>1, <3>2 DEF Streams
      <4>2. f \in x.got \/ \E i \in 1 .. n : q[i] = f
        BY <2>7, <4>1 DEF StreamRight, Present
      <4>3. \A i \in 1 .. n : i \in 1 .. n + 1
        BY <1>1
      <4> QED  BY <2>2, <4>2, <4>3
    <3> QED  BY <3>1, <3>2
  <2>8. x.phase = "live" => TwoRuns(a)
    BY <2>3 DEF StreamRight
  <2>9. Len(a) = n + 1 /\ x.phase # "away"
    BY <2>2
  <2>10. StreamRight(y, p + 1)
    <3>1. y.phase = "live" /\ ~y.dropped => Present(y, p + 1)
      BY <2>4, <2>7, <2>9 DEF Present
    <3> HIDE DEF n, q, e
    <3> QED  BY <2>4, <2>5, <2>6, <2>8, <2>9, <3>1 DEF StreamRight
  <2> QED  BY <2>1, <2>4, <2>10
<1> QED  BY <1>2, <1>3

(* The history offered to a subscriber that is registered. *)
LEMMA FilledStream ==
    ASSUME NEW p, NEW h, HistoryRight(h, p), NEW x, StreamRight(x, p), x.phase = "registered"
    PROVE  LET y == Filled(x, h)
           IN  /\ y \in Streams /\ y.got = x.got
               /\ TwoRuns(y.queue) /\ \A i \in 1 .. Len(y.queue) : y.queue[i] <= p
               /\ ~y.dropped => \A i \in 1 .. Len(h) : \E j \in 1 .. Len(y.queue) : y.queue[j] = h[i]
<1> DEFINE q == x.queue
<1> DEFINE n == Len(q)
<1> DEFINE m == Len(h)
<1> DEFINE all == q \o h
<1> DEFINE fits == n + m <= QueueLen
<1> DEFINE s == IF fits THEN all ELSE SubSeq(all, 1, QueueLen)
<1> DEFINE y == Filled(x, h)
<1>1. /\ x \in Streams /\ q \in Seq(Nat) /\ Rises(q, 1, n) /\ n <= QueueLen /\ n \in Nat
      /\ \A i \in 1 .. n : q[i] <= p
  BY DEF StreamRight, Streams
<1>2. h \in Seq(Nat) /\ m \in Nat /\ p \in Nat /\ m <= p
  BY DEF HistoryRight
<1>3. Rises(h, 1, m)
  BY HistoryRises
<1>4. /\ all \in Seq(Nat) /\ Len(all) = n + m
      /\ \A i \in 1 .. n + m : all[i] = IF i <= n THEN q[i] ELSE h[i - n]
  BY <1>1, <1>2
<1>5. \A i \in 1 .. m : h[i] <= p
  <2> SUFFICES ASSUME NEW i \in 1 .. m PROVE h[i] <= p
    OBVIOUS
  <2>1. h[i] = p - m + i
    BY DEF HistoryRight
  <2> QED  BY <1>2, <2>1
<1> HIDE DEF all
<1>6. s \in Seq(Nat) /\ n <= Len(s) /\ Len(s) <= n + m /\ \A i \in 1 .. Len(s) : s[i] = all[i]
  <2>1. CASE fits
    BY <1>1, <1>2, <1>4, <2>1
  <2>2. CASE ~fits
    <3>1. QueueLen \in Nat /\ QueueLen <= Len(all)
      BY <1>1, <1>2, <1>4, <2>2, EventsAssumption
    <3>2. /\ SubSeq(all, 1, QueueLen) \in Seq(Nat) /\ Len(SubSeq(all, 1, QueueLen)) = QueueLen
          /\ \A i \in 1 .. QueueLen : SubSeq(all, 1, QueueLen)[i] = all[i]
      BY <1>4, <3>1
    <3> QED  BY <1>1, <1>2, <1>4, <2>2, <3>1, <3>2
  <2> QED  BY <2>1, <2>2
<1>7. y \in Streams /\ y.got = x.got /\ y.queue = s /\ (~y.dropped => fits)
  <2>1. CASE fits
    <3> DEFINE z == [x EXCEPT !.queue = all]
    <3>1. y = z
      BY <1>4, <2>1 DEF Filled, all
    <3>2. z \in Streams /\ z.got = x.got /\ z.queue = all
      BY <1>1, <1>4 DEF Streams
    <3> QED  BY <2>1, <3>1, <3>2
  <2>2. CASE ~fits
    <3> DEFINE w == [x EXCEPT !.queue = s]
    <3> DEFINE z == [w EXCEPT !.dropped = TRUE]
    <3>1. y = z
      BY <1>4, <2>2 DEF Filled, all
    <3> HIDE DEF s
    <3>2. w \in Streams /\ w.got = x.got /\ w.queue = s
      BY <1>1, <1>6 DEF Streams
    <3> HIDE DEF w
    <3>3. z \in Streams /\ z.got = x.got /\ z.queue = s /\ z.dropped = TRUE
      BY <3>2 DEF Streams
    <3> QED  BY <3>1, <3>3
  <2> QED  BY <2>1, <2>2
<1>8. fits => s = all
  OBVIOUS
<1>9. \A i \in 1 .. Len(s) : s[i] = (q \o h)[i]
  BY <1>6 DEF all
<1> HIDE DEF s, y, fits
<1>10. TwoRuns(s)
  BY <1>1, <1>2, <1>3, <1>6, <1>9, Joined
<1>11. \A i \in 1 .. Len(s) : s[i] <= p
  <2> SUFFICES ASSUME NEW i \in 1 .. Len(s) PROVE s[i] <= p
    OBVIOUS
  <2>1. i \in 1 .. n + m /\ s[i] = all[i]
    <3>1. n \in Nat /\ m \in Nat /\ Len(s) \in Nat /\ Len(s) <= n + m /\ i \in 1 .. Len(s)
      BY <1>1, <1>2, <1>6
    <3>2. i \in 1 .. n + m
      BY ONLY <3>1
    <3> QED  BY ONLY <1>6, <3>1, <3>2
  <2> HIDE DEF n, m, q
  <2>2. CASE i <= n
    <3>1. i \in 1 .. n /\ all[i] = q[i]
      BY <1>1, <1>2, <1>4, <2>1, <2>2
    <3>2. q[i] <= p
      BY <1>1, <3>1
    <3> QED  BY <2>1, <3>1, <3>2
  <2>3. CASE ~(i <= n)
    <3>1. i - n \in 1 .. m
      BY <1>1, <1>2, <2>1, <2>3
    <3> QED  BY <1>4, <1>5, <2>1, <2>3, <3>1
  <2> QED  BY <2>2, <2>3
<1>12. ASSUME fits, NEW i \in 1 .. m PROVE \E j \in 1 .. Len(s) : s[j] = h[i]
  <2> HIDE DEF n, m, q
  <2> DEFINE k == n + i
  <2>1. k \in 1 .. n + m /\ ~(k <= n) /\ k - n = i
    BY <1>1, <1>2
  <2> HIDE DEF k
  <2>2. all[k] = h[i]
    BY <1>4, <2>1
  <2>3. Len(s) = n + m /\ s = all
    BY <1>4, <1>8, <1>12
  <2> QED  BY <2>1, <2>2, <2>3
<1> QED  BY <1>7, <1>10, <1>11, <1>12 DEF y

(* The replay makes a registered subscriber a live one. *)
LEMMA ReplayStream ==
    ASSUME NEW p, NEW h, HistoryRight(h, p), NEW x, StreamRight(x, p), x.phase = "registered",
           NEW f, f = IF h = <<>> THEN p + 1 ELSE h[1]
    PROVE  StreamRight([Filled(x, h) EXCEPT !.phase = "live", !.from = f], p)
<1> DEFINE y == Filled(x, h)
<1> DEFINE w == [y EXCEPT !.phase = "live"]
<1> DEFINE z == [w EXCEPT !.from = f]
<1> DEFINE m == Len(h)
<1>1. /\ y \in Streams /\ TwoRuns(y.queue) /\ \A i \in 1 .. Len(y.queue) : y.queue[i] <= p
      /\ ~y.dropped => \A i \in 1 .. m : \E j \in 1 .. Len(y.queue) : y.queue[j] = h[i]
  BY FilledStream
<1>2. /\ p \in Nat /\ m \in Nat /\ m <= p /\ \A i \in 1 .. m : h[i] = p - m + i
      /\ h \in Seq(Nat) /\ (h = <<>> <=> m = 0)
  BY DEF HistoryRight
<1>3. f = p - m + 1
  <2>1. CASE m = 0
    BY <1>2, <2>1
  <2>2. CASE m # 0
    <3>1. 1 \in 1 .. m
      BY <1>2, <2>2
    <3>2. h[1] = p - m + 1
      BY <1>2, <3>1
    <3> QED  BY <1>2, <2>2, <3>2
  <2> QED  BY <2>1, <2>2
<1> HIDE DEF y, m
<1>4. w \in Streams /\ w.phase = "live" /\ w.queue = y.queue /\ w.got = y.got /\ w.dropped = y.dropped
  BY <1>1 DEF Streams
<1>5. f \in Nat
  BY <1>2, <1>3
<1>6. [y EXCEPT !.phase = "live", !.from = f] = z
  OBVIOUS
<1> HIDE DEF w
<1>7. /\ z \in Streams /\ z.phase = "live" /\ z.queue = y.queue /\ z.got = y.got /\ z.dropped = y.dropped
      /\ z.from = f
  BY <1>4, <1>5 DEF Streams
<1> HIDE DEF z
<1>8. ASSUME ~y.dropped, NEW e \in f .. p PROVE \E j \in 1 .. Len(y.queue) : y.queue[j] = e
  <2>1. e - p + m \in 1 .. m
    BY <1>2, <1>3
  <2>2. h[e - p + m] = p - m + (e - p + m)
    BY <1>2, <2>1
  <2>3. h[e - p + m] = e
    BY <1>2, <1>3, <2>2
  <2> QED  BY <1>1, <1>8, <2>1, <2>3
<1>9. ~z.dropped => Present(z, p)
  BY <1>7, <1>8 DEF Present
<1>10. StreamRight(z, p)
  BY <1>1, <1>7, <1>9 DEF StreamRight
<1> QED  BY <1>6, <1>10 DEF y

(* An event written out moves from the queue to what the client got. *)
LEMMA WriteStream ==
    ASSUME NEW p \in Nat, NEW x, StreamRight(x, p), x.phase = "live", x.queue # <<>>
    PROVE  StreamRight([x EXCEPT !.queue = Tail(x.queue), !.got = x.got \cup {Head(x.queue)}], p)
<1> DEFINE q == x.queue
<1> DEFINE t == Tail(q)
<1> DEFINE g == x.got \cup {Head(q)}
<1> DEFINE w == [x EXCEPT !.queue = t]
<1> DEFINE z == [w EXCEPT !.got = g]
<1>1. x \in Streams /\ q \in Seq(Nat) /\ TwoRuns(q) /\ \A i \in 1 .. Len(q) : q[i] <= p
  BY DEF StreamRight, Streams
<1>2. /\ t \in Seq(Nat) /\ Len(q) \in Nat \ {0} /\ Len(t) = Len(q) - 1 /\ \A i \in 1 .. Len(q) - 1 : t[i] = q[i + 1]
      /\ Head(q) = q[1] /\ Head(q) \in Nat
  BY <1>1
<1>3. TwoRuns(t)
  BY <1>1, OneLess
<1>4. [x EXCEPT !.queue = t, !.got = g] = z
  OBVIOUS
<1>5. g \in SUBSET Nat
  BY <1>1, <1>2 DEF Streams
<1>6. q[1] \in g /\ x.got \subseteq g
  BY <1>2
<1> HIDE DEF t, g
<1>7. w \in Streams /\ w.phase = "live" /\ w.queue = t /\ w.dropped = x.dropped /\ w.from = x.from
  BY <1>1, <1>2 DEF Streams
<1> HIDE DEF w
<1>8. /\ z \in Streams /\ z.phase = "live" /\ z.queue = t /\ z.dropped = x.dropped /\ z.from = x.from
      /\ z.got = g
  BY <1>5, <1>7 DEF Streams
<1> HIDE DEF z
<1>9. \A i \in 1 .. Len(t) : t[i] <= p
  <2> SUFFICES ASSUME NEW i \in 1 .. Len(t) PROVE t[i] <= p
    OBVIOUS
  <2>1. i + 1 \in 1 .. Len(q) /\ i \in 1 .. Len(q) - 1
    BY <1>2
  <2> QED  BY <1>1, <1>2, <2>1
<1>10. ASSUME ~x.dropped, NEW e \in x.from .. p PROVE e \in g \/ \E i \in 1 .. Len(t) : t[i] = e
  <2>1. e \in x.got \/ \E i \in 1 .. Len(q) : q[i] = e
    BY <1>10 DEF StreamRight, Present
  <2>2. ASSUME NEW i \in 1 .. Len(q), q[i] = e PROVE e \in g \/ \E j \in 1 .. Len(t) : t[j] = e
    <3>1. CASE i = 1
      BY <1>6, <2>2, <3>1
    <3>2. CASE i # 1
      <4>1. i - 1 \in 1 .. Len(t) /\ i - 1 \in 1 .. Len(q) - 1 /\ i - 1 + 1 = i
        BY <1>2, <3>2
      <4> QED  BY <1>2, <2>2, <4>1
    <3> QED  BY <3>1, <3>2
  <2> QED  BY <1>6, <2>1, <2>2
<1>11. ~z.dropped => Present(z, p)
  BY <1>8, <1>10 DEF Present
<1>12. StreamRight(z, p)
  BY <1>3, <1>8, <1>9, <1>11 DEF StreamRight
<1> QED  BY <1>4, <1>12 DEF t, g

LEMMA EventsStart == EventsInit => EventsInv
<1> SUFFICES ASSUME EventsInit PROVE EventsInv
  OBVIOUS
<1>1. published = 0 /\ history = <<>> /\ client = [c \in Client |-> Nobody]
  BY DEF EventsInit
<1>2. HistoryRight(<<>>, 0)
  BY DEF HistoryRight
<1>3. Nobody \in Streams /\ StreamRight(Nobody, 0)
  BY DEF Nobody, Streams, StreamRight
<1> QED  BY <1>1, <1>2, <1>3 DEF EventsInv

(* One client's step leaves the others as they are. *)
LEMMA OneStream ==
    ASSUME EventsInv, NEW c \in Client, UNCHANGED <<published, history>>, NEW y, StreamRight(y, published),
           client' = [client EXCEPT ![c] = y]
    PROVE  EventsInv'
<1>1. y \in Streams
  BY DEF StreamRight
<1>2. /\ client' \in [Client -> Streams] /\ published' = published /\ history' = history
      /\ \A d \in Client : client'[d] = IF d = c THEN y ELSE client[d]
  BY <1>1 DEF EventsInv
<1>3. \A d \in Client : StreamRight(client'[d], published)
  BY <1>2 DEF EventsInv
<1> QED  BY <1>2, <1>3 DEF EventsInv

LEMMA EventsStep == EventsInv /\ [EventsNext]_evvars => EventsInv'
<1> SUFFICES ASSUME EventsInv, [EventsNext]_evvars PROVE EventsInv'
  OBVIOUS
<1>0. /\ HistoryRight(history, published) /\ published \in Nat
      /\ client \in [Client -> Streams] /\ \A c \in Client : StreamRight(client[c], published)
  BY DEF EventsInv, HistoryRight
<1>1. CASE Publish
  <2>1. HistoryRight(history', published')
    BY <1>0, <1>1, PublishHistory DEF Publish
  <2>2. ASSUME NEW c \in Client PROVE StreamRight(client'[c], published')
    <3>1. CASE client[c].phase = "away"
      <4>1. client'[c] = Nobody
        BY <1>0, <1>1, <2>2, <3>1 DEF Publish, StreamRight
      <4>2. StreamRight(Nobody, published + 1)
        BY <1>0 DEF Nobody, Streams, StreamRight
      <4> QED  BY <1>1, <4>1, <4>2 DEF Publish
    <3>2. CASE client[c].phase # "away"
      <4>1. client'[c] = Offer(client[c], published + 1)
        BY <1>1, <2>2, <3>2 DEF Publish
      <4>2. StreamRight(Offer(client[c], published + 1), published + 1)
        BY <1>0, <2>2, <3>2, PublishStream
      <4> QED  BY <1>1, <4>1, <4>2 DEF Publish
    <3> QED  BY <3>1, <3>2
  <2>3. client' \in [Client -> Streams]
    BY <1>1, <2>2 DEF Publish, StreamRight
  <2> QED  BY <2>1, <2>2, <2>3 DEF EventsInv
<1>2. ASSUME NEW c \in Client, Subscribe(c) PROVE EventsInv'
  <2> DEFINE y == [client[c] EXCEPT !.phase = "registered"]
  <2>1. client[c] = Nobody
    BY <1>0, <1>2 DEF Subscribe, StreamRight
  <2>2. y = [Nobody EXCEPT !.phase = "registered"]
    BY <2>1
  <2> DEFINE z == [Nobody EXCEPT !.phase = "registered"]
  <2>3. StreamRight(z, published)
    <3>3. Nobody \in Streams /\ Nobody.queue = <<>>
      BY DEF Nobody, Streams
    <3>1. z \in Streams /\ z.phase = "registered" /\ z.queue = <<>>
      BY <3>3 DEF Streams
    <3> HIDE DEF z
    <3>2. Len(z.queue) = 0 /\ Rises(z.queue, 1, Len(z.queue)) /\ Len(z.queue) <= QueueLen
      BY <3>1, EventsAssumption DEF Rises
    <3> QED  BY <3>1, <3>2 DEF StreamRight
  <2>4. client' = [client EXCEPT ![c] = y] /\ UNCHANGED <<published, history>>
    BY <1>2 DEF Subscribe
  <2> HIDE DEF y
  <2> QED  BY <1>2, <2>2, <2>3, <2>4, OneStream
<1>3. ASSUME NEW c \in Client, Replay(c) PROVE EventsInv'
  <2> DEFINE x == client[c]
  <2> DEFINE f == IF history = <<>> THEN published + 1 ELSE history[1]
  <2> DEFINE y == [Filled(x, history) EXCEPT !.phase = "live", !.from = f]
  <2>1. x.phase = "registered" /\ StreamRight(x, published)
    BY <1>0, <1>3 DEF Replay
  <2>2. client' = [client EXCEPT ![c] = y] /\ UNCHANGED <<published, history>>
    BY <1>3 DEF Replay
  <2>3. StreamRight(y, published)
    BY <1>0, <2>1, ReplayStream
  <2> HIDE DEF y
  <2> QED  BY <1>3, <2>2, <2>3, OneStream
<1>4. ASSUME NEW c \in Client, Write(c) PROVE EventsInv'
  <2> DEFINE x == client[c]
  <2> DEFINE y == [x EXCEPT !.queue = Tail(x.queue), !.got = x.got \cup {Head(x.queue)}]
  <2>1. x.phase = "live" /\ x.queue # <<>> /\ StreamRight(x, published)
    BY <1>0, <1>4 DEF Write
  <2>2. client' = [client EXCEPT ![c] = y] /\ UNCHANGED <<published, history>>
    BY <1>0, <1>4 DEF Write
  <2>3. StreamRight(y, published)
    BY <1>0, <2>1, WriteStream
  <2> HIDE DEF y
  <2> QED  BY <1>4, <2>2, <2>3, OneStream
<1>5. ASSUME NEW c \in Client, Unsubscribe(c) PROVE EventsInv'
  <2>1. StreamRight(Nobody, published)
    BY <1>0 DEF Nobody, Streams, StreamRight
  <2>2. client' = [client EXCEPT ![c] = Nobody] /\ UNCHANGED <<published, history>>
    BY <1>5 DEF Unsubscribe
  <2> QED  BY <1>5, <2>1, <2>2, OneStream
<1>6. CASE UNCHANGED evvars
  BY <1>0, <1>6 DEF evvars, EventsInv
<1> QED  BY <1>1, <1>2, <1>3, <1>4, <1>5, <1>6 DEF EventsNext

LEMMA EventsGoal == EventsInv => NoGap
<1> SUFFICES ASSUME EventsInv, NEW c \in Client, client[c].phase = "live"
             PROVE  LET x == client[c]
                    IN  /\ ~x.dropped => x.from .. published \subseteq x.got \cup ToSet(x.queue)
                        /\ \A e \in 1 .. published : Cardinality({i \in DOMAIN x.queue : x.queue[i] = e}) <= 2
  BY DEF NoGap
<1> DEFINE x == client[c]
<1>1. StreamRight(x, published)
  BY DEF EventsInv
<1>2. x.queue \in Seq(Nat) /\ TwoRuns(x.queue) /\ (~x.dropped => Present(x, published))
  BY <1>1 DEF StreamRight, Streams
<1> HIDE DEF x
<1>3. ~x.dropped => x.from .. published \subseteq x.got \cup ToSet(x.queue)
  BY <1>2 DEF Present, ToSet
<1>4. \A e \in 1 .. published : Cardinality({i \in DOMAIN x.queue : x.queue[i] = e}) <= 2
  BY <1>2, AtMostTwice
<1> QED  BY <1>3, <1>4 DEF x

(* A live subscriber whose queue was never full misses nothing since the oldest *)
(* event of the history it was given on, and nothing waits in its queue more    *)
(* than twice, for any limits on the history and the queue and any number of    *)
(* subscribers (Hub.Subscribe, Hub.Publish).                                    *)
THEOREM NothingSkipped == EventsSpec => []NoGap
<1>1. EventsInv /\ [EventsNext]_evvars => EventsInv'
  BY EventsStep
<1>2. EventsInit => EventsInv
  BY EventsStart
<1>3. EventsInv => NoGap
  BY EventsGoal
<1> QED  BY <1>1, <1>2, <1>3, PTL DEF EventsSpec
=============================================================================
