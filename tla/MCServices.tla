----------------------------- MODULE MCServices -----------------------------
(* What runs around the chain, one part at a time; the initial state says which:   *)
(* the wallet application's node, the pool server, the event stream, the agent.      *)
EXTENDS NodeService, Stratum, Events, AgentSend, TLC

CONSTANTS u1, u2, ui, m1, m2, m3, e1, e2, a1, a2

Nodes == [ports |-> 2, miner |-> 1]
Calls == [ports |-> 3, miner |-> 3]
IPs == m1 :> "i" @@ m2 :> "i" @@ m3 :> "j"

Values == 1 :> 7 @@ 2 :> 10 @@ 3 :> 16
Op(what, amount, fee, all) == [op |-> what, amount |-> amount, fee |-> fee, all |-> all]
Orders == a1 :> {Op("send", 5, 0, FALSE), Op("send", 12, 2, FALSE), Op("send", 5, 0, TRUE)}
          @@ a2 :> {Op("send", 4, 0, FALSE), Op("estimate", 4, 0, FALSE)}

VARIABLE part

MCInit ==
    /\ part \in {"node", "stratum", "events", "agent"}
    /\ SvcInit /\ StratumInit /\ EventsInit /\ AgentInit
    /\ part # "node" => scene = "ports"
    /\ part # "agent" => chain = "LBTC"

MCNext ==
    /\ UNCHANGED part
    /\ \/ part = "node" /\ SvcNext /\ UNCHANGED <<stratumvars, evvars, asvars>>
       \/ part = "stratum" /\ StratumNext /\ UNCHANGED <<svcvars, evvars, asvars>>
       \/ part = "events" /\ EventsNext /\ UNCHANGED <<svcvars, stratumvars, asvars>>
       \/ part = "agent" /\ AgentNext /\ UNCHANGED <<svcvars, stratumvars, evvars>>

(* The actions of a part that does not move are never enabled. *)
MCSpec ==
    /\ MCInit
    /\ [][MCNext]_<<part, svcvars, stratumvars, evvars, asvars>>
    /\ SvcFairness /\ StratumFairness

(* Nothing that was asked for waits for ever: a start or an end of the node, the      *)
(* miner's mirror, the pool server's next job and its stop.                           *)
ServicesLive == StartingEnds /\ CancelledEnds /\ MirrorSettles /\ JobCatchesUp /\ StopCompletes
=============================================================================
