----------------------------- MODULE MCMempool ------------------------------
(***************************************************************************)
(* The pool, and in parts of their own the callers of the mining RPCs.     *)
(*                                                                         *)
(*   k1 - p --\                                                            *)
(*             c - d     d is one link deeper than a chain may be when     *)
(*   k2 - q --/          MaxAncestorDepth = 1                              *)
(*   k1 - x              a double spend of p that pays more                *)
(*        p - s          a transaction that is not standard                *)
(*        q - u          a transaction whose script fails                  *)
(***************************************************************************)
EXTENDS Mempool, WorkRpc, TLC

CONSTANTS k1, k2, p, q, c, d, x, s, u, none, h1, h2, w1, w2, w3, Parts

MCInputs == [t \in Tx |-> (p :> <<k1>> @@ q :> <<k2>> @@ c :> <<p, q>>
                           @@ d :> <<c>> @@ x :> <<k1>> @@ s :> <<p>> @@ u :> <<q>>)[t]]
MCRate == [t \in Tx |-> (p :> 1 @@ q :> 2 @@ c :> 3 @@ d :> 3 @@ x :> 2 @@ s :> 1 @@ u :> 1)[t]]
Regular == Tx \ {s}
Verifying == Tx \ {u}
Threads == Permutations({h1, h2})

RpcCalls == w1 :> {"template", "submit"} @@ w2 :> {"submit", "generate"} @@ w3 :> {"operate"}

VARIABLE part

(* Submission without transactions, proposals without submission, generate alone. *)
RpcNext ==
    \/ /\ part = "submit" /\ WorkNext /\ UNCHANGED bucket
       /\ work'[w2].at # "template" /\ entries' = {} /\ \A b \in stored' \cup sides' : ConfirmedIn(b) = {}
    \/ /\ part = "propose" /\ WorkNext /\ UNCHANGED bucket
       /\ work'[w2].at = "idle" /\ work'[w1].at \notin {"connected", "polling"} /\ Cardinality(stored' \cup sides') <= 3
    \/ /\ part = "generate" /\ WorkNext /\ UNCHANGED bucket
       /\ work'[w1].at = "idle" /\ work'[w2].at \in {"idle", "template", "mining", "found"}
    \/ part = "limit" /\ LimitNext /\ UNCHANGED workvars

MCInit == part \in Parts /\ Init /\ WorkInit

MCNext ==
    /\ UNCHANGED part
    /\ \/ part = "pool" /\ Next /\ UNCHANGED wvars
       \/ RpcNext /\ UNCHANGED vars

(* The fair actions of a part that does not move are never enabled. *)
MCSpec == MCInit /\ [][MCNext]_<<part, vars, wvars>> /\ Fairness /\ WorkFairness
=============================================================================
