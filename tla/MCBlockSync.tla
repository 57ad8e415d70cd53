----------------------------- MODULE MCBlockSync -----------------------------
(***************************************************************************)
(* BlockSync with one peer.  Either the peer grows a chain of three blocks *)
(* and this node does not mine, or the chain has two blocks and this node  *)
(* may mine a fork of one.                                                 *)
(***************************************************************************)
EXTENDS BlockSync, TLC

CONSTANTS p1, g, a1, a2, a3, b1

MCParent == (a1 :> g) @@ (a2 :> a1) @@ (a3 :> a2) @@ (b1 :> g)
MCHeight == (g :> 0) @@ (a1 :> 1) @@ (a2 :> 2) @@ (a3 :> 3) @@ (b1 :> 1)

VARIABLE mines

MCInit == Init /\ mines = (peerTip[p1] = a1)

MCNext ==
    /\ Next
    /\ IF mines THEN peerTip'[p1] # a3 ELSE b1 \notin stored'
    /\ UNCHANGED mines

(* FairSpec speaks of no action that is left out here. *)
MCSpec == MCInit /\ [][MCNext]_<<vars, mines>> /\ SyncFairness
=============================================================================
