---------------------------- MODULE MCFileStore -----------------------------
(***************************************************************************)
(* A fork of two branches, a1-a2 and b1.  Transaction t spends the genesis *)
(* output and is in both a1 and b1; a2 spends t's output.                  *)
(***************************************************************************)
EXTENDS FileStoreInvariant, TLC

CONSTANTS g, a1, a2, b1, none       \* blocks
CONSTANTS og, oa, ob, ot, oe, o2    \* outputs
CONSTANTS cg, ca, cb, t, c2         \* transactions

MCBlock == {g, a1, a2, b1}
MCParent == g :> none @@ a1 :> g @@ a2 :> a1 @@ b1 :> g
MCHeight == none :> -1 @@ g :> 0 @@ a1 :> 1 @@ b1 :> 1 @@ a2 :> 2
MCOutpoint == {og, oa, ob, ot, oe, o2}
MCAdds == g :> {og} @@ a1 :> {oa, ot} @@ b1 :> {ob, ot} @@ a2 :> {o2}
MCSpends == g :> {} @@ a1 :> {og} @@ b1 :> {og} @@ a2 :> {ot}
MCEphemeral == [b \in MCBlock |-> IF b = a1 THEN {oe} ELSE {}]
MCNoEphemeral == [b \in MCBlock |-> {}]
MCTx == {cg, ca, cb, t, c2}
MCTxsOf == g :> {cg} @@ a1 :> {ca, t} @@ b1 :> {cb, t} @@ a2 :> {c2}

MCUtxoAt[b \in MCBlock \cup {none}] ==
    IF b = none THEN {}
    ELSE (MCUtxoAt[MCParent[b]] \ MCSpends[b]) \cup MCAdds[b]

MCChainTo[b \in MCBlock \cup {none}] ==
    IF b = none THEN {} ELSE MCChainTo[MCParent[b]] \cup {b}
=============================================================================
