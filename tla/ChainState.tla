----------------------------- MODULE ChainState -----------------------------
(***************************************************************************)
(* What internal/blockchain expects of its Store: a tip and an unspent     *)
(* output set that change together, in one step, when a block is connected *)
(* on top of the tip or the tip is disconnected again.  A crash is not an  *)
(* event of this specification: it must be invisible.                      *)
(***************************************************************************)
CONSTANTS
    Block,      \* the blocks, each valid on top of its parent
    NoBlock,    \* the tip of an empty data directory
    Parent,     \* [Block -> Block \cup {NoBlock}]
    Adds,       \* outputs a block leaves unspent
    Spends      \* outputs of earlier blocks a block consumes

VARIABLES
    tip,        \* the block the chain state describes
    unspent     \* the outputs that are unspent at tip

chainVars == <<tip, unspent>>

Init ==
    /\ tip = NoBlock
    /\ unspent = {}

(* Store.SaveBlock, seen from outside. *)
Connect(b) ==
    /\ Parent[b] = tip
    /\ Spends[b] \subseteq unspent
    /\ tip' = b
    /\ unspent' = (unspent \ Spends[b]) \cup Adds[b]

(* Store.DisconnectBlock, seen from outside; the first block stays. *)
Disconnect ==
    /\ tip \in Block
    /\ Parent[tip] \in Block
    /\ tip' = Parent[tip]
    /\ unspent' = (unspent \ Adds[tip]) \cup Spends[tip]

Next ==
    \/ \E b \in Block : Connect(b)
    \/ Disconnect

Spec == Init /\ [][Next]_chainVars
=============================================================================
