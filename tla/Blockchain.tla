----------------------------- MODULE Blockchain -----------------------------
(***************************************************************************)
(* Block processing (internal/blockchain/blockchain.go): ProcessBlock and  *)
(* what it runs under Chain.mu - side blocks, the reorganisation of        *)
(* tryActivateSideChainLocked with its rollback and restore, the orphan    *)
(* pool - and ConnectBlock, DisconnectTip and a restart.                   *)
(*                                                                         *)
(* One step of a call is one Store.SaveBlock or Store.DisconnectBlock.     *)
(* FileStore shows these to be atomic; the process can die between two.    *)
(*                                                                         *)
(* A block is a node of a tree.  Whether it passes validation on top of    *)
(* its parent is a property of the block (Valid): the clock is left out.   *)
(* The path a reorganisation attaches or restores is a path of the tree,   *)
(* so it is known by its two ends and the block reached so far.            *)
(***************************************************************************)
EXTENDS Integers, Sequences

CONSTANTS
    Block,
    NoBlock,            \* absence of a block
    Genesis,
    Parent,             \* [Block -> Block \cup {NoBlock}]
    Height,             \* [Block -> Nat]
    ChainTo,            \* [Block -> SUBSET Block], a block and its ancestors
    Work,               \* [Block -> Nat], chainwork accumulated from Genesis
    Valid,              \* blocks that validateActiveBlockLocked accepts on their parent
    MaxOrphanBlocks,    \* 128 in the code
    MaxSideChainDepth,  \* 288 in the code
    Environment         \* which of "crash", "disconnecttip", "outoforder", "mine" happen

ASSUME TreeAssumption ==
    /\ NoBlock \notin Block
    /\ Genesis \in Block /\ Genesis \in Valid
    /\ Valid \subseteq Block
    /\ Parent \in [Block -> Block \cup {NoBlock}]
    /\ \A b \in Block : Parent[b] = NoBlock <=> b = Genesis
    /\ Height \in [Block -> Nat] /\ Height[Genesis] = 0
    /\ Work \in [Block -> Nat]
    /\ \A b \in Block \ {Genesis} : /\ Height[b] = Height[Parent[b]] + 1
                                    /\ Work[b] > Work[Parent[b]]

(* A chain is closed under Parent and has one block per height. *)
ASSUME ChainAssumption ==
    /\ ChainTo \in [Block -> SUBSET Block]
    /\ ChainTo[Genesis] = {Genesis}
    /\ \A b \in Block \ {Genesis} : ChainTo[b] = ChainTo[Parent[b]] \cup {b}
    /\ \A b \in Block : \A c \in ChainTo[b] : /\ ChainTo[c] \subseteq ChainTo[b]
                                              /\ Height[c] <= Height[b]
    /\ \A b \in Block : \A c, d \in ChainTo[b] : Height[c] = Height[d] => c = d
    /\ \A b, c \in Block : c \notin ChainTo[b] =>
          \E f \in ChainTo[b] : \E d \in ChainTo[c] :
              Parent[d] = f /\ ChainTo[b] \cap ChainTo[c] = ChainTo[f]

ASSUME ConfigAssumption ==
    /\ MaxOrphanBlocks \in Nat \ {0}
    /\ MaxSideChainDepth \in Nat
    /\ Environment \subseteq {"crash", "disconnecttip", "outoforder", "mine"}

VARIABLES
    stored,      \* blocks the Store can load; disconnected ones stay
    tip,         \* Chain.tip, and the tip on disk
    orphanOrder, \* orphanOrder; its elements are the keys of orphanByHash and orphanParent
    linked,      \* orphans that orphanByPrev still lists under their parent
    sideBlocks,  \* keys of sideBlocks
    pc,          \* what the call that holds Chain.mu does next
    job          \* the reorganisation or extension in progress

vars == <<stored, tip, orphanOrder, linked, sideBlocks, pc, job>>
memVars == <<orphanOrder, linked, sideBlocks>>

(* base: the tip when the call began (OldBestHash); the call attaches the  *)
(* path from fork to target and has reached at; n blocks are still to be   *)
(* disconnected by disconnectNLocked; side: the path is one of sideBlocks. *)
NoJob == [base |-> NoBlock, fork |-> NoBlock, target |-> NoBlock,
          at |-> NoBlock, n |-> 0, side |-> FALSE]

PCs == {"down", "idle", "disconnect", "attach", "accept", "rollback", "restore"}

orphanByHash == {orphanOrder[i] : i \in DOMAIN orphanOrder}

Children(p) == {b \in Block : Parent[b] = p}

(* removeOrphanLocked takes the orphan at position i out of orphanOrder. *)
Without(order, i) == SubSeq(order, 1, i - 1) \o SubSeq(order, i + 1, Len(order))

(* pruneSideBlocksLocked *)
Pruned(nodes, t) == {b \in nodes : Height[b] >= Height[t] - MaxSideChainDepth}

(* The block after p on the way up to t. *)
NextOn(t, p) == CHOOSE b \in ChainTo[t] : Parent[b] = p

(* Mutant: the block is not validated. *)
ConnectsUnchecked(b) == Parent[b] = tip

(* connectBlockLocked succeeds exactly for these. *)
Connects(b) == Parent[b] = tip /\ b \in Valid

Init ==
    /\ stored = {Genesis} /\ tip = Genesis
    /\ orphanOrder = <<>> /\ linked = {} /\ sideBlocks = {}
    /\ pc = "idle" /\ job = NoJob
-----------------------------------------------------------------------------
(* processBlockLocked, blockProcessPreviewLocked.  A stored block and a    *)
(* block in the orphan pool are duplicates: nothing happens.  A side block *)
(* is no duplicate, its delivery starts activation again.                  *)

Fresh(b) ==
    /\ pc = "idle"
    /\ b # Genesis
    /\ b \notin stored
    /\ b \notin orphanByHash
    /\ "outoforder" \in Environment \/ Parent[b] \in stored \cup sideBlocks

(* The block extends the tip. *)
ExtendTip(b) ==
    /\ Fresh(b)
    /\ Connects(b)
    /\ tip' = b
    /\ stored' = stored \cup {b}
    /\ pc' = "accept"
    /\ job' = [base |-> tip, fork |-> tip, target |-> b, at |-> b, n |-> 0, side |-> FALSE]
    /\ UNCHANGED memVars

(* The blocks tryActivateSideChainLocked collects on its way back from b.  *)
Branch(b) == ChainTo[b] \ ChainTo[tip]

(* The way back reaches the active chain through side blocks only. *)
Attachable(b) == Branch(b) \subseteq sideBlocks \cup {b}

ForkOf(b) == CHOOSE f \in ChainTo[tip] : \E c \in Branch(b) : Parent[c] = f

SideBlock(b) ==
    /\ Fresh(b)
    /\ Parent[b] # tip
    /\ Parent[b] \in stored \cup sideBlocks
    /\ sideBlocks' = sideBlocks \cup {b}

(* Mutant: a side block is stored and activation is not tried. *)
StoreSideBlockOnly(b) ==
    /\ SideBlock(b)
    /\ UNCHANGED <<stored, tip, orphanOrder, linked, pc, job>>

(* Not enough work, or a block on the way back is not a side block. *)
StoreSideBlock(b) ==
    /\ SideBlock(b)
    /\ Work[b] <= Work[tip] \/ ~Attachable(b)
    /\ UNCHANGED <<stored, tip, orphanOrder, linked, pc, job>>

StartReorg(b) ==
    /\ SideBlock(b)
    /\ Work[b] > Work[tip] /\ Attachable(b)
    /\ job' = [base |-> tip, fork |-> ForkOf(b), target |-> b, at |-> ForkOf(b),
               n |-> 0, side |-> TRUE]
    /\ pc' = IF ForkOf(b) = tip THEN "attach" ELSE "disconnect"
    /\ UNCHANGED <<stored, tip, orphanOrder, linked>>

(* Mutant: the evicted orphan stays in orphanByPrev. *)
AddOrphanKeepsLink(b) ==
    /\ Fresh(b)
    /\ Parent[b] \notin stored \cup sideBlocks
    /\ orphanOrder' = Append(IF Len(orphanOrder) >= MaxOrphanBlocks
                             THEN Tail(orphanOrder) ELSE orphanOrder, b)
    /\ linked' = linked \cup {b}
    /\ UNCHANGED <<stored, tip, sideBlocks, pc, job>>

(* addOrphanLocked: the oldest orphan makes room. *)
AddOrphan(b) ==
    /\ Fresh(b)
    /\ Parent[b] \notin stored \cup sideBlocks
    /\ LET full == Len(orphanOrder) >= MaxOrphanBlocks
       IN  /\ orphanOrder' = Append(IF full THEN Tail(orphanOrder) ELSE orphanOrder, b)
           /\ linked' = (IF full THEN linked \ {Head(orphanOrder)} ELSE linked) \cup {b}
    /\ UNCHANGED <<stored, tip, sideBlocks, pc, job>>
-----------------------------------------------------------------------------
(* tryActivateSideChainLocked, after the decision to reorganise *)

ReorgDisconnect ==
    /\ pc = "disconnect"
    /\ tip' = Parent[tip]
    /\ pc' = IF Parent[tip] = job.fork THEN "attach" ELSE "disconnect"
    /\ UNCHANGED <<stored, memVars, job>>

ReorgAttach ==
    /\ pc = "attach"
    /\ LET b == NextOn(job.target, job.at)
       IN  /\ Connects(b)
           /\ tip' = b
           /\ stored' = stored \cup {b}
           /\ job' = [job EXCEPT !.at = b]
    /\ pc' = "accept"
    /\ UNCHANGED memVars

(* connectBlockLocked returned an error: as many blocks are disconnected   *)
(* as blocks of the branch were connected.                                 *)
ReorgAttachFails ==
    /\ pc = "attach"
    /\ ~Connects(NextOn(job.target, job.at))
    /\ job' = [job EXCEPT !.n = Height[job.at] - Height[job.fork]]
    /\ pc' = "rollback"
    /\ UNCHANGED <<stored, tip, memVars>>

(* Mutant: disconnectNLocked disconnects one block too many. *)
ReorgRollbackOneMore ==
    /\ pc = "rollback"
    /\ tip' = Parent[tip]
    /\ job' = [job EXCEPT !.n = @ - 1]
    /\ UNCHANGED <<stored, memVars, pc>>

(* disconnectNLocked *)
ReorgRollback ==
    /\ pc = "rollback"
    /\ job.n > 0
    /\ tip' = Parent[tip]
    /\ job' = [job EXCEPT !.n = @ - 1]
    /\ UNCHANGED <<stored, memVars, pc>>

(* Mutant: the disconnected blocks are not connected again. *)
ReorgRolledBackOnly ==
    /\ pc = "rollback"
    /\ job.n = 0
    /\ pc' = "idle" /\ job' = NoJob
    /\ UNCHANGED <<stored, tip, memVars>>

(* The fast path (base is the fork) has nothing to restore. *)
ReorgRolledBack ==
    /\ pc = "rollback"
    /\ job.n = 0
    /\ \/ /\ job.base = job.fork
          /\ pc' = "idle" /\ job' = NoJob
       \/ /\ job.base # job.fork
          /\ pc' = "restore" /\ job' = [job EXCEPT !.at = job.fork]
    /\ UNCHANGED <<stored, tip, memVars>>

(* reconnectBlocksLocked *)
ReorgRestore ==
    /\ pc = "restore"
    /\ job.at # job.base
    /\ LET b == NextOn(job.base, job.at)
       IN  /\ Connects(b)
           /\ tip' = b
           /\ job' = [job EXCEPT !.at = b]
    /\ UNCHANGED <<stored, memVars, pc>>

(* Restored, or the restore met an error; ProcessBlock returns an error. *)
ReorgRestoreEnds ==
    /\ pc = "restore"
    /\ job.at # job.base => ~Connects(NextOn(job.base, job.at))
    /\ pc' = "idle" /\ job' = NoJob
    /\ UNCHANGED <<stored, tip, memVars>>
-----------------------------------------------------------------------------
(* acceptOrphanChildrenLocked, called with the block that has just become  *)
(* the tip.  Once a child is connected its siblings no longer extend the   *)
(* tip, so a level of the queue connects at most one block; the list of    *)
(* children is dropped from orphanByPrev whatever became of them.          *)

(* The listed children of the tip that connect, by position in the pool. *)
Acceptable == {i \in DOMAIN orphanOrder : orphanOrder[i] \in linked /\ Connects(orphanOrder[i])}

AcceptOrphan ==
    /\ pc = "accept"
    /\ \E i \in Acceptable :
         /\ \A j \in Acceptable : i <= j
         /\ tip' = orphanOrder[i]
         /\ stored' = stored \cup {orphanOrder[i]}
         /\ orphanOrder' = Without(orphanOrder, i)
         /\ sideBlocks' = sideBlocks \ {orphanOrder[i]}
    /\ linked' = linked \ Children(tip)
    /\ UNCHANGED <<pc, job>>

(* No child is left.  The branch goes on, or the call ends: attached side  *)
(* blocks leave sideBlocks, old ones are pruned.  (The second call for the *)
(* new tip finds its list of children already dropped.)                    *)
AcceptDone ==
    /\ pc = "accept"
    /\ Acceptable = {}
    /\ linked' = linked \ Children(tip)
    /\ \/ /\ job.at # job.target
          /\ pc' = "attach"
          /\ UNCHANGED <<sideBlocks, job>>
       \/ /\ job.at = job.target
          /\ pc' = "idle" /\ job' = NoJob
          /\ sideBlocks' = Pruned(IF job.side
                                  THEN sideBlocks \ (ChainTo[job.target] \ ChainTo[job.fork])
                                  ELSE sideBlocks, tip)
    /\ UNCHANGED <<stored, tip, orphanOrder>>
-----------------------------------------------------------------------------
(* ConnectBlock, with a block the miner has just found on the tip: no      *)
(* orphan is looked at, no side block pruned.                              *)
ConnectBlock(b) ==
    /\ "mine" \in Environment
    /\ pc = "idle"
    /\ b \notin stored \cup sideBlocks \cup orphanByHash
    /\ Connects(b)
    /\ tip' = b
    /\ stored' = stored \cup {b}
    /\ UNCHANGED <<memVars, pc, job>>

(* DisconnectTip (RPC disconnecttip) *)
DisconnectTip ==
    /\ "disconnecttip" \in Environment
    /\ pc = "idle"
    /\ Height[tip] > 0
    /\ tip' = Parent[tip]
    /\ UNCHANGED <<stored, memVars, pc, job>>

Crash ==
    /\ "crash" \in Environment
    /\ pc # "down"
    /\ pc' = "down" /\ job' = NoJob
    /\ orphanOrder' = <<>> /\ linked' = {} /\ sideBlocks' = {}
    /\ UNCHANGED <<stored, tip>>

(* New and EnsureGenesis on a data directory that has a tip *)
Restart ==
    /\ pc = "down"
    /\ pc' = "idle"
    /\ UNCHANGED <<stored, tip, memVars, job>>

(* ProcessBlock(b) up to its first store operation *)
ProcessBlock(b) == ExtendTip(b) \/ StoreSideBlock(b) \/ StartReorg(b) \/ AddOrphan(b)

(* The steps of a call that has begun *)
Advance ==
    \/ ReorgDisconnect \/ ReorgAttach \/ ReorgAttachFails
    \/ ReorgRollback \/ ReorgRolledBack \/ ReorgRestore \/ ReorgRestoreEnds
    \/ AcceptOrphan \/ AcceptDone
    \/ Restart

Next ==
    \/ \E b \in Block : ProcessBlock(b) \/ ConnectBlock(b)
    \/ Advance
    \/ DisconnectTip
    \/ Crash

Spec == Init /\ [][Next]_vars

(* A call runs on.  Peers offer every block again and again, and the       *)
(* sync.RWMutex of Chain lets every waiting ProcessBlock in eventually.    *)
FairSpec ==
    /\ Spec
    /\ WF_vars(Advance)
    /\ \A b \in Block : SF_vars(ProcessBlock(b))
-----------------------------------------------------------------------------
Jobs == [base : Block \cup {NoBlock}, fork : Block \cup {NoBlock},
         target : Block \cup {NoBlock}, at : Block \cup {NoBlock},
         n : Nat, side : BOOLEAN]

(* Every map holds blocks, the tip is always a block (no rollback goes     *)
(* below genesis) and disconnectNLocked never counts below zero.           *)
TypeOK ==
    /\ stored \subseteq Block
    /\ tip \in Block
    /\ orphanOrder \in Seq(Block)
    /\ linked \subseteq Block
    /\ sideBlocks \subseteq Block
    /\ pc \in PCs
    /\ job \in Jobs

(* The active chain is made of valid blocks that can be loaded, at every   *)
(* instant of a reorganisation and after any crash in it.                  *)
ActiveChainValid == ChainTo[tip] \subseteq stored \cap Valid

(* The maps of the orphan pool agree: no orphan twice, no more than        *)
(* MaxOrphanBlocks, and every listed child is in the pool.                 *)
OrphanPoolConsistent ==
    /\ \A i, j \in DOMAIN orphanOrder : orphanOrder[i] = orphanOrder[j] => i = j
    /\ Len(orphanOrder) <= MaxOrphanBlocks
    /\ linked \subseteq orphanByHash

(* A call either makes the new branch active, with more work than before,  *)
(* or leaves the tip where it was, however far it got before it failed.    *)
CallEndsWhole ==
    pc \notin {"idle", "down"} /\ pc' = "idle" =>
        \/ tip' = job.base
        \/ job.target \in ChainTo[tip'] /\ Work[tip'] > Work[job.base]

(* Between calls no branch of valid side blocks that could be attached has *)
(* more work than the active chain.  Guaranteed while no fork is deeper    *)
(* than MaxSideChainDepth: a deeper branch lost its old blocks to          *)
(* pruneSideBlocksLocked, and offered again they do not activate it, only  *)
(* its end does; until then a heavier sibling of theirs may wait.          *)
NoBetterSideBranch ==
    pc = "idle" => \A b \in sideBlocks :
        /\ Attachable(b) /\ ChainTo[b] \subseteq Valid
        /\ \A c \in Branch(b) : Height[c] >= Height[tip] - MaxSideChainDepth
        => Work[b] <= Work[tip]

(* The ends of the valid chains with the most work *)
Best == {b \in Block : ChainTo[b] \subseteq Valid
                       /\ \A c \in Block : ChainTo[c] \subseteq Valid => Work[c] <= Work[b]}
=============================================================================
