----------------------------- MODULE FileStore ------------------------------
(***************************************************************************)
(* The on-disk chain state (internal/storage/filestore.go): one file per   *)
(* block, index entry, unspent output and undo record, a tip file, and a   *)
(* journal that makes SaveBlock and DisconnectBlock survive a crash.       *)
(*                                                                         *)
(* One action is one file operation.  fsutil.WriteFileAtomic and os.Remove *)
(* are single steps; the process can die between any two of them, also     *)
(* while it recovers.  A loop over files is the action "do one that is     *)
(* still to do": writing a file that is there and removing one that is not *)
(* change nothing.                                                         *)
(*                                                                         *)
(* A block is abstracted to what the store reads of it.  An undo record    *)
(* and a journal are determined by the block they are about.               *)
(***************************************************************************)
EXTENDS Integers

CONSTANTS
    Block,      \* the blocks, each valid on top of its parent
    NoBlock,    \* absence of a block
    Genesis,
    Parent,     \* [Block -> Block \cup {NoBlock}]
    Height,     \* [Block \cup {NoBlock} -> -1 .. MaxHeight]
    MaxHeight,
    Outpoint,
    Adds,       \* [Block -> SUBSET Outpoint], outputs left unspent
    Spends,     \* [Block -> SUBSET Outpoint], outputs of earlier blocks consumed
    Ephemeral,  \* [Block -> SUBSET Outpoint], created and consumed in the block
    Tx,
    TxsOf,      \* [Block -> SUBSET Tx]
    UtxoAt,     \* [Block \cup {NoBlock} -> SUBSET Outpoint], replay of a chain
    ChainTo,    \* [Block \cup {NoBlock} -> SUBSET Block], a block and its ancestors
    TxIndexEnabled,
    AddressIndexEnabled,
    Environment \* which of "crash", "reindexcrash", "ioerror", "reader" happen

Tips == Block \cup {NoBlock}
Heights == 0 .. MaxHeight

ASSUME TreeAssumption ==
    /\ NoBlock \notin Block
    /\ Genesis \in Block
    /\ Parent \in [Block -> Tips]
    /\ \A b \in Block : Parent[b] = NoBlock <=> b = Genesis
    /\ MaxHeight \in Nat
    /\ Height \in [Tips -> -1 .. MaxHeight]
    /\ Height[NoBlock] = -1
    /\ \A b \in Block : Height[b] = Height[Parent[b]] + 1

ASSUME OutputsAssumption ==
    /\ Adds \in [Block -> SUBSET Outpoint]
    /\ Spends \in [Block -> SUBSET Outpoint]
    /\ Ephemeral \in [Block -> SUBSET Outpoint]
    /\ \A b \in Block : Ephemeral[b] \cap (Adds[b] \cup Spends[b]) = {}
    /\ TxsOf \in [Block -> SUBSET Tx]

(* The reference definitions of the two chain-dependent sets.  A block is  *)
(* valid on its parent and creates no output that is already unspent.      *)
ASSUME ReplayAssumption ==
    /\ UtxoAt \in [Tips -> SUBSET Outpoint]
    /\ UtxoAt[NoBlock] = {}
    /\ ChainTo \in [Tips -> SUBSET Block]
    /\ ChainTo[NoBlock] = {}
    /\ \A b \in Block :
         /\ Spends[b] \subseteq UtxoAt[Parent[b]]
         /\ Adds[b] \cap UtxoAt[Parent[b]] = {}
         /\ UtxoAt[b] = (UtxoAt[Parent[b]] \ Spends[b]) \cup Adds[b]
         /\ ChainTo[b] = ChainTo[Parent[b]] \cup {b}
    /\ \A t \in Tips :
         /\ \A b \in ChainTo[t] : Height[b] <= Height[t]
         /\ \A b \in ChainTo[t] : b = Genesis \/ Parent[b] \in ChainTo[t]
         /\ \A h \in 0 .. Height[t] : \E b \in ChainTo[t] : Height[b] = h

ASSUME ConfigAssumption ==
    /\ TxIndexEnabled \in BOOLEAN
    /\ AddressIndexEnabled \in BOOLEAN
    /\ Environment \subseteq {"crash", "reindexcrash", "ioerror", "reader"}

VARIABLES
    \* the data directory
    blkFile,     \* blocks/<hash>.blk
    hashIndex,   \* index/hash/<hash>.json
    heightIndex, \* index/height/<n>.json
    utxo,        \* utxo/<txid>_<n>.json
    undo,        \* undo/<hash>.json
    txIndex,     \* index/tx/<txid>.json, the block a transaction is in
    addrUtxo,    \* index/address/<addr>/utxos/<txid>_<n>.json
    tipFile,     \* chainstate.json
    journal,     \* chainstate.journal.json
    \* the process
    memTip,      \* Chain.tip
    pc,          \* the next file operation of the call that holds Chain.mu
    cur,         \* the block that call is about
    rh,          \* height reached by a rebuild loop
    \* a caller of LoadIndexByHeight that does not hold Chain.mu
    reader       \* what it does next, the next block to rewrite, the height asked for

indexVars == <<txIndex, addrUtxo>>
blockVars == <<blkFile, hashIndex, undo>>
procVars == <<memTip, cur>>
vars == <<blkFile, hashIndex, heightIndex, utxo, undo, txIndex, addrUtxo,
          tipFile, journal, memTip, pc, cur, rh, reader>>

NoReader == [step |-> "none", at |-> NoBlock, low |-> 0]
Readers == [step : {"none", "miss", "walk"}, at : Tips, low : Heights]

NoJournal == [op |-> "none", block |-> NoBlock]
Journals == {NoJournal} \cup [op : {"connect", "disconnect"}, block : Block]

ConnectPCs == {"c_block", "c_hash", "c_height", "c_spend", "c_add", "c_undo",
               "c_txindex", "c_addrspend", "c_addradd", "c_tip"}
DisconnectPCs == {"d_del", "d_put", "d_height", "d_tip", "d_wipetx", "d_wipeaddr", "d_index"}
RollbackPCs == {"v_del", "v_put", "v_block", "v_hash", "v_height", "v_undo"}
ReindexPCs == {"x_height", "x_hash", "x_wipe", "x_replay", "x_wipetx", "x_wipeaddr", "x_index"}
PCs == {"down", "idle", "clear"} \cup ConnectPCs \cup DisconnectPCs \cup RollbackPCs \cup ReindexPCs

HasBlock(b) == b \in blkFile /\ b \in hashIndex

(* LoadIndexByHeight by the call that holds Chain.mu: the height index      *)
(* after it, with the entries from the tip file's block down to h           *)
(* rewritten when the one for h is missing.                                 *)
Repaired(h) ==
    IF heightIndex[h] \in Block THEN heightIndex
    ELSE [k \in Heights |->
            IF k \in h .. Height[tipFile]
            THEN CHOOSE b \in ChainTo[tipFile] : Height[b] = k
            ELSE heightIndex[k]]

goto(from, to) == pc = from /\ pc' = to

Init ==
    /\ blkFile = {} /\ hashIndex = {} /\ undo = {}
    /\ heightIndex = [h \in Heights |-> NoBlock]
    /\ utxo = {}
    /\ txIndex = [t \in Tx |-> NoBlock]
    /\ addrUtxo = {}
    /\ tipFile = NoBlock
    /\ journal = NoJournal
    /\ memTip = NoBlock /\ pc = "down" /\ cur = NoBlock /\ rh = 0
    /\ reader = NoReader

-----------------------------------------------------------------------------
(* SaveBlock.  The caller has validated b against Chain.tip: its parent is *)
(* the tip and every output it spends loads from the unspent set.          *)

(* Mutant: the journal is not written before the first change. *)
SaveBlockJournalSkipped(b) ==
    /\ goto("idle", "c_block")
    /\ Parent[b] = memTip
    /\ Spends[b] \subseteq utxo
    /\ cur' = b
    /\ UNCHANGED <<blockVars, heightIndex, utxo, indexVars, tipFile, journal, memTip, rh, reader>>

SaveBlockJournal(b) ==
    /\ goto("idle", "c_block")
    /\ Parent[b] = memTip
    /\ Spends[b] \subseteq utxo
    /\ journal' = [op |-> "connect", block |-> b]
    /\ cur' = b
    /\ UNCHANGED <<blockVars, heightIndex, utxo, indexVars, tipFile, memTip, rh, reader>>

SaveBlockFile ==
    /\ goto("c_block", "c_hash")
    /\ blkFile' = blkFile \cup {cur}
    /\ UNCHANGED <<hashIndex, undo, heightIndex, utxo, indexVars, tipFile, journal, procVars, rh, reader>>

SaveBlockHashIndex ==
    /\ goto("c_hash", "c_height")
    /\ hashIndex' = hashIndex \cup {cur}
    /\ UNCHANGED <<blkFile, undo, heightIndex, utxo, indexVars, tipFile, journal, procVars, rh, reader>>

SaveBlockHeightIndex ==
    /\ goto("c_height", "c_spend")
    /\ heightIndex' = [heightIndex EXCEPT ![Height[cur]] = cur]
    /\ UNCHANGED <<blockVars, utxo, indexVars, tipFile, journal, procVars, rh, reader>>

SaveBlockSpend ==
    /\ pc = "c_spend"
    /\ \/ /\ \E k \in Spends[cur] \cap utxo : utxo' = utxo \ {k}
          /\ UNCHANGED pc
       \/ /\ Spends[cur] \cap utxo = {}
          /\ pc' = "c_add"
          /\ UNCHANGED utxo
    /\ UNCHANGED <<blockVars, heightIndex, indexVars, tipFile, journal, procVars, rh, reader>>

SaveBlockAdd ==
    /\ pc = "c_add"
    /\ \/ /\ \E k \in Adds[cur] \ utxo : utxo' = utxo \cup {k}
          /\ UNCHANGED pc
       \/ /\ Adds[cur] \subseteq utxo
          /\ pc' = "c_undo"
          /\ UNCHANGED utxo
    /\ UNCHANGED <<blockVars, heightIndex, indexVars, tipFile, journal, procVars, rh, reader>>

(* Mutant: no undo record. *)
SaveBlockUndoSkipped ==
    /\ goto("c_undo", IF TxIndexEnabled THEN "c_txindex"
                      ELSE IF AddressIndexEnabled THEN "c_addrspend" ELSE "c_tip")
    /\ UNCHANGED <<blockVars, heightIndex, utxo, indexVars, tipFile, journal, procVars, rh, reader>>

SaveBlockUndo ==
    /\ goto("c_undo", IF TxIndexEnabled THEN "c_txindex"
                      ELSE IF AddressIndexEnabled THEN "c_addrspend" ELSE "c_tip")
    /\ undo' = undo \cup {cur}
    /\ UNCHANGED <<blkFile, hashIndex, heightIndex, utxo, indexVars, tipFile, journal, procVars, rh, reader>>

(* indexBlockTransactions *)
SaveBlockTxIndex ==
    /\ pc = "c_txindex"
    /\ \/ /\ \E t \in TxsOf[cur] : txIndex[t] # cur /\ txIndex' = [txIndex EXCEPT ![t] = cur]
          /\ UNCHANGED pc
       \/ /\ \A t \in TxsOf[cur] : txIndex[t] = cur
          /\ pc' = IF AddressIndexEnabled THEN "c_addrspend" ELSE "c_tip"
          /\ UNCHANGED txIndex
    /\ UNCHANGED <<blockVars, heightIndex, utxo, addrUtxo, tipFile, journal, procVars, rh, reader>>

(* indexAddressConnect: consumed outputs leave the address index first. *)
SaveBlockAddrSpend ==
    /\ pc = "c_addrspend"
    /\ \/ /\ \E k \in Spends[cur] \cap addrUtxo : addrUtxo' = addrUtxo \ {k}
          /\ UNCHANGED pc
       \/ /\ Spends[cur] \cap addrUtxo = {}
          /\ pc' = "c_addradd"
          /\ UNCHANGED addrUtxo
    /\ UNCHANGED <<blockVars, heightIndex, utxo, txIndex, tipFile, journal, procVars, rh, reader>>

SaveBlockAddrAdd ==
    /\ pc = "c_addradd"
    /\ \/ /\ \E k \in Adds[cur] \ addrUtxo : addrUtxo' = addrUtxo \cup {k}
          /\ UNCHANGED pc
       \/ /\ Adds[cur] \subseteq addrUtxo
          /\ pc' = "c_tip"
          /\ UNCHANGED addrUtxo
    /\ UNCHANGED <<blockVars, heightIndex, utxo, txIndex, tipFile, journal, procVars, rh, reader>>

SaveBlockTip ==
    /\ goto("c_tip", "clear")
    /\ tipFile' = cur
    /\ UNCHANGED <<blockVars, heightIndex, utxo, indexVars, journal, procVars, rh, reader>>

(* clearJournal ends SaveBlock, DisconnectBlock and recoverJournal alike.  *)
(* What follows gives Chain.tip the value that is now in the tip file:     *)
(* connectBlockLocked and disconnectTipLocked assign it, LoadTip reads it. *)
ClearJournal ==
    /\ goto("clear", "idle")
    /\ journal' = NoJournal
    /\ memTip' = tipFile
    /\ cur' = NoBlock
    /\ UNCHANGED <<blockVars, heightIndex, utxo, indexVars, tipFile, rh, reader>>

-----------------------------------------------------------------------------
(* DisconnectBlock.  disconnectTipLocked has loaded the tip's block, its   *)
(* undo record and the index entry below it, which must be its parent.     *)

DisconnectJournal ==
    /\ goto("idle", "d_del")
    /\ memTip \in Block
    /\ Height[memTip] > 0
    /\ HasBlock(memTip)
    /\ memTip \in undo
    /\ heightIndex' = Repaired(Height[memTip] - 1)
    /\ heightIndex'[Height[memTip] - 1] = Parent[memTip]
    /\ journal' = [op |-> "disconnect", block |-> memTip]
    /\ cur' = memTip
    /\ UNCHANGED <<blockVars, utxo, indexVars, tipFile, memTip, rh, reader>>

(* applyDisconnect, also run by recoverJournal *)
DisconnectDel ==
    /\ pc = "d_del"
    /\ \/ /\ \E k \in Adds[cur] \cap utxo : utxo' = utxo \ {k}
          /\ UNCHANGED pc
       \/ /\ Adds[cur] \cap utxo = {}
          /\ pc' = "d_put"
          /\ UNCHANGED utxo
    /\ UNCHANGED <<blockVars, heightIndex, indexVars, tipFile, journal, procVars, rh, reader>>

DisconnectPut ==
    /\ pc = "d_put"
    /\ \/ /\ \E k \in Spends[cur] \ utxo : utxo' = utxo \cup {k}
          /\ UNCHANGED pc
       \/ /\ Spends[cur] \subseteq utxo
          /\ pc' = "d_height"
          /\ UNCHANGED utxo
    /\ UNCHANGED <<blockVars, heightIndex, indexVars, tipFile, journal, procVars, rh, reader>>

(* Mutant: the height entry of the disconnected block stays. *)
DisconnectHeightSkipped ==
    /\ goto("d_height", "d_tip")
    /\ UNCHANGED <<blockVars, heightIndex, utxo, indexVars, tipFile, journal, procVars, rh, reader>>

DisconnectHeight ==
    /\ goto("d_height", "d_tip")
    /\ heightIndex' = [heightIndex EXCEPT ![Height[cur]] = NoBlock]
    /\ UNCHANGED <<blockVars, utxo, indexVars, tipFile, journal, procVars, rh, reader>>

DisconnectTip ==
    /\ goto("d_tip", IF TxIndexEnabled THEN "d_wipetx"
                     ELSE IF AddressIndexEnabled THEN "d_wipeaddr" ELSE "clear")
    /\ tipFile' = Parent[cur]
    /\ UNCHANGED <<blockVars, heightIndex, utxo, indexVars, journal, procVars, rh, reader>>

(* Mutant: the transaction index is not emptied. *)
WipeTxIndexSkipped ==
    /\ \/ goto("d_wipetx", IF AddressIndexEnabled THEN "d_wipeaddr" ELSE "d_index")
       \/ goto("x_wipetx", IF AddressIndexEnabled THEN "x_wipeaddr" ELSE "x_index")
    /\ rh' = 0
    /\ UNCHANGED <<blockVars, heightIndex, utxo, indexVars, tipFile, journal, procVars, reader>>

(* rebuildOptionalIndexesFromActiveTip, reached from applyDisconnect (d_)  *)
(* and from RepairIndexes (x_): wipe the two directories, then index every *)
(* block of the active chain again from height 0.  (applyDisconnect's own  *)
(* removal of the block's transaction entries just before it is subsumed.) *)
WipeTxIndex ==
    /\ \/ goto("d_wipetx", IF AddressIndexEnabled THEN "d_wipeaddr" ELSE "d_index")
       \/ goto("x_wipetx", IF AddressIndexEnabled THEN "x_wipeaddr" ELSE "x_index")
    /\ txIndex' = [t \in Tx |-> NoBlock]
    /\ rh' = 0
    /\ UNCHANGED <<blockVars, heightIndex, utxo, addrUtxo, tipFile, journal, procVars, reader>>

(* Mutant: the address index is not emptied. *)
WipeAddressIndexSkipped ==
    /\ goto("d_wipeaddr", "d_index") \/ goto("x_wipeaddr", "x_index")
    /\ rh' = 0
    /\ UNCHANGED <<blockVars, heightIndex, utxo, indexVars, tipFile, journal, procVars, reader>>

WipeAddressIndex ==
    /\ goto("d_wipeaddr", "d_index") \/ goto("x_wipeaddr", "x_index")
    /\ addrUtxo' = {}
    /\ rh' = 0
    /\ UNCHANGED <<blockVars, heightIndex, utxo, txIndex, tipFile, journal, procVars, reader>>

(* Mutant: the height of the loop is not advanced. *)
IndexBlockAgainStuck ==
    /\ pc \in {"d_index", "x_index"}
    /\ rh <= Height[tipFile]
    /\ UNCHANGED vars

IndexBlockAgain ==
    /\ pc \in {"d_index", "x_index"}
    /\ rh <= Height[tipFile]
    /\ heightIndex' = Repaired(rh)
    /\ HasBlock(heightIndex'[rh])
    /\ LET b == heightIndex'[rh]
           spent == IF b \in undo THEN Spends[b] ELSE {}
       IN  /\ txIndex' = IF TxIndexEnabled
                         THEN [t \in Tx |-> IF t \in TxsOf[b] THEN b ELSE txIndex[t]]
                         ELSE txIndex
           /\ addrUtxo' = IF AddressIndexEnabled
                          THEN (addrUtxo \ spent) \cup Adds[b] \cup Ephemeral[b]
                          ELSE addrUtxo
    /\ rh' = rh + 1
    /\ UNCHANGED <<blockVars, utxo, tipFile, journal, procVars, pc, reader>>

IndexAgainDone ==
    /\ goto("d_index", "clear") \/ goto("x_index", "idle")
    /\ rh > Height[tipFile]
    /\ rh' = 0
    /\ UNCHANGED <<blockVars, heightIndex, utxo, indexVars, tipFile, journal, procVars, reader>>
-----------------------------------------------------------------------------
(* Start-up: LoadTip runs recoverJournal before it reads the tip file.     *)

StartClean ==
    /\ goto("down", "idle")
    /\ journal = NoJournal
    /\ memTip' = tipFile
    /\ UNCHANGED <<blockVars, heightIndex, utxo, indexVars, tipFile, journal, cur, rh, reader>>

(* The tip already points to the journaled block: only the journal is stale. *)
StartCommitted ==
    /\ goto("down", "clear")
    /\ journal.op = "connect" /\ tipFile = journal.block
    /\ UNCHANGED <<blockVars, heightIndex, utxo, indexVars, tipFile, journal, procVars, rh, reader>>

(* Mutant: a journaled connect is rolled back even if it was committed. *)
StartRollbackAlways ==
    /\ goto("down", "v_del")
    /\ journal.op = "connect"
    /\ cur' = journal.block
    /\ UNCHANGED <<blockVars, heightIndex, utxo, indexVars, tipFile, journal, memTip, rh, reader>>

StartRollback ==
    /\ goto("down", "v_del")
    /\ journal.op = "connect" /\ tipFile # journal.block
    /\ cur' = journal.block
    /\ UNCHANGED <<blockVars, heightIndex, utxo, indexVars, tipFile, journal, memTip, rh, reader>>

(* Mutant: the redo relies on the outputs having been put back already. *)
StartRedoDisconnectLate ==
    /\ goto("down", "d_height")
    /\ journal.op = "disconnect"
    /\ cur' = journal.block
    /\ UNCHANGED <<blockVars, heightIndex, utxo, indexVars, tipFile, journal, memTip, rh, reader>>

StartRedoDisconnect ==
    /\ goto("down", "d_del")
    /\ journal.op = "disconnect"
    /\ cur' = journal.block
    /\ UNCHANGED <<blockVars, heightIndex, utxo, indexVars, tipFile, journal, memTip, rh, reader>>

(* rollbackConnect *)
RollbackDel ==
    /\ pc = "v_del"
    /\ \/ /\ \E k \in Adds[cur] \cap utxo : utxo' = utxo \ {k}
          /\ UNCHANGED pc
       \/ /\ Adds[cur] \cap utxo = {}
          /\ pc' = "v_put"
          /\ UNCHANGED utxo
    /\ UNCHANGED <<blockVars, heightIndex, indexVars, tipFile, journal, procVars, rh, reader>>

(* Mutant: the spent outputs are not put back. *)
RollbackPutSkipped ==
    /\ goto("v_put", "v_block")
    /\ UNCHANGED <<blockVars, heightIndex, utxo, indexVars, tipFile, journal, procVars, rh, reader>>

RollbackPut ==
    /\ pc = "v_put"
    /\ \/ /\ \E k \in Spends[cur] \ utxo : utxo' = utxo \cup {k}
          /\ UNCHANGED pc
       \/ /\ Spends[cur] \subseteq utxo
          /\ pc' = "v_block"
          /\ UNCHANGED utxo
    /\ UNCHANGED <<blockVars, heightIndex, indexVars, tipFile, journal, procVars, rh, reader>>

RollbackFiles ==
    /\ \/ /\ goto("v_block", "v_hash")
          /\ blkFile' = blkFile \ {cur}
          /\ UNCHANGED <<hashIndex, heightIndex, undo>>
       \/ /\ goto("v_hash", "v_height")
          /\ hashIndex' = hashIndex \ {cur}
          /\ UNCHANGED <<blkFile, heightIndex, undo>>
       \/ /\ goto("v_height", "v_undo")
          /\ heightIndex' = [heightIndex EXCEPT ![Height[cur]] = NoBlock]
          /\ UNCHANGED blockVars
       \/ /\ goto("v_undo", "clear")
          /\ undo' = undo \ {cur}
          /\ UNCHANGED <<blkFile, hashIndex, heightIndex>>
    /\ UNCHANGED <<utxo, indexVars, tipFile, journal, procVars, rh, reader>>
-----------------------------------------------------------------------------
(* RepairIndexes (RPC reindex, checkstorage repair).  Chain.mu is held, no *)
(* journal is written.  The height index is rewritten from the tip down,   *)
(* the unspent set is removed and replayed block by block from height 0.   *)

ReindexBegin ==
    /\ goto("idle", "x_height")
    /\ tipFile \in Block
    /\ UNCHANGED <<blockVars, heightIndex, utxo, indexVars, tipFile, journal, procVars, rh, reader>>

(* The order of the writes is left open.  What a reader makes wrong during *)
(* the rewrite is put right before it ends (in the code only if the walk   *)
(* has not passed that height); after its end it stays wrong.              *)
ReindexHeight ==
    /\ pc = "x_height"
    /\ \/ /\ \E b \in ChainTo[tipFile] :
               /\ HasBlock(b) /\ heightIndex[Height[b]] # b
               /\ heightIndex' = [heightIndex EXCEPT ![Height[b]] = b]
          /\ UNCHANGED pc
       \/ /\ \A b \in ChainTo[tipFile] : heightIndex[Height[b]] = b
          /\ pc' = "x_hash"
          /\ UNCHANGED heightIndex
    /\ UNCHANGED <<blockVars, utxo, indexVars, tipFile, journal, procVars, rh, reader>>

ReindexHash ==
    /\ goto("x_hash", "x_wipe")
    /\ \A h \in 0 .. Height[tipFile] : heightIndex[h] \in Block
    /\ hashIndex' = hashIndex \cup {heightIndex[h] : h \in 0 .. Height[tipFile]}
    /\ UNCHANGED <<blkFile, undo, heightIndex, utxo, indexVars, tipFile, journal, procVars, rh, reader>>

(* Mutant: the replay starts on top of what is there. *)
ReindexWipeUtxoSkipped ==
    /\ goto("x_wipe", "x_replay")
    /\ rh' = 0
    /\ UNCHANGED <<blockVars, heightIndex, utxo, indexVars, tipFile, journal, procVars, reader>>

ReindexWipeUtxo ==
    /\ goto("x_wipe", "x_replay")
    /\ utxo' = {}
    /\ rh' = 0
    /\ UNCHANGED <<blockVars, heightIndex, indexVars, tipFile, journal, procVars, reader>>

(* Mutant: the replay skips a height. *)
ReindexReplaySkips ==
    /\ pc = "x_replay"
    /\ rh <= Height[tipFile]
    /\ heightIndex' = Repaired(rh)
    /\ HasBlock(heightIndex'[rh])
    /\ utxo' = (utxo \ Spends[heightIndex'[rh]]) \cup Adds[heightIndex'[rh]]
    /\ rh' = rh + 2
    /\ UNCHANGED <<blockVars, indexVars, tipFile, journal, procVars, pc, reader>>

ReindexReplay ==
    /\ pc = "x_replay"
    /\ rh <= Height[tipFile]
    /\ heightIndex' = Repaired(rh)
    /\ HasBlock(heightIndex'[rh])
    /\ utxo' = (utxo \ Spends[heightIndex'[rh]]) \cup Adds[heightIndex'[rh]]
    /\ rh' = rh + 1
    /\ UNCHANGED <<blockVars, indexVars, tipFile, journal, procVars, pc, reader>>

ReindexReplayDone ==
    /\ goto("x_replay", IF TxIndexEnabled THEN "x_wipetx"
                        ELSE IF AddressIndexEnabled THEN "x_wipeaddr" ELSE "idle")
    /\ rh > Height[tipFile]
    /\ rh' = 0
    /\ UNCHANGED <<blockVars, heightIndex, utxo, indexVars, tipFile, journal, procVars, reader>>
-----------------------------------------------------------------------------
(* LoadIndexByHeight is also called without Chain.mu (IndexByHeight,       *)
(* HeadersAfter).  It looks for the entry, reads the tip file when there   *)
(* is none, and rewrites the entries from that tip down, one at a time.    *)

ReaderMiss(h) ==
    /\ "reader" \in Environment
    /\ reader.step = "none"
    /\ heightIndex[h] = NoBlock
    /\ reader' = [step |-> "miss", at |-> NoBlock, low |-> h]
    /\ UNCHANGED <<blockVars, heightIndex, utxo, indexVars, tipFile, journal, procVars, pc, rh>>

ReaderTip ==
    /\ reader.step = "miss"
    /\ reader' = IF tipFile \in Block /\ reader.low <= Height[tipFile]
                 THEN [reader EXCEPT !.step = "walk", !.at = tipFile]
                 ELSE NoReader
    /\ UNCHANGED <<blockVars, heightIndex, utxo, indexVars, tipFile, journal, procVars, pc, rh>>

ReaderRepair ==
    /\ reader.step = "walk"
    /\ heightIndex' = IF HasBlock(reader.at)
                      THEN [heightIndex EXCEPT ![Height[reader.at]] = reader.at]
                      ELSE heightIndex
    /\ reader' = IF HasBlock(reader.at) /\ Height[reader.at] # reader.low
                 THEN [reader EXCEPT !.at = Parent[reader.at]]
                 ELSE NoReader
    /\ UNCHANGED <<blockVars, utxo, indexVars, tipFile, journal, procVars, pc, rh>>
-----------------------------------------------------------------------------
(* The process dies: what is in memory is gone, what is on disk stays. *)
Crash ==
    /\ pc # "down"
    /\ IF pc \in ReindexPCs THEN "reindexcrash" \in Environment
                             ELSE "crash" \in Environment
    /\ pc' = "down"
    /\ memTip' = NoBlock /\ cur' = NoBlock /\ rh' = 0
    /\ reader' = NoReader
    /\ UNCHANGED <<blockVars, heightIndex, utxo, indexVars, tipFile, journal>>

(* A file operation fails and the call returns its error.  The running     *)
(* node keeps Chain.tip and goes on; during start-up New fails.            *)
IOError ==
    /\ "ioerror" \in Environment
    /\ pc \notin {"down", "idle"}
    /\ pc' = IF memTip = NoBlock THEN "down" ELSE "idle"
    /\ cur' = NoBlock /\ rh' = 0
    /\ UNCHANGED <<blockVars, heightIndex, utxo, indexVars, tipFile, journal, memTip, reader>>

(* The steps a call takes once it has begun. *)
Advance ==
    \/ SaveBlockFile \/ SaveBlockHashIndex \/ SaveBlockHeightIndex
    \/ SaveBlockSpend \/ SaveBlockAdd \/ SaveBlockUndo
    \/ SaveBlockTxIndex \/ SaveBlockAddrSpend \/ SaveBlockAddrAdd \/ SaveBlockTip
    \/ DisconnectDel \/ DisconnectPut \/ DisconnectHeight \/ DisconnectTip
    \/ WipeTxIndex \/ WipeAddressIndex \/ IndexBlockAgain \/ IndexAgainDone
    \/ StartClean \/ StartCommitted \/ StartRollback \/ StartRedoDisconnect
    \/ RollbackDel \/ RollbackPut \/ RollbackFiles
    \/ ReindexHeight \/ ReindexHash \/ ReindexWipeUtxo \/ ReindexReplay \/ ReindexReplayDone
    \/ ClearJournal

Next ==
    \/ \E b \in Block : SaveBlockJournal(b)
    \/ DisconnectJournal
    \/ ReindexBegin
    \/ Advance
    \/ \E h \in Heights : ReaderMiss(h)
    \/ ReaderTip
    \/ ReaderRepair
    \/ Crash
    \/ IOError

Spec == Init /\ [][Next]_vars

(* A call that holds Chain.mu runs on; whether the node is asked for       *)
(* anything, crashes or meets an I/O error is up to the environment.       *)
FairSpec == Spec /\ WF_vars(Advance)
-----------------------------------------------------------------------------
(* The directory holds files of known blocks, outputs and transactions, a  *)
(* rebuild loop stays within the heights, and the journal is a whole       *)
(* record: WriteFileAtomic leaves no half-written one behind.              *)
TypeOK ==
    /\ blkFile \subseteq Block /\ hashIndex \subseteq Block /\ undo \subseteq Block
    /\ heightIndex \in [Heights -> Tips]
    /\ utxo \subseteq Outpoint
    /\ txIndex \in [Tx -> Tips]
    /\ addrUtxo \subseteq Outpoint
    /\ tipFile \in Tips
    /\ journal \in Journals
    /\ memTip \in Tips
    /\ pc \in PCs
    /\ cur \in Tips
    /\ rh \in 0 .. MaxHeight + 1
    /\ reader \in Readers

(* A set of outputs after the changes of block b are taken back. *)
Undone(outputs, b) == (outputs \ Adds[b]) \cup Spends[b]

(* What a restart at this moment would give: the tip and the unspent set   *)
(* that recoverJournal and LoadTip arrive at.  A running replay counts as  *)
(* finished, because its caller holds Chain.mu until it is.                *)
RecoveredTip ==
    IF journal.op = "disconnect" THEN Parent[journal.block] ELSE tipFile

RecoveredUtxo ==
    IF pc = "x_replay" THEN UtxoAt[tipFile]
    ELSE IF journal.op = "none" \/ (journal.op = "connect" /\ tipFile = journal.block)
         THEN utxo
         ELSE Undone(utxo, journal.block)

(* The Store that internal/blockchain expects, on what a restart gives.    *)
Atomic == INSTANCE ChainState WITH tip <- RecoveredTip, unspent <- RecoveredUtxo

(* SaveBlock and DisconnectBlock are atomic: whatever file operation a     *)
(* crash interrupts, and however often recovery itself is interrupted, the *)
(* recoverable tip and unspent set move together, one block at a time.     *)
AtomicSpec == Atomic!Spec

(* When no call is in progress the unspent set on disk is exactly the      *)
(* replay of the chain that ends in Chain.tip, which is the tip on disk.   *)
UtxoMatchesTip ==
    pc = "idle" => /\ memTip = tipFile
                   /\ utxo = UtxoAt[memTip]

(* When no call is in progress the height index holds the active chain and *)
(* nothing above its tip (activeHeight decides from it what is active).    *)
HeightIndexExact ==
    pc = "idle" => \A h \in Heights, b \in Block :
                     heightIndex[h] = b <=> b \in ChainTo[memTip] /\ Height[b] = h

(* Every block of the active chain can be loaded, and undone, at any time  *)
(* the node is running, no matter which blocks rollbackConnect deleted.    *)
ActiveChainReadable ==
    pc \in {"idle"} \cup ConnectPCs \cup DisconnectPCs \cup ReindexPCs =>
        \A b \in ChainTo[RecoveredTip] : HasBlock(b) /\ b \in undo

(* LookupTransactionByIndex answers with a block only if the transaction   *)
(* is in it and it is active, and it answers for every active transaction, *)
(* although rollbackConnect leaves transaction index entries behind.       *)
TxLookupExact ==
    pc = "idle" /\ TxIndexEnabled =>
        \A t \in Tx, b \in Block :
            (txIndex[t] = b /\ HasBlock(b)) <=> (b \in ChainTo[memTip] /\ t \in TxsOf[b])

(* A rebuild of the address index that runs to its end lists the unspent   *)
(* outputs, whatever rollbackConnect, which does not touch that index, or  *)
(* an interrupted rebuild left in it.  (Outputs spent in the block that    *)
(* made them are listed as well: rebuildOptionalIndexesFromActiveTip looks *)
(* for spent outputs in the undo record only.)                             *)
RebuildRestoresAddresses ==
    [][IndexAgainDone /\ AddressIndexEnabled =>
         addrUtxo \ UNION {Ephemeral[b] : b \in ChainTo[tipFile]} = UtxoAt[tipFile]]_vars

(* A reindex that runs to its end leaves the unspent set equal to the      *)
(* replay of the chain on disk, whatever crashes, failed file operations   *)
(* and interrupted reindexes came before it.  It reads the blocks through  *)
(* the height index, so a reader must not have written a wrong entry after *)
(* the rewrite of that index, which one reader leaves there.               *)
ReindexRestoresUtxo ==
    [][ReindexReplayDone /\ (\A b \in ChainTo[tipFile] : heightIndex[Height[b]] = b) =>
         utxo = UtxoAt[tipFile]]_vars

(* A call that began, recovery included, ends unless the process keeps     *)
(* crashing: no journal leaves the node unable to start.                   *)
ReturnsToIdle == []<>(pc = "idle") \/ []<><<Crash>>_vars

(* What an interrupted operation left undone is made good: by recovery,    *)
(* which ends, and for the address index by its next complete rebuild.     *)
RepairCompletes == RebuildRestoresAddresses /\ ReturnsToIdle
=============================================================================
