------------------------- MODULE FileStoreInvariant -------------------------
(***************************************************************************)
(* The inductive invariant behind the crash-safety of FileStore, for an    *)
(* environment whose only fault is a crash outside RepairIndexes.          *)
(*                                                                         *)
(* It says, for every file operation, what is already on disk for the      *)
(* block of the journal and that all the rest describes RecoveredTip.      *)
(***************************************************************************)
EXTENDS FileStore

CrashOnly == Environment \subseteq {"crash"}

Before(c) == tipFile = Parent[c]

(* The journal belongs to the call in progress, or to the one a crash      *)
(* interrupted, and the tip file is on one of the two sides of its block.  *)
JournalInv ==
    /\ pc \in {"idle"} \cup ReindexPCs =>
          journal = NoJournal /\ memTip = tipFile
    /\ pc \in ReindexPCs => tipFile \in Block
    /\ pc \in ConnectPCs \cup RollbackPCs =>
          cur \in Block /\ journal = [op |-> "connect", block |-> cur] /\ Before(cur)
    /\ pc \in ConnectPCs => memTip = tipFile
    /\ pc \in DisconnectPCs =>
          cur \in Block /\ journal = [op |-> "disconnect", block |-> cur]
    /\ pc \in {"d_wipetx", "d_wipeaddr", "d_index"} => Before(cur)
    /\ pc = "clear" => journal # NoJournal
    /\ pc = "clear" /\ journal.op = "disconnect" => Before(journal.block)
    /\ journal # NoJournal =>
          /\ tipFile \in {journal.block, Parent[journal.block]}
          /\ journal.op = "disconnect" => Parent[journal.block] \in Block

(* How far the unspent set has got, and that undoing the journaled block   *)
(* always gives the unspent set of RecoveredTip.                           *)
UtxoInv ==
    /\ RecoveredUtxo = UtxoAt[RecoveredTip]
    /\ pc \in {"c_add", "c_undo", "c_txindex", "c_addrspend", "c_addradd", "c_tip"} =>
          Spends[cur] \cap utxo = {}
    /\ pc \in {"c_undo", "c_txindex", "c_addrspend", "c_addradd", "c_tip"} =>
          Adds[cur] \subseteq utxo
    /\ pc \in {"d_put", "d_height", "d_tip", "d_wipetx", "d_wipeaddr", "d_index",
               "v_put", "v_block", "v_hash", "v_height", "v_undo"} =>
          Adds[cur] \cap utxo = {}
    /\ pc \in {"d_height", "d_tip", "d_wipetx", "d_wipeaddr", "d_index",
               "v_block", "v_hash", "v_height", "v_undo"} =>
          Spends[cur] \subseteq utxo
    /\ pc = "clear" => utxo = UtxoAt[tipFile]
    /\ pc = "x_replay" => /\ rh <= Height[tipFile] + 1
                          /\ utxo = IF rh = 0 THEN {} ELSE UtxoAt[heightIndex[rh - 1]]

(* The height index lists the chain of RecoveredTip, and beyond it at most *)
(* the journaled block.                                                    *)
HeightInv ==
    /\ \A b \in ChainTo[RecoveredTip] : heightIndex[Height[b]] = b
    /\ \A h \in Heights :
          heightIndex[h] \in Block =>
             /\ Height[heightIndex[h]] = h
             /\ \/ heightIndex[h] \in ChainTo[RecoveredTip]
                \/ journal # NoJournal /\ heightIndex[h] = journal.block
    /\ pc \in ConnectPCs \ {"c_block", "c_hash", "c_height"} => heightIndex[Height[cur]] = cur
    /\ pc \in {"d_tip", "d_wipetx", "d_wipeaddr", "d_index", "v_undo"} =>
          heightIndex[Height[cur]] = NoBlock
    /\ pc = "clear" => \A h \in Heights : heightIndex[h] \in Block =>
                           heightIndex[h] \in ChainTo[tipFile]

(* Every block of the chain of RecoveredTip is on disk with its undo       *)
(* record; the block being connected joins it file by file.                *)
FilesInv ==
    /\ \A b \in ChainTo[RecoveredTip] : b \in blkFile /\ b \in hashIndex /\ b \in undo
    /\ pc \in ConnectPCs \ {"c_block"} => cur \in blkFile
    /\ pc \in ConnectPCs \ {"c_block", "c_hash"} => cur \in hashIndex
    /\ pc \in {"c_txindex", "c_addrspend", "c_addradd", "c_tip"} => cur \in undo

(* The invariant that SaveBlock, DisconnectBlock, recoverJournal and       *)
(* RepairIndexes preserve at every file operation; it implies              *)
(* UtxoMatchesTip, HeightIndexExact and ActiveChainReadable.               *)
CrashInv ==
    /\ TypeOK
    /\ reader = NoReader
    /\ JournalInv
    /\ UtxoInv
    /\ HeightInv
    /\ FilesInv

-----------------------------------------------------------------------------
(* The transaction index *)

(* No transaction is in two blocks of one chain. *)
NoTxTwice ==
    \A u \in Tips : \A b, c \in ChainTo[u] : TxsOf[b] \cap TxsOf[c] # {} => b = c

(* An entry names a block with the transaction: one of the chain of        *)
(* RecoveredTip, or the journaled one, or one whose files rollbackConnect  *)
(* has removed.                                                            *)
EntriesHonest ==
    \A t \in Tx : txIndex[t] # NoBlock =>
        /\ t \in TxsOf[txIndex[t]]
        /\ HasBlock(txIndex[t]) =>
             \/ txIndex[t] \in ChainTo[RecoveredTip]
             \/ pc # "clear" /\ journal # NoJournal /\ txIndex[t] = journal.block

(* Every block of the chain of RecoveredTip is indexed, unless a journaled *)
(* disconnection or a reindex is going to index the chain again.           *)
EntriesComplete ==
    (journal.op = "disconnect" => pc = "clear") /\ pc \notin {"x_wipeaddr", "x_index"} =>
        \A b \in ChainTo[RecoveredTip] : \A t \in TxsOf[b] : txIndex[t] = b

(* How far a rebuild, a connection and a rollback have got. *)
EntriesProgress ==
    /\ pc \in {"d_wipeaddr", "x_wipeaddr"} => \A t \in Tx : txIndex[t] = NoBlock
    /\ pc \in {"d_index", "x_index"} =>
          /\ \A b \in ChainTo[tipFile] : Height[b] < rh => \A t \in TxsOf[b] : txIndex[t] = b
          /\ \A t \in Tx : txIndex[t] # NoBlock => txIndex[t] \in ChainTo[tipFile]
    /\ pc \in {"c_addrspend", "c_addradd", "c_tip"} => \A t \in TxsOf[cur] : txIndex[t] = cur
    /\ pc \in {"v_hash", "v_height", "v_undo"} => cur \notin blkFile

TxIndexInv == TxIndexEnabled => EntriesHonest /\ EntriesComplete /\ EntriesProgress
=============================================================================
