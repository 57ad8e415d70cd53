-------------------------- MODULE FileStoreProofs ---------------------------
(***************************************************************************)
(* The proofs about FileStore when crashes are its only fault: CrashInv is *)
(* inductive, one lemma for each file operation (StepCrashInv puts them    *)
(* together); what callers rely on follows from it, and so does the        *)
(* refinement of ChainState.  Last, with all faults: a reindex restores    *)
(* the unspent set (ReplayInv).                                            *)
(***************************************************************************)
EXTENDS FileStoreInvariant, TLAPS

(* A block and its parent in the tree: heights, and how their chains differ. *)
LEMMA BlockFacts ==
    ASSUME NEW b \in Block
    PROVE  /\ Parent[b] \in Tips
           /\ Parent[b] # b
           /\ Height[b] \in Heights
           /\ Height[Parent[b]] \in -1 .. MaxHeight
           /\ Height[b] = Height[Parent[b]] + 1
           /\ b \in ChainTo[b]
           /\ b \notin ChainTo[Parent[b]]
           /\ ChainTo[b] = ChainTo[Parent[b]] \cup {b}
           /\ \A c \in ChainTo[Parent[b]] : Height[c] # Height[b]
           /\ Height[b] > 0 => Parent[b] \in Block
<1>1. /\ Parent[b] \in Tips
      /\ Height[b] \in -1 .. MaxHeight
      /\ Height[Parent[b]] \in -1 .. MaxHeight
      /\ Height[b] = Height[Parent[b]] + 1
  BY TreeAssumption DEF Tips
<1>2. \A c \in ChainTo[Parent[b]] : c \in Block /\ Height[c] <= Height[Parent[b]]
  BY <1>1, ReplayAssumption
<1>3. \A c \in ChainTo[Parent[b]] : Height[c] # Height[b]
  <2> TAKE c \in ChainTo[Parent[b]]
  <2>1. Height[c] \in -1 .. MaxHeight
    BY <1>2, TreeAssumption
  <2> QED  BY <1>1, <1>2
<1>4. Height[b] > 0 => Parent[b] \in Block
  BY TreeAssumption DEF Tips
<1>5. ChainTo[b] = ChainTo[Parent[b]] \cup {b}
  BY ReplayAssumption
<1>6. Parent[b] # b /\ Height[b] \in Heights
  BY <1>1 DEF Heights
<1> QED  BY <1>1, <1>3, <1>4, <1>5, <1>6

(* What undoing a block gives, with the four ways a single output moves. *)
LEMMA UndoneFacts ==
    ASSUME NEW b \in Block, NEW X, NEW k
    PROVE  /\ k \in Spends[b] => Undone(X \ {k}, b) = Undone(X, b)
           /\ k \in Spends[b] => Undone(X \cup {k}, b) = Undone(X, b)
           /\ k \in Adds[b] => Undone(X \ {k}, b) = Undone(X, b)
           /\ k \in Adds[b] => Undone(X \cup {k}, b) = Undone(X, b)
  BY DEF Undone

(* One output of the block has moved, or none. *)
OneMove(X, Y, b) == Y = X \/ \E k \in Spends[b] \cup Adds[b] : Y = X \cup {k} \/ Y = X \ {k}

LEMMA UndoneMove ==
    ASSUME NEW b \in Block, NEW X, NEW Y, OneMove(X, Y, b)
    PROVE  Undone(Y, b) = Undone(X, b)
<1>1. CASE Y = X
  BY <1>1
<1>2. ASSUME NEW k \in Spends[b] \cup Adds[b], Y = X \cup {k} \/ Y = X \ {k}
      PROVE  Undone(Y, b) = Undone(X, b)
  <2>1. Undone(X \cup {k}, b) = Undone(X, b) /\ Undone(X \ {k}, b) = Undone(X, b)
    BY ONLY <1>2, UndoneFacts
  <2> QED  BY ONLY <1>2, <2>1
<1> QED  BY <1>1, <1>2 DEF OneMove

(* Undoing a block gives its parent's unspent set, whether the block was applied or not. *)
LEMMA UndoneUtxo ==
    ASSUME NEW b \in Block
    PROVE  /\ Undone(UtxoAt[Parent[b]], b) = UtxoAt[Parent[b]]
           /\ Undone(UtxoAt[b], b) = UtxoAt[Parent[b]]
           /\ Adds[b] \cap Spends[b] = {}
  BY ReplayAssumption DEF Undone

(* Once every output of the block has moved, the set is the one before or after it. *)
LEMMA UndoneDone ==
    ASSUME NEW b \in Block, NEW X, Undone(X, b) = UtxoAt[Parent[b]]
    PROVE  /\ Spends[b] \cap X = {} /\ Adds[b] \subseteq X => X = UtxoAt[b]
           /\ Adds[b] \cap X = {} /\ Spends[b] \subseteq X => X = UtxoAt[Parent[b]]
<1>1. UtxoAt[b] = (UtxoAt[Parent[b]] \ Spends[b]) \cup Adds[b]
  BY ReplayAssumption
<1> QED  BY <1>1 DEF Undone

(* An empty directory satisfies the invariant. *)
LEMMA InitCrashInv == Init => CrashInv
<1> SUFFICES ASSUME Init PROVE CrashInv
  OBVIOUS
<1>1. TypeOK
  BY TreeAssumption DEF Init, TypeOK, Heights, Journals, PCs, Readers, NoReader
<1>2. JournalInv
  BY DEF Init, JournalInv, ConnectPCs, DisconnectPCs, RollbackPCs, ReindexPCs
<1>3. UtxoInv
  BY ReplayAssumption DEF Init, UtxoInv, RecoveredUtxo, RecoveredTip, NoJournal
<1>4. HeightInv
  BY ReplayAssumption DEF Init, HeightInv, RecoveredTip, NoJournal, ConnectPCs
<1>5. FilesInv
  BY ReplayAssumption DEF Init, FilesInv, RecoveredTip, NoJournal, ConnectPCs
<1> QED  BY <1>1, <1>2, <1>3, <1>4, <1>5 DEF CrashInv, Init

(* While a block is connected, or a connect is rolled back. *)
LEMMA ConnectState ==
    ASSUME CrashInv, pc \in ConnectPCs \cup RollbackPCs
    PROVE  /\ cur \in Block
           /\ journal = [op |-> "connect", block |-> cur]
           /\ journal # NoJournal
           /\ tipFile = Parent[cur] /\ tipFile # cur
           /\ RecoveredTip = Parent[cur]
           /\ RecoveredUtxo = Undone(utxo, cur)
           /\ Undone(utxo, cur) = UtxoAt[Parent[cur]]
<1>1. /\ cur \in Block
      /\ journal = [op |-> "connect", block |-> cur]
      /\ tipFile = Parent[cur]
  BY DEF CrashInv, JournalInv, Before
<1>2. tipFile # cur
  BY <1>1, BlockFacts
<1>3. journal # NoJournal
  BY <1>1 DEF NoJournal
<1>4. RecoveredTip = Parent[cur] /\ RecoveredUtxo = Undone(utxo, cur)
  BY <1>1, <1>2 DEF RecoveredTip, RecoveredUtxo, ConnectPCs, RollbackPCs
<1> QED  BY <1>1, <1>2, <1>3, <1>4 DEF CrashInv, UtxoInv

(* While a block is disconnected. *)
LEMMA DisconnectState ==
    ASSUME CrashInv, pc \in DisconnectPCs
    PROVE  /\ cur \in Block /\ Parent[cur] \in Block
           /\ journal = [op |-> "disconnect", block |-> cur]
           /\ journal # NoJournal
           /\ tipFile \in {cur, Parent[cur]}
           /\ RecoveredTip = Parent[cur]
           /\ RecoveredUtxo = Undone(utxo, cur)
           /\ Undone(utxo, cur) = UtxoAt[Parent[cur]]
<1>1. cur \in Block /\ journal = [op |-> "disconnect", block |-> cur]
  BY DEF CrashInv, JournalInv
<1>2. journal # NoJournal
  BY <1>1 DEF NoJournal
<1>3. RecoveredTip = Parent[cur] /\ RecoveredUtxo = Undone(utxo, cur)
  BY <1>1 DEF RecoveredTip, RecoveredUtxo, DisconnectPCs
<1> QED  BY <1>2, <1>3 DEF CrashInv, UtxoInv, JournalInv

(* Between calls and during a reindex. *)
LEMMA QuietState ==
    ASSUME CrashInv, pc \in {"idle"} \cup ReindexPCs
    PROVE  /\ journal = NoJournal
           /\ memTip = tipFile
           /\ RecoveredTip = tipFile
           /\ pc # "x_replay" => utxo = UtxoAt[tipFile]
<1>1. journal = NoJournal /\ memTip = tipFile
  BY DEF CrashInv, JournalInv
<1>2. RecoveredTip = tipFile /\ (pc # "x_replay" => RecoveredUtxo = utxo)
  BY <1>1 DEF RecoveredTip, RecoveredUtxo, NoJournal
<1> QED  BY <1>1, <1>2 DEF CrashInv, UtxoInv

(* The height index has no gap below the recoverable tip, so               *)
(* LoadIndexByHeight finds the entry and repairs nothing.                  *)
LEMMA NoGap ==
    ASSUME CrashInv, RecoveredTip \in Tips, NEW h \in 0 .. Height[RecoveredTip]
    PROVE  /\ heightIndex[h] \in ChainTo[RecoveredTip]
           /\ heightIndex[h] \in Block
           /\ Height[heightIndex[h]] = h
           /\ Repaired(h) = heightIndex
<1>1. PICK b \in ChainTo[RecoveredTip] : Height[b] = h
  BY ReplayAssumption
<1>2. b \in Block
  BY ReplayAssumption
<1>3. heightIndex[h] = b
  BY <1>1 DEF CrashInv, HeightInv
<1> QED  BY <1>1, <1>2, <1>3 DEF Repaired

(* SaveBlock starts: the journal names the block before anything else is written. *)
LEMMA StepSaveBlockJournal ==
    ASSUME NEW b \in Block, CrashInv, SaveBlockJournal(b)
    PROVE  CrashInv'
<1> USE DEF SaveBlockJournal, goto, blockVars, indexVars, procVars, CrashInv
<1>1. TypeOK'
  BY DEF TypeOK, Journals, Tips, PCs, ConnectPCs
<1>2. JournalInv'
  BY DEF JournalInv, Before, DisconnectPCs, ReindexPCs
<1>3. UtxoInv'
  BY UndoneUtxo DEF JournalInv, UtxoInv, RecoveredUtxo, RecoveredTip, NoJournal
<1>4. HeightInv'
  BY DEF HeightInv, JournalInv, RecoveredTip, NoJournal
<1>5. FilesInv'
  BY DEF FilesInv, JournalInv, RecoveredTip, NoJournal
<1> QED  BY <1>1, <1>2, <1>3, <1>4, <1>5

(* SaveBlock writes the block file; RecoveredTip does not move. *)
LEMMA StepSaveBlockFile ==
    ASSUME CrashInv, SaveBlockFile
    PROVE  CrashInv'
<1> USE DEF SaveBlockFile, goto, blockVars, indexVars, procVars, CrashInv
<1>0. pc \in ConnectPCs \cup RollbackPCs
  BY DEF ConnectPCs
<1>1. TypeOK'
  BY ConnectState DEF TypeOK, PCs, ConnectPCs
<1>2. JournalInv'
  BY DEF JournalInv, Before, ConnectPCs, DisconnectPCs, ReindexPCs
<1>3. UtxoInv'
  BY DEF UtxoInv, RecoveredUtxo, RecoveredTip
<1>4. HeightInv'
  BY DEF HeightInv, RecoveredTip
<1>5. FilesInv'
  BY DEF FilesInv, RecoveredTip
<1> QED  BY <1>1, <1>2, <1>3, <1>4, <1>5

(* SaveBlock writes the hash index entry. *)
LEMMA StepSaveBlockHashIndex ==
    ASSUME CrashInv, SaveBlockHashIndex
    PROVE  CrashInv'
<1> USE DEF SaveBlockHashIndex, goto, blockVars, indexVars, procVars, CrashInv
<1>0. pc \in ConnectPCs \cup RollbackPCs
  BY DEF ConnectPCs
<1>1. TypeOK'
  BY ConnectState DEF TypeOK, PCs, ConnectPCs
<1>2. JournalInv'
  BY DEF JournalInv, Before, ConnectPCs, DisconnectPCs, ReindexPCs
<1>3. UtxoInv'
  BY DEF UtxoInv, RecoveredUtxo, RecoveredTip
<1>4. HeightInv'
  BY DEF HeightInv, RecoveredTip
<1>5. FilesInv'
  BY DEF FilesInv, RecoveredTip, ConnectPCs
<1> QED  BY <1>1, <1>2, <1>3, <1>4, <1>5

(* SaveBlock writes the height entry, the one entry beyond RecoveredTip. *)
LEMMA StepSaveBlockHeightIndex ==
    ASSUME CrashInv, SaveBlockHeightIndex
    PROVE  CrashInv'
<1> USE DEF SaveBlockHeightIndex, goto, blockVars, indexVars, procVars, CrashInv
<1>0. pc \in ConnectPCs \cup RollbackPCs
  BY DEF ConnectPCs
<1>1. TypeOK'
  BY DEF TypeOK, PCs, ConnectPCs
<1>2. JournalInv'
  BY DEF JournalInv, Before, ConnectPCs, DisconnectPCs, ReindexPCs
<1>3. UtxoInv'
  BY DEF UtxoInv, RecoveredUtxo, RecoveredTip
<1>4. HeightInv'
  <2>1. RecoveredTip = Parent[cur] /\ RecoveredTip' = Parent[cur]
    BY <1>0, ConnectState DEF RecoveredTip
  <2>2. cur \in Block /\ Height[cur] \in Heights /\ journal # NoJournal /\ journal.block = cur
    BY <1>0, ConnectState, BlockFacts
  <2>3. \A b \in ChainTo[Parent[cur]] : Height[b] # Height[cur]
    BY <2>2, BlockFacts
  <2> QED
    BY <2>1, <2>2, <2>3 DEF HeightInv, TypeOK
<1>5. FilesInv'
  BY DEF FilesInv, RecoveredTip, ConnectPCs
<1> QED  BY <1>1, <1>2, <1>3, <1>4, <1>5

(* SaveBlock removes one spent output, which undoing the block puts back. *)
LEMMA StepSaveBlockSpend ==
    ASSUME CrashInv, SaveBlockSpend
    PROVE  CrashInv'
<1> USE DEF SaveBlockSpend, goto, blockVars, indexVars, procVars, CrashInv
<1>0. pc \in ConnectPCs \cup RollbackPCs
  BY DEF ConnectPCs
<1>1. TypeOK'
  BY DEF TypeOK, PCs, ConnectPCs
<1>2. JournalInv'
  BY DEF JournalInv, Before, ConnectPCs, DisconnectPCs, ReindexPCs
<1>3. UtxoInv'
  <2>1. RecoveredTip' = Parent[cur] /\ RecoveredUtxo' = Undone(utxo', cur)
    BY <1>0, ConnectState DEF RecoveredTip, RecoveredUtxo
  <2>2. Undone(utxo', cur) = Undone(utxo, cur)
    <3>1. cur \in Block
      BY <1>0, ConnectState
    <3>2. OneMove(utxo, utxo', cur)
      BY DEF OneMove
    <3> QED  BY ONLY <3>1, <3>2, UndoneMove
  <2> QED
    BY <1>0, <2>1, <2>2, ConnectState DEF UtxoInv
<1>4. HeightInv'
  BY DEF HeightInv, RecoveredTip, ConnectPCs
<1>5. FilesInv'
  BY DEF FilesInv, RecoveredTip, ConnectPCs
<1> QED  BY <1>1, <1>2, <1>3, <1>4, <1>5

(* SaveBlock adds one created output, which undoing the block removes. *)
LEMMA StepSaveBlockAdd ==
    ASSUME CrashInv, SaveBlockAdd
    PROVE  CrashInv'
<1> USE DEF SaveBlockAdd, goto, blockVars, indexVars, procVars, CrashInv
<1>0. pc \in ConnectPCs \cup RollbackPCs
  BY DEF ConnectPCs
<1>1. TypeOK'
  BY ConnectState, OutputsAssumption DEF TypeOK, PCs, ConnectPCs
<1>2. JournalInv'
  BY DEF JournalInv, Before, ConnectPCs, DisconnectPCs, ReindexPCs
<1>3. UtxoInv'
  <2>1. RecoveredTip' = Parent[cur] /\ RecoveredUtxo' = Undone(utxo', cur)
    BY <1>0, ConnectState DEF RecoveredTip, RecoveredUtxo
  <2>2. Undone(utxo', cur) = Undone(utxo, cur)
    <3>1. cur \in Block
      BY <1>0, ConnectState
    <3>2. OneMove(utxo, utxo', cur)
      BY DEF OneMove
    <3> QED  BY ONLY <3>1, <3>2, UndoneMove
  <2>3. Spends[cur] \cap utxo' = {}
    BY <1>0, ConnectState, UndoneUtxo DEF UtxoInv
  <2> QED
    BY <1>0, <2>1, <2>2, <2>3, ConnectState DEF UtxoInv
<1>4. HeightInv'
  BY DEF HeightInv, RecoveredTip, ConnectPCs
<1>5. FilesInv'
  BY DEF FilesInv, RecoveredTip, ConnectPCs
<1> QED  BY <1>1, <1>2, <1>3, <1>4, <1>5

(* SaveBlock writes the undo record. *)
LEMMA StepSaveBlockUndo ==
    ASSUME CrashInv, SaveBlockUndo
    PROVE  CrashInv'
<1> USE DEF SaveBlockUndo, goto, blockVars, indexVars, procVars, CrashInv
<1>0. pc \in ConnectPCs \cup RollbackPCs
  BY DEF ConnectPCs
<1>1. TypeOK'
  BY ConnectState DEF TypeOK, PCs, ConnectPCs
<1>2. JournalInv'
  BY DEF JournalInv, Before, ConnectPCs, DisconnectPCs, ReindexPCs
<1>3. UtxoInv'
  BY DEF UtxoInv, RecoveredUtxo, RecoveredTip
<1>4. HeightInv'
  BY DEF HeightInv, RecoveredTip, ConnectPCs
<1>5. FilesInv'
  BY DEF FilesInv, RecoveredTip, ConnectPCs
<1> QED  BY <1>1, <1>2, <1>3, <1>4, <1>5

(* SaveBlock writes the transaction index, which the invariant does not mention. *)
LEMMA StepSaveBlockTxIndex ==
    ASSUME CrashInv, SaveBlockTxIndex
    PROVE  CrashInv'
<1> USE DEF SaveBlockTxIndex, goto, blockVars, indexVars, procVars, CrashInv
<1>0. pc \in ConnectPCs \cup RollbackPCs
  BY DEF ConnectPCs
<1>1. TypeOK'
  BY DEF TypeOK, PCs, ConnectPCs
<1>2. JournalInv'
  BY DEF JournalInv, Before, ConnectPCs, DisconnectPCs, ReindexPCs
<1>3. UtxoInv'
  BY DEF UtxoInv, RecoveredUtxo, RecoveredTip
<1>4. HeightInv'
  BY DEF HeightInv, RecoveredTip, ConnectPCs
<1>5. FilesInv'
  BY DEF FilesInv, RecoveredTip, ConnectPCs
<1> QED  BY <1>1, <1>2, <1>3, <1>4, <1>5

(* SaveBlock removes the spent outputs from the address index. *)
LEMMA StepSaveBlockAddrSpend ==
    ASSUME CrashInv, SaveBlockAddrSpend
    PROVE  CrashInv'
<1> USE DEF SaveBlockAddrSpend, goto, blockVars, indexVars, procVars, CrashInv
<1>0. pc \in ConnectPCs \cup RollbackPCs
  BY DEF ConnectPCs
<1>1. TypeOK'
  BY DEF TypeOK, PCs, ConnectPCs
<1>2. JournalInv'
  BY DEF JournalInv, Before, ConnectPCs, DisconnectPCs, ReindexPCs
<1>3. UtxoInv'
  BY DEF UtxoInv, RecoveredUtxo, RecoveredTip
<1>4. HeightInv'
  BY DEF HeightInv, RecoveredTip, ConnectPCs
<1>5. FilesInv'
  BY DEF FilesInv, RecoveredTip, ConnectPCs
<1> QED  BY <1>1, <1>2, <1>3, <1>4, <1>5

(* SaveBlock adds the created outputs to the address index. *)
LEMMA StepSaveBlockAddrAdd ==
    ASSUME CrashInv, SaveBlockAddrAdd
    PROVE  CrashInv'
<1> USE DEF SaveBlockAddrAdd, goto, blockVars, indexVars, procVars, CrashInv
<1>0. pc \in ConnectPCs \cup RollbackPCs
  BY DEF ConnectPCs
<1>1. TypeOK'
  BY ConnectState, OutputsAssumption DEF TypeOK, PCs, ConnectPCs
<1>2. JournalInv'
  BY DEF JournalInv, Before, ConnectPCs, DisconnectPCs, ReindexPCs
<1>3. UtxoInv'
  BY DEF UtxoInv, RecoveredUtxo, RecoveredTip
<1>4. HeightInv'
  BY DEF HeightInv, RecoveredTip, ConnectPCs
<1>5. FilesInv'
  BY DEF FilesInv, RecoveredTip, ConnectPCs
<1> QED  BY <1>1, <1>2, <1>3, <1>4, <1>5

(* SaveBlock writes the tip: RecoveredTip moves to the block in this step. *)
LEMMA StepSaveBlockTip ==
    ASSUME CrashInv, SaveBlockTip
    PROVE  CrashInv'
<1> USE DEF SaveBlockTip, goto, blockVars, indexVars, procVars, CrashInv
<1>0. pc \in ConnectPCs \cup RollbackPCs
  BY DEF ConnectPCs
<1>p. RecoveredTip = Parent[cur] /\ RecoveredTip' = cur /\ cur \in Block
  BY <1>0, ConnectState DEF RecoveredTip
<1>q. ChainTo[cur] = ChainTo[Parent[cur]] \cup {cur}
  BY <1>p, BlockFacts
<1>1. TypeOK'
  BY DEF TypeOK, PCs
<1>2. JournalInv'
  BY DEF JournalInv, NoJournal, ConnectPCs, DisconnectPCs, RollbackPCs, ReindexPCs
<1>3. UtxoInv'
  BY <1>0, ConnectState, UndoneDone DEF UtxoInv, RecoveredUtxo, RecoveredTip
<1>4. HeightInv'
  BY <1>p, <1>q, ConnectState DEF HeightInv, ConnectPCs
<1>5. FilesInv'
  BY <1>p, <1>q DEF FilesInv, ConnectPCs
<1> QED  BY <1>1, <1>2, <1>3, <1>4, <1>5

(* The journal is removed when the disk describes the tip. *)
LEMMA StepClearJournal ==
    ASSUME CrashInv, ClearJournal
    PROVE  CrashInv'
<1> USE DEF ClearJournal, goto, blockVars, indexVars, procVars, CrashInv
<1>1. TypeOK'
  BY DEF TypeOK, Journals, Tips, PCs
<1>2. JournalInv'
  BY DEF JournalInv, ConnectPCs, DisconnectPCs, RollbackPCs, ReindexPCs
<1>3. UtxoInv'
  BY DEF UtxoInv, RecoveredUtxo, RecoveredTip, NoJournal
<1>4. HeightInv'
  BY DEF HeightInv, JournalInv, Before, RecoveredTip, NoJournal, ConnectPCs
<1>5. FilesInv'
  BY DEF FilesInv, JournalInv, Before, RecoveredTip, NoJournal, ConnectPCs
<1> QED  BY <1>1, <1>2, <1>3, <1>4, <1>5

(* DisconnectBlock starts: RecoveredTip moves to the parent with the journal. *)
LEMMA StepDisconnectJournal ==
    ASSUME CrashInv, DisconnectJournal
    PROVE  CrashInv'
<1> USE DEF DisconnectJournal, goto, blockVars, indexVars, procVars, CrashInv
<1>0. pc \in {"idle"} \cup ReindexPCs
  OBVIOUS
<1>p. heightIndex' = heightIndex /\ memTip \in Block /\ RecoveredTip = memTip
  <2>1. RecoveredTip = memTip /\ memTip \in Block /\ RecoveredTip \in Tips
    BY QuietState DEF Tips
  <2>2. Height[memTip] - 1 \in 0 .. Height[RecoveredTip]
    BY <2>1, BlockFacts
  <2> QED
    BY <2>1, <2>2, NoGap
<1>1. TypeOK'
  BY <1>p DEF TypeOK, Journals, PCs, DisconnectPCs
<1>2. JournalInv'
  BY BlockFacts DEF JournalInv, ConnectPCs, RollbackPCs, ReindexPCs
<1>3. UtxoInv'
  BY UndoneUtxo DEF JournalInv, UtxoInv, RecoveredUtxo, RecoveredTip, NoJournal
<1>4. HeightInv'
  <2>1. RecoveredTip' = Parent[memTip]
    BY DEF RecoveredTip
  <2>2. ChainTo[memTip] = ChainTo[Parent[memTip]] \cup {memTip}
    BY BlockFacts
  <2>3. journal' # NoJournal /\ journal'.block = memTip /\ journal = NoJournal
    BY QuietState DEF NoJournal
  <2> QED
    BY <1>p, <2>1, <2>2, <2>3 DEF HeightInv
<1>5. FilesInv'
  BY <1>p, BlockFacts DEF FilesInv, RecoveredTip
<1> QED  BY <1>1, <1>2, <1>3, <1>4, <1>5

(* DisconnectBlock deletes one output the block created. *)
LEMMA StepDisconnectDel ==
    ASSUME CrashInv, DisconnectDel
    PROVE  CrashInv'
<1> USE DEF DisconnectDel, goto, blockVars, indexVars, procVars, CrashInv
<1>0. pc \in DisconnectPCs
  BY DEF DisconnectPCs
<1>1. TypeOK'
  BY DEF TypeOK, PCs, DisconnectPCs
<1>2. JournalInv'
  BY DEF JournalInv, ConnectPCs, DisconnectPCs, RollbackPCs, ReindexPCs
<1>3. UtxoInv'
  <2>1. RecoveredTip' = Parent[cur] /\ RecoveredUtxo' = Undone(utxo', cur)
    BY <1>0, DisconnectState DEF RecoveredTip, RecoveredUtxo
  <2>2. Undone(utxo', cur) = Undone(utxo, cur)
    <3>1. cur \in Block
      BY <1>0, DisconnectState
    <3>2. OneMove(utxo, utxo', cur)
      BY DEF OneMove
    <3> QED  BY ONLY <3>1, <3>2, UndoneMove
  <2> QED
    BY <1>0, <2>1, <2>2, DisconnectState DEF UtxoInv
<1>4. HeightInv'
  BY DEF HeightInv, RecoveredTip, ConnectPCs
<1>5. FilesInv'
  BY DEF FilesInv, RecoveredTip, ConnectPCs
<1> QED  BY <1>1, <1>2, <1>3, <1>4, <1>5

(* DisconnectBlock puts back one output the block spent. *)
LEMMA StepDisconnectPut ==
    ASSUME CrashInv, DisconnectPut
    PROVE  CrashInv'
<1> USE DEF DisconnectPut, goto, blockVars, indexVars, procVars, CrashInv
<1>0. pc \in DisconnectPCs
  BY DEF DisconnectPCs
<1>1. TypeOK'
  BY DisconnectState, OutputsAssumption DEF TypeOK, PCs, DisconnectPCs
<1>2. JournalInv'
  BY DEF JournalInv, ConnectPCs, DisconnectPCs, RollbackPCs, ReindexPCs
<1>3. UtxoInv'
  <2>1. RecoveredTip' = Parent[cur] /\ RecoveredUtxo' = Undone(utxo', cur)
    BY <1>0, DisconnectState DEF RecoveredTip, RecoveredUtxo
  <2>2. Undone(utxo', cur) = Undone(utxo, cur)
    <3>1. cur \in Block
      BY <1>0, DisconnectState
    <3>2. OneMove(utxo, utxo', cur)
      BY DEF OneMove
    <3> QED  BY ONLY <3>1, <3>2, UndoneMove
  <2>3. Adds[cur] \cap utxo' = {}
    BY <1>0, DisconnectState, UndoneUtxo DEF UtxoInv
  <2> QED
    BY <1>0, <2>1, <2>2, <2>3, DisconnectState DEF UtxoInv
<1>4. HeightInv'
  BY DEF HeightInv, RecoveredTip, ConnectPCs
<1>5. FilesInv'
  BY DEF FilesInv, RecoveredTip, ConnectPCs
<1> QED  BY <1>1, <1>2, <1>3, <1>4, <1>5

(* DisconnectBlock removes the height entry of the block. *)
LEMMA StepDisconnectHeight ==
    ASSUME CrashInv, DisconnectHeight
    PROVE  CrashInv'
<1> USE DEF DisconnectHeight, goto, blockVars, indexVars, procVars, CrashInv
<1>0. pc \in DisconnectPCs
  BY DEF DisconnectPCs
<1>1. TypeOK'
  BY DEF TypeOK, Tips, PCs, DisconnectPCs
<1>2. JournalInv'
  BY DEF JournalInv, ConnectPCs, DisconnectPCs, RollbackPCs, ReindexPCs
<1>3. UtxoInv'
  BY DEF UtxoInv, RecoveredUtxo, RecoveredTip
<1>4. HeightInv'
  <2>1. RecoveredTip = Parent[cur] /\ RecoveredTip' = Parent[cur]
    BY <1>0, DisconnectState DEF RecoveredTip
  <2>2. cur \in Block /\ Height[cur] \in Heights
    BY <1>0, DisconnectState, BlockFacts
  <2>3. \A b \in ChainTo[Parent[cur]] : Height[b] # Height[cur]
    BY <2>2, BlockFacts
  <2> QED
    BY <2>1, <2>2, <2>3, TreeAssumption DEF HeightInv, TypeOK, ConnectPCs
<1>5. FilesInv'
  BY DEF FilesInv, RecoveredTip, ConnectPCs
<1> QED  BY <1>1, <1>2, <1>3, <1>4, <1>5

(* DisconnectBlock writes the parent as the tip. *)
LEMMA StepDisconnectTip ==
    ASSUME CrashInv, DisconnectTip
    PROVE  CrashInv'
<1> USE DEF DisconnectTip, goto, blockVars, indexVars, procVars, CrashInv
<1>0. pc \in DisconnectPCs
  BY DEF DisconnectPCs
<1>1. TypeOK'
  BY DisconnectState DEF TypeOK, Tips, PCs, DisconnectPCs
<1>2. JournalInv'
  BY DEF JournalInv, Before, NoJournal, ConnectPCs, DisconnectPCs, RollbackPCs, ReindexPCs
<1>3. UtxoInv'
  <2>1. RecoveredTip' = Parent[cur] /\ RecoveredUtxo' = Undone(utxo, cur)
    BY <1>0, DisconnectState DEF RecoveredTip, RecoveredUtxo
  <2>2. utxo = UtxoAt[Parent[cur]]
    BY <1>0, DisconnectState, UndoneDone DEF UtxoInv
  <2> QED
    BY <1>0, <2>1, <2>2, DisconnectState DEF UtxoInv
<1>4. HeightInv'
  <2>1. RecoveredTip = Parent[cur] /\ RecoveredTip' = Parent[cur]
    BY <1>0, DisconnectState DEF RecoveredTip
  <2>2. \A h \in Heights : heightIndex[h] \in Block => heightIndex[h] \in ChainTo[Parent[cur]]
    BY <1>0, DisconnectState, TreeAssumption DEF HeightInv
  <2> QED
    BY <2>1, <2>2 DEF HeightInv, ConnectPCs
<1>5. FilesInv'
  BY DEF FilesInv, JournalInv, RecoveredTip, ConnectPCs, DisconnectPCs
<1> QED  BY <1>1, <1>2, <1>3, <1>4, <1>5

(* The rebuild of the optional indexes empties the transaction index. *)
LEMMA StepWipeTxIndex ==
    ASSUME CrashInv, WipeTxIndex
    PROVE  CrashInv'
<1> USE DEF WipeTxIndex, goto, blockVars, indexVars, procVars, CrashInv
<1>1. TypeOK'
  BY TreeAssumption DEF TypeOK, PCs, DisconnectPCs, ReindexPCs
<1>2. JournalInv'
  BY DEF JournalInv, Before, ConnectPCs, DisconnectPCs, RollbackPCs, ReindexPCs
<1>3. UtxoInv'
  BY DEF UtxoInv, RecoveredUtxo, RecoveredTip
<1>4. HeightInv'
  BY DEF HeightInv, RecoveredTip, ConnectPCs
<1>5. FilesInv'
  BY DEF FilesInv, RecoveredTip, ConnectPCs
<1> QED  BY <1>1, <1>2, <1>3, <1>4, <1>5

(* The rebuild of the optional indexes empties the address index. *)
LEMMA StepWipeAddressIndex ==
    ASSUME CrashInv, WipeAddressIndex
    PROVE  CrashInv'
<1> USE DEF WipeAddressIndex, goto, blockVars, indexVars, procVars, CrashInv
<1>1. TypeOK'
  BY TreeAssumption DEF TypeOK, PCs, DisconnectPCs, ReindexPCs
<1>2. JournalInv'
  BY DEF JournalInv, Before, ConnectPCs, DisconnectPCs, RollbackPCs, ReindexPCs
<1>3. UtxoInv'
  BY DEF UtxoInv, RecoveredUtxo, RecoveredTip
<1>4. HeightInv'
  BY DEF HeightInv, RecoveredTip, ConnectPCs
<1>5. FilesInv'
  BY DEF FilesInv, RecoveredTip, ConnectPCs
<1> QED  BY <1>1, <1>2, <1>3, <1>4, <1>5

(* The rebuild of the optional indexes adds one block. *)
LEMMA StepIndexBlockAgain ==
    ASSUME CrashInv, IndexBlockAgain
    PROVE  CrashInv'
<1> USE DEF IndexBlockAgain, goto, blockVars, indexVars, procVars, CrashInv
<1>p. heightIndex' = heightIndex /\ heightIndex[rh] \in ChainTo[RecoveredTip] /\ heightIndex[rh] \in Block
  <2>1. RecoveredTip = tipFile /\ tipFile \in Tips
    BY QuietState, DisconnectState DEF TypeOK, JournalInv, Before, ReindexPCs, DisconnectPCs
  <2>2. rh \in 0 .. Height[RecoveredTip]
    BY <2>1 DEF TypeOK
  <2> QED
    BY <2>1, <2>2, NoGap
<1>1. TypeOK'
  BY <1>p, OutputsAssumption, TreeAssumption DEF TypeOK, Tips
<1>2. JournalInv'
  BY DEF JournalInv, Before
<1>3. UtxoInv'
  BY DEF UtxoInv, RecoveredUtxo, RecoveredTip
<1>4. HeightInv'
  BY <1>p DEF HeightInv, RecoveredTip
<1>5. FilesInv'
  BY DEF FilesInv, RecoveredTip
<1> QED  BY <1>1, <1>2, <1>3, <1>4, <1>5

(* The rebuild ends: the disconnect is complete, or the reindex is. *)
LEMMA StepIndexAgainDone ==
    ASSUME CrashInv, IndexAgainDone
    PROVE  CrashInv'
<1> USE DEF IndexAgainDone, goto, blockVars, indexVars, procVars, CrashInv
<1>1. TypeOK'
  BY TreeAssumption DEF TypeOK, PCs
<1>2. JournalInv'
  BY DEF JournalInv, Before, NoJournal, ConnectPCs, DisconnectPCs, RollbackPCs, ReindexPCs
<1>3. UtxoInv'
  <2>1. CASE pc = "d_index"
    <3>0. pc \in DisconnectPCs
      BY <2>1 DEF DisconnectPCs
    <3>1. RecoveredTip' = Parent[cur] /\ RecoveredUtxo' = Undone(utxo, cur) /\ tipFile = Parent[cur]
      BY <2>1, <3>0 DEF RecoveredTip, RecoveredUtxo, JournalInv, Before
    <3>2. utxo = UtxoAt[Parent[cur]]
      BY <2>1, <3>0, DisconnectState, UndoneDone DEF UtxoInv
    <3> QED
      BY <3>0, <3>1, <3>2, DisconnectState DEF UtxoInv
  <2>2. CASE pc = "x_index"
    BY <2>2 DEF UtxoInv, RecoveredTip, RecoveredUtxo
  <2> QED
    BY <2>1, <2>2
<1>4. HeightInv'
  <2>1. CASE pc = "d_index"
    <3>0. pc \in DisconnectPCs
      BY <2>1 DEF DisconnectPCs
    <3>1. RecoveredTip = Parent[cur] /\ RecoveredTip' = Parent[cur] /\ tipFile = Parent[cur]
      BY <2>1, <3>0 DEF RecoveredTip, JournalInv, Before
    <3>2. \A h \in Heights : heightIndex[h] \in Block => heightIndex[h] \in ChainTo[Parent[cur]]
      BY <2>1, <3>0, DisconnectState, TreeAssumption DEF HeightInv
    <3> QED
      BY <3>1, <3>2 DEF HeightInv, ConnectPCs
  <2>2. CASE pc = "x_index"
    BY <2>2 DEF HeightInv, RecoveredTip, ConnectPCs
  <2> QED
    BY <2>1, <2>2
<1>5. FilesInv'
  BY DEF FilesInv, RecoveredTip, ConnectPCs
<1> QED  BY <1>1, <1>2, <1>3, <1>4, <1>5

(* A start that finds no journal. *)
LEMMA StepStartClean ==
    ASSUME CrashInv, StartClean
    PROVE  CrashInv'
<1> USE DEF StartClean, goto, blockVars, indexVars, procVars, CrashInv
<1>1. TypeOK'
  BY DEF TypeOK, PCs
<1>2. JournalInv'
  BY DEF JournalInv, ConnectPCs, DisconnectPCs, RollbackPCs, ReindexPCs
<1>3. UtxoInv'
  BY DEF UtxoInv, RecoveredUtxo, RecoveredTip
<1>4. HeightInv'
  BY DEF HeightInv, RecoveredTip, ConnectPCs
<1>5. FilesInv'
  BY DEF FilesInv, RecoveredTip, ConnectPCs
<1> QED  BY <1>1, <1>2, <1>3, <1>4, <1>5

(* A start that finds the journaled block already in the tip file. *)
LEMMA StepStartCommitted ==
    ASSUME CrashInv, StartCommitted
    PROVE  CrashInv'
<1> USE DEF StartCommitted, goto, blockVars, indexVars, procVars, CrashInv
<1>1. TypeOK'
  BY DEF TypeOK, PCs
<1>2. JournalInv'
  BY DEF JournalInv, NoJournal, ConnectPCs, DisconnectPCs, RollbackPCs, ReindexPCs
<1>3. UtxoInv'
  BY DEF UtxoInv, RecoveredUtxo, RecoveredTip
<1>4. HeightInv'
  <2>1. journal.block \in Block /\ RecoveredTip = journal.block /\ RecoveredTip' = journal.block
    BY DEF RecoveredTip, TypeOK, Journals, NoJournal
  <2>2. journal.block \in ChainTo[journal.block]
    BY <2>1, BlockFacts
  <2> QED
    BY <2>1, <2>2 DEF HeightInv, ConnectPCs
<1>5. FilesInv'
  BY DEF FilesInv, RecoveredTip, ConnectPCs
<1> QED  BY <1>1, <1>2, <1>3, <1>4, <1>5

(* A start that finds a connect the tip file does not know: rollbackConnect. *)
LEMMA StepStartRollback ==
    ASSUME CrashInv, StartRollback
    PROVE  CrashInv'
<1> USE DEF StartRollback, goto, blockVars, indexVars, procVars, CrashInv
<1>p. journal.block \in Block /\ journal # NoJournal
  BY DEF TypeOK, Journals, NoJournal
<1>q. journal = [op |-> "connect", block |-> journal.block]
  BY <1>p DEF TypeOK, Journals
<1>1. TypeOK'
  BY <1>p DEF TypeOK, Tips, PCs, RollbackPCs
<1>2. JournalInv'
  BY <1>p, <1>q DEF JournalInv, Before, ConnectPCs, DisconnectPCs, ReindexPCs
<1>3. UtxoInv'
  BY DEF UtxoInv, RecoveredUtxo, RecoveredTip
<1>4. HeightInv'
  BY DEF HeightInv, RecoveredTip, ConnectPCs
<1>5. FilesInv'
  BY DEF FilesInv, RecoveredTip, ConnectPCs
<1> QED  BY <1>1, <1>2, <1>3, <1>4, <1>5

(* A start that finds a disconnect: it is carried out again. *)
LEMMA StepStartRedoDisconnect ==
    ASSUME CrashInv, StartRedoDisconnect
    PROVE  CrashInv'
<1> USE DEF StartRedoDisconnect, goto, blockVars, indexVars, procVars, CrashInv
<1>p. journal.block \in Block /\ journal # NoJournal
  BY DEF TypeOK, Journals, NoJournal
<1>q. journal = [op |-> "disconnect", block |-> journal.block]
  BY <1>p DEF TypeOK, Journals
<1>1. TypeOK'
  BY <1>p DEF TypeOK, Tips, PCs, DisconnectPCs
<1>2. JournalInv'
  BY <1>p, <1>q DEF JournalInv, ConnectPCs, RollbackPCs, ReindexPCs
<1>3. UtxoInv'
  BY DEF UtxoInv, RecoveredUtxo, RecoveredTip
<1>4. HeightInv'
  BY DEF HeightInv, RecoveredTip, ConnectPCs
<1>5. FilesInv'
  BY DEF FilesInv, RecoveredTip, ConnectPCs
<1> QED  BY <1>1, <1>2, <1>3, <1>4, <1>5

(* rollbackConnect deletes one output the block created. *)
LEMMA StepRollbackDel ==
    ASSUME CrashInv, RollbackDel
    PROVE  CrashInv'
<1> USE DEF RollbackDel, goto, blockVars, indexVars, procVars, CrashInv
<1>0. pc \in ConnectPCs \cup RollbackPCs
  BY DEF RollbackPCs
<1>1. TypeOK'
  BY DEF TypeOK, PCs, RollbackPCs
<1>2. JournalInv'
  BY DEF JournalInv, Before, ConnectPCs, DisconnectPCs, RollbackPCs, ReindexPCs
<1>3. UtxoInv'
  <2>1. RecoveredTip' = Parent[cur] /\ RecoveredUtxo' = Undone(utxo', cur)
    BY <1>0, ConnectState DEF RecoveredTip, RecoveredUtxo
  <2>2. Undone(utxo', cur) = Undone(utxo, cur)
    <3>1. cur \in Block
      BY <1>0, ConnectState
    <3>2. OneMove(utxo, utxo', cur)
      BY DEF OneMove
    <3> QED  BY ONLY <3>1, <3>2, UndoneMove
  <2> QED
    BY <1>0, <2>1, <2>2, ConnectState DEF UtxoInv
<1>4. HeightInv'
  BY DEF HeightInv, RecoveredTip, ConnectPCs
<1>5. FilesInv'
  BY DEF FilesInv, RecoveredTip, ConnectPCs
<1> QED  BY <1>1, <1>2, <1>3, <1>4, <1>5

(* rollbackConnect puts back one output the block spent. *)
LEMMA StepRollbackPut ==
    ASSUME CrashInv, RollbackPut
    PROVE  CrashInv'
<1> USE DEF RollbackPut, goto, blockVars, indexVars, procVars, CrashInv
<1>0. pc \in ConnectPCs \cup RollbackPCs
  BY DEF RollbackPCs
<1>1. TypeOK'
  BY ConnectState, OutputsAssumption DEF TypeOK, PCs, RollbackPCs
<1>2. JournalInv'
  BY DEF JournalInv, Before, ConnectPCs, DisconnectPCs, RollbackPCs, ReindexPCs
<1>3. UtxoInv'
  <2>1. RecoveredTip' = Parent[cur] /\ RecoveredUtxo' = Undone(utxo', cur)
    BY <1>0, ConnectState DEF RecoveredTip, RecoveredUtxo
  <2>2. Undone(utxo', cur) = Undone(utxo, cur)
    <3>1. cur \in Block
      BY <1>0, ConnectState
    <3>2. OneMove(utxo, utxo', cur)
      BY DEF OneMove
    <3> QED  BY ONLY <3>1, <3>2, UndoneMove
  <2>3. Adds[cur] \cap utxo' = {}
    BY <1>0, ConnectState, UndoneUtxo DEF UtxoInv
  <2> QED
    BY <1>0, <2>1, <2>2, <2>3, ConnectState DEF UtxoInv
<1>4. HeightInv'
  BY DEF HeightInv, RecoveredTip, ConnectPCs
<1>5. FilesInv'
  BY DEF FilesInv, RecoveredTip, ConnectPCs
<1> QED  BY <1>1, <1>2, <1>3, <1>4, <1>5

(* rollbackConnect removes the files of the block, none of an active one. *)
LEMMA StepRollbackFiles ==
    ASSUME CrashInv, RollbackFiles
    PROVE  CrashInv'
<1> USE DEF RollbackFiles, goto, blockVars, indexVars, procVars, CrashInv
<1>0. pc \in ConnectPCs \cup RollbackPCs
  BY DEF RollbackPCs
<1>1. TypeOK'
  BY DEF TypeOK, Tips, PCs, RollbackPCs
<1>2. JournalInv'
  BY DEF JournalInv, Before, NoJournal, ConnectPCs, DisconnectPCs, RollbackPCs, ReindexPCs
<1>3. UtxoInv'
  BY UndoneDone DEF JournalInv, UtxoInv, RecoveredUtxo, RecoveredTip, NoJournal, RollbackPCs
<1>4. HeightInv'
  <2>1. RecoveredTip = Parent[cur] /\ RecoveredTip' = Parent[cur]
    BY <1>0, ConnectState DEF RecoveredTip
  <2>2. cur \in Block /\ Height[cur] \in Heights /\ tipFile = Parent[cur]
    BY <1>0, ConnectState, BlockFacts
  <2>3. \A b \in ChainTo[Parent[cur]] : Height[b] # Height[cur]
    BY <2>2, BlockFacts
  <2>4. journal # NoJournal /\ journal.block = cur
    BY <1>0, ConnectState
  <2>5. CASE pc \in {"v_block", "v_hash"}
    BY <2>1, <2>5 DEF HeightInv, ConnectPCs
  <2>6. CASE pc = "v_height"
    <3>1. heightIndex' = [heightIndex EXCEPT ![Height[cur]] = NoBlock] /\ pc' = "v_undo"
      BY <2>6
    <3>2. heightIndex'[Height[cur]] = NoBlock
      BY <2>2, <3>1 DEF TypeOK
    <3>3. \A h \in Heights : h # Height[cur] => heightIndex'[h] = heightIndex[h]
      BY <3>1
    <3>4. \A b \in ChainTo[RecoveredTip'] : heightIndex'[Height[b]] = b
      BY <2>1, <2>3, <3>1 DEF HeightInv
    <3> QED
      BY <2>1, <3>1, <3>2, <3>4, TreeAssumption DEF HeightInv, ConnectPCs
  <2>7. CASE pc = "v_undo"
    <3>1. \A h \in Heights : heightIndex[h] \in Block => heightIndex[h] \in ChainTo[Parent[cur]]
      BY <2>1, <2>4, <2>7, TreeAssumption DEF HeightInv
    <3> QED
      BY <2>1, <2>2, <2>7, <3>1 DEF HeightInv, ConnectPCs
  <2> QED
    BY <2>5, <2>6, <2>7
<1>5. FilesInv'
  BY BlockFacts DEF FilesInv, JournalInv, Before, RecoveredTip, ConnectPCs, RollbackPCs
<1> QED  BY <1>1, <1>2, <1>3, <1>4, <1>5

(* RepairIndexes starts. *)
LEMMA StepReindexBegin ==
    ASSUME CrashInv, ReindexBegin
    PROVE  CrashInv'
<1> USE DEF ReindexBegin, goto, blockVars, indexVars, procVars, CrashInv
<1>1. TypeOK'
  BY DEF TypeOK, PCs, ReindexPCs
<1>2. JournalInv'
  BY DEF JournalInv, ConnectPCs, DisconnectPCs, RollbackPCs
<1>3. UtxoInv'
  BY DEF UtxoInv, RecoveredUtxo, RecoveredTip
<1>4. HeightInv'
  BY DEF HeightInv, RecoveredTip, ConnectPCs
<1>5. FilesInv'
  BY DEF FilesInv, RecoveredTip, ConnectPCs
<1> QED  BY <1>1, <1>2, <1>3, <1>4, <1>5

(* RepairHeightIndex finds every entry in place. *)
LEMMA StepReindexHeight ==
    ASSUME CrashInv, ReindexHeight
    PROVE  CrashInv'
<1> USE DEF ReindexHeight, goto, blockVars, indexVars, procVars, CrashInv
<1>0. pc \in {"idle"} \cup ReindexPCs
  BY DEF ReindexPCs
<1>p. heightIndex' = heightIndex /\ pc' = "x_hash"
  BY <1>0, QuietState DEF HeightInv
<1>1. TypeOK'
  BY <1>p DEF TypeOK, PCs, ReindexPCs
<1>2. JournalInv'
  BY DEF JournalInv, ConnectPCs, DisconnectPCs, RollbackPCs, ReindexPCs
<1>3. UtxoInv'
  BY DEF UtxoInv, RecoveredUtxo, RecoveredTip
<1>4. HeightInv'
  BY <1>p DEF HeightInv, RecoveredTip, ConnectPCs
<1>5. FilesInv'
  BY DEF FilesInv, RecoveredTip, ConnectPCs
<1> QED  BY <1>1, <1>2, <1>3, <1>4, <1>5

(* The hash index is written again from the active chain. *)
LEMMA StepReindexHash ==
    ASSUME CrashInv, ReindexHash
    PROVE  CrashInv'
<1> USE DEF ReindexHash, goto, blockVars, indexVars, procVars, CrashInv
<1>1. TypeOK'
  BY DEF TypeOK, PCs, ReindexPCs
<1>2. JournalInv'
  BY DEF JournalInv, ConnectPCs, DisconnectPCs, RollbackPCs, ReindexPCs
<1>3. UtxoInv'
  BY DEF UtxoInv, RecoveredUtxo, RecoveredTip
<1>4. HeightInv'
  BY DEF HeightInv, RecoveredTip, ConnectPCs
<1>5. FilesInv'
  BY DEF FilesInv, RecoveredTip, ConnectPCs
<1> QED  BY <1>1, <1>2, <1>3, <1>4, <1>5

(* The unspent set is removed, to be replayed. *)
LEMMA StepReindexWipeUtxo ==
    ASSUME CrashInv, ReindexWipeUtxo
    PROVE  CrashInv'
<1> USE DEF ReindexWipeUtxo, goto, blockVars, indexVars, procVars, CrashInv
<1>0. pc \in {"idle"} \cup ReindexPCs
  BY DEF ReindexPCs
<1>1. TypeOK'
  BY TreeAssumption DEF TypeOK, PCs, ReindexPCs
<1>2. JournalInv'
  BY DEF JournalInv, ConnectPCs, DisconnectPCs, RollbackPCs, ReindexPCs
<1>3. UtxoInv'
  <2>1. RecoveredTip' = tipFile /\ RecoveredUtxo' = UtxoAt[tipFile]
    BY <1>0, QuietState DEF RecoveredTip, RecoveredUtxo
  <2>2. 0 <= Height[tipFile] + 1
    BY TreeAssumption DEF TypeOK
  <2> QED
    BY <2>1, <2>2 DEF UtxoInv
<1>4. HeightInv'
  BY DEF HeightInv, RecoveredTip, ConnectPCs
<1>5. FilesInv'
  BY DEF FilesInv, RecoveredTip, ConnectPCs
<1> QED  BY <1>1, <1>2, <1>3, <1>4, <1>5

(* One block is replayed. *)
LEMMA StepReindexReplay ==
    ASSUME CrashInv, ReindexReplay
    PROVE  CrashInv'
<1> USE DEF ReindexReplay, goto, blockVars, indexVars, procVars, CrashInv
<1>0. pc \in {"idle"} \cup ReindexPCs
  BY DEF ReindexPCs
<1>p. heightIndex' = heightIndex /\ heightIndex[rh] \in ChainTo[RecoveredTip] /\ heightIndex[rh] \in Block
  <2>1. RecoveredTip = tipFile /\ tipFile \in Tips
    BY QuietState DEF TypeOK, ReindexPCs
  <2>2. rh \in 0 .. Height[RecoveredTip]
    BY <2>1 DEF TypeOK
  <2> QED
    BY <2>1, <2>2, NoGap
<1>1. TypeOK'
  BY <1>p, OutputsAssumption, TreeAssumption DEF TypeOK
<1>2. JournalInv'
  BY DEF JournalInv, ConnectPCs, RollbackPCs
<1>3. UtxoInv'
  <2> DEFINE b == heightIndex[rh]
  <2>1. RecoveredTip = tipFile /\ tipFile \in Block /\ journal = NoJournal
    BY <1>0, QuietState DEF JournalInv
  <2>2. rh \in Nat /\ rh \in 0 .. Height[tipFile] /\ Height[tipFile] \in Heights
    BY <2>1, BlockFacts DEF TypeOK
  <2>3. b \in Block /\ b \in ChainTo[tipFile] /\ Height[b] = rh
    BY <2>1, <2>2, NoGap DEF Tips
  <2>4. UtxoAt[b] = (UtxoAt[Parent[b]] \ Spends[b]) \cup Adds[b]
    BY <2>3, ReplayAssumption
  <2>5. /\ Height[Parent[b]] \in -1 .. MaxHeight /\ Parent[b] \in Tips
        /\ rh = Height[Parent[b]] + 1
        /\ Height[b] > 0 => Parent[b] \in Block
    BY <2>3, BlockFacts
  <2>6. utxo = UtxoAt[Parent[b]]
    <3> HIDE DEF b
    <3>1. CASE rh = 0
      <4>1. Height[Parent[b]] = -1
        BY <2>5, <3>1
      <4>2. Parent[b] = NoBlock
        BY <4>1, <2>5, BlockFacts DEF Tips
      <4> QED
        BY <3>1, <4>2, ReplayAssumption DEF UtxoInv
    <3>2. CASE rh # 0
      <4>1. Parent[b] \in Block /\ Height[Parent[b]] = rh - 1
        BY <2>5, <2>3, <3>2
      <4>2. Parent[b] \in ChainTo[tipFile]
        BY <2>1, <2>3, <4>1, ReplayAssumption, TreeAssumption
      <4>3. heightIndex[rh - 1] = Parent[b]
        BY <2>1, <4>1, <4>2 DEF HeightInv
      <4> QED
        BY <3>2, <4>3 DEF UtxoInv
    <3> QED
      BY <3>1, <3>2
  <2>7. utxo' = UtxoAt[heightIndex'[rh' - 1]] /\ rh' # 0 /\ rh' <= Height[tipFile] + 1
    <3>1. utxo' = UtxoAt[b]
      BY <1>p, <2>4, <2>6
    <3>2. rh' - 1 = rh /\ rh' # 0 /\ rh' <= Height[tipFile] + 1
      BY <2>2 DEF Heights
    <3> QED
      BY <1>p, <3>1, <3>2
  <2>8. RecoveredTip' = tipFile /\ RecoveredUtxo' = UtxoAt[tipFile]
    BY <2>1 DEF RecoveredTip, RecoveredUtxo
  <2> QED
    BY <2>7, <2>8 DEF UtxoInv
<1>4. HeightInv'
  BY <1>p DEF HeightInv, RecoveredTip
<1>5. FilesInv'
  BY DEF FilesInv, RecoveredTip
<1> QED  BY <1>1, <1>2, <1>3, <1>4, <1>5

(* The replay has reached the tip. *)
LEMMA StepReindexReplayDone ==
    ASSUME CrashInv, ReindexReplayDone
    PROVE  CrashInv'
<1> USE DEF ReindexReplayDone, goto, blockVars, indexVars, procVars, CrashInv
<1>0. pc \in {"idle"} \cup ReindexPCs
  BY DEF ReindexPCs
<1>1. TypeOK'
  BY TreeAssumption DEF TypeOK, PCs, ReindexPCs
<1>2. JournalInv'
  BY DEF JournalInv, ConnectPCs, DisconnectPCs, RollbackPCs, ReindexPCs
<1>3. UtxoInv'
  <2>1. RecoveredTip = tipFile /\ tipFile \in Block /\ journal = NoJournal
    BY <1>0, QuietState DEF JournalInv
  <2>2. tipFile \in ChainTo[tipFile] /\ Height[tipFile] \in Heights
    BY <2>1, BlockFacts
  <2>3. heightIndex[Height[tipFile]] = tipFile
    BY <2>1, <2>2 DEF HeightInv
  <2>4. rh - 1 = Height[tipFile] /\ rh # 0
    BY <2>2 DEF UtxoInv, TypeOK, Heights
  <2>5. utxo = UtxoAt[tipFile]
    BY <2>3, <2>4 DEF UtxoInv
  <2>6. RecoveredTip' = tipFile /\ RecoveredUtxo' = utxo
    BY <2>1 DEF RecoveredTip, RecoveredUtxo, NoJournal
  <2> QED
    BY <2>5, <2>6 DEF UtxoInv
<1>4. HeightInv'
  BY DEF HeightInv, RecoveredTip, ConnectPCs
<1>5. FilesInv'
  BY DEF FilesInv, RecoveredTip, ConnectPCs
<1> QED  BY <1>1, <1>2, <1>3, <1>4, <1>5

(* The process dies between two file operations; only the disk is left. *)
LEMMA StepCrash ==
    ASSUME CrashOnly, CrashInv, Crash
    PROVE  CrashInv'
<1> USE DEF Crash, blockVars, indexVars, procVars, CrashInv
<1>1. TypeOK'
  BY TreeAssumption DEF TypeOK, PCs
<1>2. JournalInv'
  BY DEF JournalInv, ConnectPCs, DisconnectPCs, RollbackPCs, ReindexPCs
<1>3. UtxoInv'
  <2>1. pc # "x_replay"
    BY DEF CrashOnly, ReindexPCs
  <2> QED
    BY <2>1 DEF UtxoInv, RecoveredTip, RecoveredUtxo
<1>4. HeightInv'
  BY DEF HeightInv, RecoveredTip, ConnectPCs
<1>5. FilesInv'
  BY DEF FilesInv, RecoveredTip, ConnectPCs
<1> QED  BY <1>1, <1>2, <1>3, <1>4, <1>5

(* A step that changes nothing. *)
LEMMA StepStutter == CrashInv /\ UNCHANGED vars => CrashInv'
<1> SUFFICES ASSUME CrashInv, UNCHANGED vars PROVE CrashInv'
  OBVIOUS
<1> USE DEF vars
<1>0. RecoveredTip' = RecoveredTip /\ RecoveredUtxo' = RecoveredUtxo
  BY DEF RecoveredTip, RecoveredUtxo
<1>1. TypeOK' /\ reader' = NoReader
  BY DEF CrashInv, TypeOK
<1>2. JournalInv'
  BY DEF CrashInv, JournalInv, Before
<1>3. UtxoInv'
  BY <1>0 DEF CrashInv, UtxoInv
<1>4. HeightInv'
  BY <1>0 DEF CrashInv, HeightInv
<1>5. FilesInv'
  BY <1>0 DEF CrashInv, FilesInv
<1> QED  BY <1>1, <1>2, <1>3, <1>4, <1>5 DEF CrashInv

(* Nobody else touches the store: with crashes as the only fault, the      *)
(* lock-free caller of LoadIndexByHeight and the failing file operation    *)
(* take no step.                                                           *)
LEMMA NoOtherActor ==
    ASSUME CrashOnly, CrashInv
    PROVE  /\ \A h \in Heights : ~ReaderMiss(h)
           /\ ~ReaderTip /\ ~ReaderRepair /\ ~IOError
<1>1. "reader" \notin Environment /\ "ioerror" \notin Environment
  BY DEF CrashOnly
<1>2. reader.step = "none"
  BY DEF CrashInv, NoReader
<1> QED  BY <1>1, <1>2 DEF ReaderMiss, ReaderTip, ReaderRepair, IOError

(* CrashInv is inductive: one case for each file operation. *)
LEMMA StepCrashInv ==
    ASSUME CrashOnly, CrashInv, [Next]_vars
    PROVE  CrashInv'
<1>1. CASE \E b \in Block : SaveBlockJournal(b)
  BY <1>1, StepSaveBlockJournal
<1>2. CASE DisconnectJournal
  BY <1>2, StepDisconnectJournal
<1>3. CASE ReindexBegin
  BY <1>3, StepReindexBegin
<1>4. CASE Advance
  BY <1>4, StepSaveBlockFile, StepSaveBlockHashIndex, StepSaveBlockHeightIndex,
     StepSaveBlockSpend, StepSaveBlockAdd, StepSaveBlockUndo,
     StepSaveBlockTxIndex, StepSaveBlockAddrSpend, StepSaveBlockAddrAdd, StepSaveBlockTip,
     StepDisconnectDel, StepDisconnectPut, StepDisconnectHeight, StepDisconnectTip,
     StepWipeTxIndex, StepWipeAddressIndex, StepIndexBlockAgain, StepIndexAgainDone,
     StepStartClean, StepStartCommitted, StepStartRollback, StepStartRedoDisconnect,
     StepRollbackDel, StepRollbackPut, StepRollbackFiles,
     StepReindexHeight, StepReindexHash, StepReindexWipeUtxo, StepReindexReplay,
     StepReindexReplayDone, StepClearJournal
  DEF Advance
<1>5. CASE Crash
  BY <1>5, StepCrash
<1>6. CASE UNCHANGED vars
  BY <1>6, StepStutter
<1> QED  BY <1>1, <1>2, <1>3, <1>4, <1>5, <1>6, NoOtherActor DEF Next

(* The inductive invariant holds in every reachable state, for every tree  *)
(* of blocks, with the optional indexes on or off, when the process can    *)
(* die between any two file operations of SaveBlock, DisconnectBlock and   *)
(* recoverJournal.                                                         *)
THEOREM CrashSafe ==
    ASSUME CrashOnly
    PROVE  Spec => []CrashInv
<1>1. Init => CrashInv
  BY InitCrashInv
<1>2. CrashInv /\ [Next]_vars => CrashInv'
  BY StepCrashInv
<1> QED  BY <1>1, <1>2, PTL DEF Spec

(* Every variable of the store keeps its type. *)
THEOREM TypeCorrect ==
    ASSUME CrashOnly
    PROVE  Spec => []TypeOK
<1>1. CrashInv => TypeOK
  BY DEF CrashInv
<1> QED  BY <1>1, CrashSafe, PTL

(* Between calls, Chain.tip is the tip on disk and the unspent set on disk *)
(* is exactly the replay of its chain, however often SaveBlock,            *)
(* DisconnectBlock and recovery were interrupted before.                   *)
THEOREM UtxoCorrect ==
    ASSUME CrashOnly
    PROVE  Spec => []UtxoMatchesTip
<1>1. CrashInv => UtxoMatchesTip
  BY QuietState DEF UtxoMatchesTip
<1> QED  BY <1>1, CrashSafe, PTL

(* Between calls, the height index is the active chain and nothing else. *)
THEOREM HeightIndexCorrect ==
    ASSUME CrashOnly
    PROVE  Spec => []HeightIndexExact
<1>1. CrashInv => HeightIndexExact
  <2> SUFFICES ASSUME CrashInv, pc = "idle", NEW h \in Heights, NEW b \in Block
               PROVE  heightIndex[h] = b <=> b \in ChainTo[memTip] /\ Height[b] = h
    BY DEF HeightIndexExact
  <2>1. RecoveredTip = memTip /\ journal = NoJournal
    BY QuietState
  <2> QED  BY <2>1 DEF CrashInv, HeightInv
<1> QED  BY <1>1, CrashSafe, PTL

(* While the node runs, every block of the active chain can be loaded and  *)
(* undone: rollbackConnect never deletes a file of an active block.        *)
THEOREM ActiveChainKept ==
    ASSUME CrashOnly
    PROVE  Spec => []ActiveChainReadable
<1>1. CrashInv => ActiveChainReadable
  BY DEF CrashInv, FilesInv, ActiveChainReadable, HasBlock
<1> QED  BY <1>1, CrashSafe, PTL
-----------------------------------------------------------------------------
(* The step at which SaveBlock takes effect. *)
LEMMA ConnectPoint ==
    ASSUME CrashInv, CrashInv', SaveBlockTip
    PROVE  \E b \in Block : Atomic!Connect(b)
<1>0. pc \in ConnectPCs \cup RollbackPCs
  BY DEF SaveBlockTip, goto, ConnectPCs
<1>1. /\ cur \in Block /\ RecoveredTip = Parent[cur]
      /\ RecoveredUtxo = UtxoAt[Parent[cur]]
  BY <1>0, ConnectState
<1>2. RecoveredTip' = cur
  BY <1>0, ConnectState DEF SaveBlockTip, RecoveredTip
<1>3. RecoveredUtxo' = (UtxoAt[Parent[cur]] \ Spends[cur]) \cup Adds[cur]
  BY <1>1, <1>2, ReplayAssumption DEF CrashInv, UtxoInv
<1>4. Spends[cur] \subseteq UtxoAt[Parent[cur]]
  BY <1>1, ReplayAssumption
<1> QED  BY <1>1, <1>2, <1>3, <1>4 DEF Atomic!Connect

(* The step at which DisconnectBlock takes effect: the journal is written. *)
LEMMA DisconnectPoint ==
    ASSUME CrashInv, CrashInv', DisconnectJournal
    PROVE  Atomic!Disconnect
<1>1. /\ RecoveredTip = memTip /\ memTip \in Block /\ Height[memTip] > 0
      /\ RecoveredUtxo = UtxoAt[memTip]
  BY QuietState DEF DisconnectJournal, goto, CrashInv, UtxoInv
<1>2. RecoveredTip' = Parent[memTip] /\ RecoveredUtxo' = UtxoAt[Parent[memTip]]
  BY DEF DisconnectJournal, RecoveredTip, CrashInv, UtxoInv
<1>3. UtxoAt[Parent[memTip]] = (UtxoAt[memTip] \ Adds[memTip]) \cup Spends[memTip]
  BY <1>1, UndoneUtxo DEF Undone
<1>4. Parent[memTip] \in Block
  BY <1>1, BlockFacts
<1> QED  BY <1>1, <1>2, <1>3, <1>4 DEF Atomic!Disconnect

(* Every other step leaves the recoverable tip where it is. *)
LEMMA SameTip ==
    ASSUME CrashOnly, CrashInv, [Next]_vars, ~SaveBlockTip, ~DisconnectJournal
    PROVE  RecoveredTip' = RecoveredTip
<1>1. CASE \E b \in Block : SaveBlockJournal(b)
  BY <1>1, QuietState DEF SaveBlockJournal, goto, RecoveredTip
<1>2. CASE ClearJournal
  <2>1. pc = "clear" /\ RecoveredTip' = tipFile
    BY <1>2 DEF ClearJournal, goto, RecoveredTip, NoJournal
  <2> QED  BY <2>1 DEF CrashInv, JournalInv, Before, RecoveredTip
<1>3. CASE DisconnectTip
  <2>1. pc \in DisconnectPCs /\ journal' = journal
    BY <1>3 DEF DisconnectTip, goto, DisconnectPCs
  <2> QED  BY <2>1, DisconnectState DEF RecoveredTip
<1>4. CASE UNCHANGED <<tipFile, journal>>
  BY <1>4 DEF RecoveredTip
<1>5. CASE Advance /\ ~ClearJournal /\ ~DisconnectTip
  <2>1. UNCHANGED <<tipFile, journal>>
    BY <1>5 DEF Advance, SaveBlockFile, SaveBlockHashIndex, SaveBlockHeightIndex,
       SaveBlockSpend, SaveBlockAdd, SaveBlockUndo, SaveBlockTxIndex,
       SaveBlockAddrSpend, SaveBlockAddrAdd, DisconnectDel, DisconnectPut,
       DisconnectHeight, WipeTxIndex, WipeAddressIndex, IndexBlockAgain, IndexAgainDone,
       StartClean, StartCommitted, StartRollback, StartRedoDisconnect,
       RollbackDel, RollbackPut, RollbackFiles, ReindexHeight, ReindexHash,
       ReindexWipeUtxo, ReindexReplay, ReindexReplayDone
  <2> QED  BY <2>1, <1>4
<1>6. CASE ReindexBegin \/ Crash \/ UNCHANGED vars
  <2>1. UNCHANGED <<tipFile, journal>>
    BY <1>6 DEF ReindexBegin, Crash, vars
  <2> QED  BY <2>1, <1>4
<1> QED  BY <1>1, <1>2, <1>3, <1>5, <1>6, NoOtherActor DEF Next

(* Seen through the tip and the unspent set that a restart would find,     *)
(* SaveBlock and DisconnectBlock happen in one step each, recovery and     *)
(* reindexing do nothing and crashes are invisible: FileStore implements   *)
(* ChainState.                                                             *)
THEOREM Refinement ==
    ASSUME CrashOnly
    PROVE  Spec => AtomicSpec
<1>1. Init => Atomic!Init
  BY DEF Init, Atomic!Init, RecoveredTip, RecoveredUtxo, NoJournal
<1>2. CrashInv /\ CrashInv' /\ [Next]_vars => [Atomic!Next]_(Atomic!chainVars)
  <2> SUFFICES ASSUME CrashInv, CrashInv', [Next]_vars
               PROVE  Atomic!Next \/ UNCHANGED Atomic!chainVars
    OBVIOUS
  <2>1. CASE SaveBlockTip
    BY <2>1, ConnectPoint DEF Atomic!Next
  <2>2. CASE DisconnectJournal
    BY <2>2, DisconnectPoint DEF Atomic!Next
  <2>3. CASE ~SaveBlockTip /\ ~DisconnectJournal
    <3>1. RecoveredTip' = RecoveredTip
      BY <2>3, SameTip
    <3>2. RecoveredUtxo' = RecoveredUtxo
      BY <3>1 DEF CrashInv, UtxoInv
    <3> QED  BY <3>1, <3>2 DEF Atomic!chainVars
  <2> QED  BY <2>1, <2>2, <2>3
<1> QED  BY <1>1, <1>2, CrashSafe, PTL DEF Spec, AtomicSpec, Atomic!Spec
-----------------------------------------------------------------------------
(* The transaction index: TxIndexInv is preserved on top of CrashInv. *)

(* Steps that write neither the index nor the journal, between the phases  *)
(* that EntriesProgress is about. *)
LEMMA EntriesKept ==
    ASSUME CrashInv, TxIndexEnabled, TxIndexInv, RecoveredTip' = RecoveredTip,
           UNCHANGED <<txIndex, journal>>,
           \A b \in Block : HasBlock(b)' =>
              \/ HasBlock(b) \/ b \in ChainTo[RecoveredTip]
              \/ journal # NoJournal /\ b = journal.block,
           pc \notin {"x_wipeaddr", "x_index"},
           pc' \notin {"clear", "d_wipeaddr", "x_wipeaddr", "d_index", "x_index", "c_addrspend",
                       "c_addradd", "c_tip", "v_hash", "v_height", "v_undo"}
    PROVE  TxIndexInv'
<1>1. \A t \in Tx : txIndex[t] # NoBlock => txIndex[t] \in Block
  BY DEF CrashInv, TypeOK, Tips
<1>2. EntriesHonest'
  BY <1>1 DEF TxIndexInv, EntriesHonest
<1>3. EntriesComplete'
  BY DEF TxIndexInv, EntriesComplete
<1>4. EntriesProgress'
  BY DEF EntriesProgress
<1> QED  BY <1>2, <1>3, <1>4 DEF TxIndexInv

(* SaveBlock until it reaches the index. *)
LEMMA EntriesSave ==
    ASSUME CrashInv, TxIndexEnabled, TxIndexInv, RecoveredTip' = RecoveredTip,
           \/ SaveBlockFile \/ SaveBlockHashIndex \/ SaveBlockHeightIndex
           \/ SaveBlockSpend \/ SaveBlockAdd \/ SaveBlockUndo
    PROVE  TxIndexInv'
<1>1. pc \in ConnectPCs \cup RollbackPCs
  BY DEF SaveBlockFile, SaveBlockHashIndex, SaveBlockHeightIndex, SaveBlockSpend,
         SaveBlockAdd, SaveBlockUndo, goto, ConnectPCs
<1>2. journal # NoJournal /\ journal.block = cur /\ journal.op = "connect"
  BY <1>1, ConnectState
<1>3. /\ UNCHANGED <<txIndex, journal>>
      /\ pc \in {"c_block", "c_hash", "c_height", "c_spend", "c_add", "c_undo"}
      /\ pc' \in {"c_hash", "c_height", "c_spend", "c_add", "c_undo", "c_txindex"}
      /\ blkFile' \subseteq blkFile \cup {cur} /\ hashIndex' \subseteq hashIndex \cup {cur}
  BY DEF SaveBlockFile, SaveBlockHashIndex, SaveBlockHeightIndex, SaveBlockSpend,
         SaveBlockAdd, SaveBlockUndo, goto, indexVars, blockVars
<1>4. \A b \in Block : HasBlock(b)' => HasBlock(b) \/ b = journal.block
  BY <1>2, <1>3 DEF HasBlock
<1> QED  BY <1>2, <1>3, <1>4, EntriesKept

(* Steps of a disconnection, a start and a reindex that leave the block files. *)
LEMMA EntriesElsewhere ==
    ASSUME CrashInv, TxIndexEnabled, TxIndexInv, RecoveredTip' = RecoveredTip,
           \/ DisconnectDel \/ DisconnectPut \/ DisconnectHeight \/ DisconnectTip
           \/ StartClean \/ StartRollback \/ StartRedoDisconnect
           \/ RollbackDel \/ RollbackPut
           \/ ReindexBegin \/ ReindexHeight \/ ReindexWipeUtxo \/ ReindexReplay
           \/ ReindexReplayDone
    PROVE  TxIndexInv'
<1>1. /\ UNCHANGED <<txIndex, journal, blkFile, hashIndex>>
      /\ pc \notin {"x_wipeaddr", "x_index"}
      /\ pc' \in {"idle", "d_del", "d_put", "d_height", "d_tip", "d_wipetx", "v_del", "v_put",
                  "v_block", "x_height", "x_hash", "x_replay", "x_wipetx"}
  BY DEF DisconnectDel, DisconnectPut, DisconnectHeight, DisconnectTip, StartClean,
         StartRollback, StartRedoDisconnect, RollbackDel, RollbackPut, ReindexBegin,
         ReindexHeight, ReindexWipeUtxo, ReindexReplay, ReindexReplayDone,
         goto, indexVars, blockVars
<1>2. \A b \in Block : HasBlock(b)' => HasBlock(b)
  BY <1>1 DEF HasBlock
<1> QED  BY <1>1, <1>2, EntriesKept

LEMMA EntriesReindexHash ==
    ASSUME CrashInv, TxIndexEnabled, TxIndexInv, RecoveredTip' = RecoveredTip, ReindexHash
    PROVE  TxIndexInv'
<1>1. /\ UNCHANGED <<txIndex, journal, blkFile>> /\ pc = "x_hash" /\ pc' = "x_wipe"
      /\ hashIndex' = hashIndex \cup {heightIndex[h] : h \in 0 .. Height[tipFile]}
  BY DEF ReindexHash, goto, indexVars
<1>2. RecoveredTip = tipFile /\ tipFile \in Tips
  BY <1>1, QuietState DEF ReindexPCs, CrashInv, TypeOK
<1>3. \A h \in 0 .. Height[tipFile] : heightIndex[h] \in ChainTo[RecoveredTip]
  BY <1>2, NoGap
<1>4. \A b \in Block : HasBlock(b)' => HasBlock(b) \/ b \in ChainTo[RecoveredTip]
  BY <1>1, <1>3 DEF HasBlock
<1> QED  BY <1>1, <1>4, EntriesKept

LEMMA EntriesCrash ==
    ASSUME CrashOnly, CrashInv, TxIndexEnabled, TxIndexInv, RecoveredTip' = RecoveredTip, Crash
    PROVE  TxIndexInv'
<1>1. /\ UNCHANGED <<txIndex, journal, blkFile, hashIndex>> /\ pc' = "down"
      /\ pc \notin ReindexPCs
  BY DEF CrashOnly, Crash, indexVars, blockVars
<1>2. \A b \in Block : HasBlock(b)' => HasBlock(b)
  BY <1>1 DEF HasBlock
<1> QED  BY <1>1, <1>2, EntriesKept DEF ReindexPCs

(* A journal is written: its block is the one entries may be about besides *)
(* the chain of RecoveredTip.                                              *)
LEMMA EntriesJournal ==
    ASSUME CrashInv, CrashInv', TxIndexEnabled, TxIndexInv,
           (\E b \in Block : SaveBlockJournal(b)) \/ DisconnectJournal
    PROVE  TxIndexInv'
<1>1. /\ pc = "idle" /\ pc' \in {"c_block", "d_del"}
      /\ UNCHANGED <<txIndex, blkFile, hashIndex, tipFile>>
  BY DEF SaveBlockJournal, DisconnectJournal, goto, indexVars, blockVars
<1>2. journal = NoJournal /\ RecoveredTip = tipFile /\ memTip = tipFile /\ tipFile \in Tips
  BY <1>1, QuietState DEF CrashInv, TypeOK
<1>3. \A b \in Block : HasBlock(b)' = HasBlock(b)
  BY <1>1 DEF HasBlock
<1>4. \A t \in Tx : txIndex[t] # NoBlock => txIndex[t] \in Block
  BY DEF CrashInv, TypeOK, Tips
<1>5. EntriesProgress'
  BY <1>1 DEF EntriesProgress
<1>6. CASE \E b \in Block : SaveBlockJournal(b)
  <2>1. RecoveredTip' = RecoveredTip /\ journal'.op = "connect"
    BY <1>2, <1>6 DEF SaveBlockJournal, RecoveredTip
  <2>2. EntriesHonest'
    BY <1>1, <1>2, <1>3, <1>4, <2>1 DEF TxIndexInv, EntriesHonest
  <2>3. EntriesComplete'
    BY <1>1, <1>2, <2>1 DEF TxIndexInv, EntriesComplete, NoJournal
  <2> QED  BY <1>5, <2>2, <2>3 DEF TxIndexInv
<1>7. CASE DisconnectJournal
  <2>1. /\ tipFile \in Block /\ RecoveredTip' = Parent[tipFile] /\ pc' = "d_del"
        /\ journal' = [op |-> "disconnect", block |-> tipFile]
    BY <1>2, <1>7 DEF DisconnectJournal, goto, RecoveredTip
  <2>2. ChainTo[tipFile] = ChainTo[Parent[tipFile]] \cup {tipFile} /\ journal' # NoJournal
    BY <2>1, BlockFacts DEF NoJournal
  <2>3. EntriesHonest'
    BY <1>1, <1>2, <1>3, <1>4, <2>1, <2>2 DEF TxIndexInv, EntriesHonest
  <2>4. EntriesComplete'
    BY <2>1 DEF EntriesComplete
  <2> QED  BY <1>5, <2>3, <2>4 DEF TxIndexInv
<1> QED  BY <1>6, <1>7

(* indexBlockTransactions and what follows it in SaveBlock: an entry of    *)
(* the new block replaces none of the chain below it.                      *)
LEMMA EntriesIndexed ==
    ASSUME NoTxTwice, CrashInv, TxIndexEnabled, TxIndexInv, RecoveredTip' = RecoveredTip,
           SaveBlockTxIndex \/ SaveBlockAddrSpend \/ SaveBlockAddrAdd
    PROVE  TxIndexInv'
<1>1. /\ pc \in {"c_txindex", "c_addrspend", "c_addradd"}
      /\ pc' \in {"c_txindex", "c_addrspend", "c_addradd", "c_tip"}
      /\ UNCHANGED <<journal, blkFile, hashIndex, cur>>
      /\ pc \in {"c_addrspend", "c_addradd"} \/ pc' # "c_txindex" => txIndex' = txIndex
      /\ pc = "c_txindex" /\ pc' # "c_txindex" => \A t \in TxsOf[cur] : txIndex[t] = cur
      /\ pc \in {"c_addrspend", "c_addradd"} => pc' # "c_txindex"
  BY DEF SaveBlockTxIndex, SaveBlockAddrSpend, SaveBlockAddrAdd, blockVars, procVars
<1>2. /\ cur \in Block /\ journal # NoJournal /\ journal.block = cur /\ journal.op = "connect"
      /\ RecoveredTip = Parent[cur]
  BY <1>1, ConnectState DEF ConnectPCs
<1>3. \A b \in Block : HasBlock(b)' = HasBlock(b)
  BY <1>1 DEF HasBlock
<1>4. /\ \A t \in Tx : txIndex[t] # NoBlock => txIndex[t] \in Block
      /\ TxsOf[cur] \subseteq Tx /\ txIndex \in [Tx -> Tips]
  BY <1>2, OutputsAssumption DEF CrashInv, TypeOK, Tips
<1>5. \/ txIndex' = txIndex
      \/ /\ pc' = "c_txindex" /\ pc = "c_txindex"
         /\ \E t \in TxsOf[cur] : txIndex' = [txIndex EXCEPT ![t] = cur]
  BY <1>1 DEF SaveBlockTxIndex, SaveBlockAddrSpend, SaveBlockAddrAdd
<1>6. EntriesHonest'
  <2>1. CASE txIndex' = txIndex
    BY <1>1, <1>2, <1>3, <1>4, <2>1 DEF TxIndexInv, EntriesHonest
  <2>2. CASE \E t \in TxsOf[cur] : txIndex' = [txIndex EXCEPT ![t] = cur]
    BY <1>1, <1>2, <1>3, <1>4, <2>2 DEF TxIndexInv, EntriesHonest
  <2> QED  BY <1>5, <2>1, <2>2
<1>7. EntriesComplete'
  <2>1. \A b \in ChainTo[RecoveredTip] : \A t \in TxsOf[b] : txIndex[t] = b
    BY <1>1, <1>2 DEF TxIndexInv, EntriesComplete
  <2>2. \A b \in ChainTo[RecoveredTip] : TxsOf[b] \cap TxsOf[cur] = {}
    BY <1>2, BlockFacts DEF NoTxTwice, Tips
  <2>3. \A b \in ChainTo[RecoveredTip] : TxsOf[b] \subseteq Tx
    BY <1>2, BlockFacts, ReplayAssumption, OutputsAssumption
  <2>4. \A b \in ChainTo[RecoveredTip] : \A t \in TxsOf[b] : txIndex'[t] = b
    BY <1>4, <1>5, <2>1, <2>2, <2>3
  <2> QED  BY <2>4 DEF EntriesComplete
<1>8. EntriesProgress'
  BY <1>1 DEF TxIndexInv, EntriesProgress
<1> QED  BY <1>6, <1>7, <1>8 DEF TxIndexInv

(* The new tip is written: its entries are all there. *)
LEMMA EntriesTip ==
    ASSUME CrashInv, TxIndexEnabled, TxIndexInv, SaveBlockTip
    PROVE  TxIndexInv'
<1>1. /\ pc = "c_tip" /\ pc' = "clear" /\ tipFile' = cur
      /\ UNCHANGED <<txIndex, journal, blkFile, hashIndex>>
  BY DEF SaveBlockTip, goto, indexVars, blockVars
<1>2. /\ cur \in Block /\ journal # NoJournal /\ journal.block = cur /\ journal.op = "connect"
      /\ RecoveredTip = Parent[cur]
  BY <1>1, ConnectState DEF ConnectPCs
<1>3. RecoveredTip' = cur /\ ChainTo[cur] = ChainTo[RecoveredTip] \cup {cur}
  BY <1>1, <1>2, BlockFacts DEF RecoveredTip
<1>4. \A b \in Block : HasBlock(b)' = HasBlock(b)
  BY <1>1 DEF HasBlock
<1>5. \A t \in Tx : txIndex[t] # NoBlock => txIndex[t] \in Block
  BY DEF CrashInv, TypeOK, Tips
<1>6. EntriesHonest'
  BY <1>1, <1>2, <1>3, <1>4, <1>5 DEF TxIndexInv, EntriesHonest
<1>7. EntriesComplete'
  BY <1>1, <1>2, <1>3 DEF TxIndexInv, EntriesComplete, EntriesProgress
<1>8. EntriesProgress'
  BY <1>1 DEF EntriesProgress
<1> QED  BY <1>6, <1>7, <1>8 DEF TxIndexInv

(* The journal goes. *)
LEMMA EntriesClear ==
    ASSUME CrashInv, TxIndexEnabled, TxIndexInv, RecoveredTip' = RecoveredTip, ClearJournal
    PROVE  TxIndexInv'
<1>1. /\ pc = "clear" /\ pc' = "idle" /\ UNCHANGED <<txIndex, blkFile, hashIndex>>
  BY DEF ClearJournal, goto, indexVars, blockVars
<1>2. \A b \in Block : HasBlock(b)' = HasBlock(b)
  BY <1>1 DEF HasBlock
<1>3. \A t \in Tx : txIndex[t] # NoBlock => txIndex[t] \in Block
  BY DEF CrashInv, TypeOK, Tips
<1> QED  BY <1>1, <1>2, <1>3 DEF TxIndexInv, EntriesHonest, EntriesComplete, EntriesProgress

(* The index is emptied. *)
LEMMA EntriesWiped ==
    ASSUME CrashInv, TxIndexEnabled, TxIndexInv, RecoveredTip' = RecoveredTip,
           WipeTxIndex \/ WipeAddressIndex
    PROVE  TxIndexInv'
<1>1. /\ pc \in {"d_wipetx", "x_wipetx", "d_wipeaddr", "x_wipeaddr"}
      /\ pc' \in {"d_wipeaddr", "x_wipeaddr", "d_index", "x_index"}
      /\ pc \in {"d_wipetx", "d_wipeaddr"} => pc' \in {"d_wipeaddr", "d_index"}
      /\ pc \in {"x_wipetx", "x_wipeaddr"} => pc' \in {"x_wipeaddr", "x_index"}
      /\ rh' = 0 /\ UNCHANGED <<journal, tipFile>>
      /\ \A t \in Tx : txIndex'[t] = NoBlock
  BY DEF WipeTxIndex, WipeAddressIndex, goto, TxIndexInv, EntriesProgress
<1>2. pc \in {"d_wipetx", "d_wipeaddr"} => journal.op = "disconnect"
  BY DisconnectState DEF DisconnectPCs
<1>3. \A b \in ChainTo[tipFile] : ~(Height[b] < 0)
  BY ReplayAssumption, BlockFacts DEF CrashInv, TypeOK, Heights
<1>4. EntriesProgress'
  BY <1>1, <1>3 DEF EntriesProgress
<1>5. EntriesHonest' /\ EntriesComplete'
  BY <1>1, <1>2 DEF EntriesHonest, EntriesComplete
<1> QED  BY <1>4, <1>5 DEF TxIndexInv

(* One more block of the chain is indexed again. *)
LEMMA EntriesAgain ==
    ASSUME NoTxTwice, CrashInv, TxIndexEnabled, TxIndexInv, RecoveredTip' = RecoveredTip,
           IndexBlockAgain
    PROVE  TxIndexInv'
<1> DEFINE b == heightIndex[rh]
<1>1. /\ pc \in {"d_index", "x_index"} /\ rh <= Height[tipFile] /\ rh' = rh + 1
      /\ heightIndex' = Repaired(rh)
      /\ UNCHANGED <<pc, tipFile, journal, cur, blkFile, hashIndex>>
  BY DEF IndexBlockAgain, blockVars, procVars
<1>2. /\ RecoveredTip = tipFile /\ tipFile \in Tips /\ rh \in Nat
      /\ pc = "d_index" => journal.op = "disconnect"
  BY <1>1, QuietState, DisconnectState DEF CrashInv, TypeOK, JournalInv, Before, ReindexPCs, DisconnectPCs
<1>3. rh \in 0 .. Height[RecoveredTip]
  BY <1>1, <1>2, TreeAssumption
<1>4. /\ b \in ChainTo[tipFile] /\ b \in Block /\ Height[b] = rh /\ heightIndex' = heightIndex
  BY <1>1, <1>2, <1>3, NoGap
<1>5. txIndex' = [t \in Tx |-> IF t \in TxsOf[b] THEN b ELSE txIndex[t]]
  BY <1>4 DEF IndexBlockAgain
<1> HIDE DEF b
<1>6. \A c \in ChainTo[tipFile] :
        /\ c \in Block /\ Height[c] \in Nat /\ TxsOf[c] \subseteq Tx
        /\ Height[c] = rh => c = b
        /\ TxsOf[c] \cap TxsOf[b] # {} => c = b
  <2>1. \A c \in ChainTo[tipFile] : c \in Block
    BY <1>2, ReplayAssumption
  <2>2. \A c \in ChainTo[tipFile] : Height[c] \in Nat /\ TxsOf[c] \subseteq Tx
    BY <2>1, BlockFacts, OutputsAssumption DEF Heights
  <2>3. \A c \in ChainTo[tipFile] : Height[c] = rh => c = b
    BY <1>2 DEF CrashInv, HeightInv, b
  <2> QED  BY <1>2, <1>4, <2>1, <2>2, <2>3 DEF NoTxTwice
<1>7. \A t \in Tx : txIndex'[t] # NoBlock =>
         txIndex'[t] \in ChainTo[tipFile] /\ t \in TxsOf[txIndex'[t]]
  BY <1>1, <1>4, <1>5 DEF TxIndexInv, EntriesHonest, EntriesProgress
<1>8. EntriesProgress'
  <2>1. ASSUME NEW c \in ChainTo[tipFile], Height[c] < rh + 1, NEW t \in TxsOf[c]
        PROVE  txIndex'[t] = c
    <3>1. CASE c = b
      BY <1>5, <1>6, <2>1, <3>1
    <3>2. CASE c # b
      <4>1. Height[c] < rh /\ t \in Tx /\ t \notin TxsOf[b]
        BY <1>2, <1>6, <2>1, <3>2
      <4> QED  BY <1>1, <1>5, <4>1 DEF TxIndexInv, EntriesProgress
    <3> QED  BY <3>1, <3>2
  <2> QED  BY <1>1, <1>7, <2>1 DEF EntriesProgress
<1>9. EntriesHonest' /\ EntriesComplete'
  BY <1>1, <1>2, <1>7 DEF EntriesHonest, EntriesComplete
<1> QED  BY <1>8, <1>9 DEF TxIndexInv

(* The rebuild ends: the whole chain is indexed, and nothing else. *)
LEMMA EntriesRebuilt ==
    ASSUME CrashInv, TxIndexEnabled, TxIndexInv, RecoveredTip' = RecoveredTip, IndexAgainDone
    PROVE  TxIndexInv'
<1>1. /\ pc \in {"d_index", "x_index"} /\ pc' \in {"clear", "idle"} /\ rh > Height[tipFile]
      /\ UNCHANGED <<txIndex, journal, tipFile>>
  BY DEF IndexAgainDone, goto, indexVars
<1>2. RecoveredTip = tipFile /\ tipFile \in Tips /\ rh \in Nat
  BY <1>1, QuietState, DisconnectState DEF CrashInv, TypeOK, JournalInv, Before, ReindexPCs, DisconnectPCs
<1>3. \A b \in ChainTo[tipFile] : Height[b] < rh
  <2>1. \A b \in ChainTo[tipFile] : b \in Block /\ Height[b] <= Height[tipFile]
    BY <1>2, ReplayAssumption
  <2>2. \A b \in ChainTo[tipFile] : Height[b] \in Nat
    BY <2>1, BlockFacts DEF Heights
  <2>3. Height[tipFile] \in Int
    BY <1>2, TreeAssumption
  <2> QED  BY <1>1, <1>2, <2>1, <2>2, <2>3
<1>4. \A b \in ChainTo[tipFile] : \A t \in TxsOf[b] : txIndex[t] = b
  BY <1>1, <1>3 DEF TxIndexInv, EntriesProgress
<1>5. \A t \in Tx : txIndex[t] # NoBlock => txIndex[t] \in ChainTo[tipFile] /\ t \in TxsOf[txIndex[t]]
  BY <1>1 DEF TxIndexInv, EntriesProgress, EntriesHonest
<1>6. EntriesHonest' /\ EntriesComplete'
  BY <1>1, <1>2, <1>4, <1>5 DEF EntriesHonest, EntriesComplete
<1>7. EntriesProgress'
  BY <1>1 DEF EntriesProgress
<1> QED  BY <1>6, <1>7 DEF TxIndexInv

(* Recovery of a block that was committed: it is the tip. *)
LEMMA EntriesCommitted ==
    ASSUME CrashInv, TxIndexEnabled, TxIndexInv, RecoveredTip' = RecoveredTip, StartCommitted
    PROVE  TxIndexInv'
<1>1. /\ pc = "down" /\ pc' = "clear" /\ journal.op = "connect" /\ tipFile = journal.block
      /\ UNCHANGED <<txIndex, journal, blkFile, hashIndex>>
  BY DEF StartCommitted, goto, indexVars, blockVars
<1>2. RecoveredTip = journal.block /\ journal.block \in ChainTo[journal.block]
  <2>1. journal.block \in Block
    BY <1>1 DEF CrashInv, TypeOK, Journals, NoJournal
  <2> QED  BY <1>1, <2>1, BlockFacts DEF RecoveredTip
<1>3. \A b \in Block : HasBlock(b)' = HasBlock(b)
  BY <1>1 DEF HasBlock
<1>4. \A t \in Tx : txIndex[t] # NoBlock => txIndex[t] \in Block
  BY DEF CrashInv, TypeOK, Tips
<1> QED  BY <1>1, <1>2, <1>3, <1>4 DEF TxIndexInv, EntriesHonest, EntriesComplete, EntriesProgress

(* Recovery of a block that was not: its file goes, so that the entries it *)
(* leaves behind lead nowhere.                                             *)
LEMMA EntriesRolledBack ==
    ASSUME CrashInv, TxIndexEnabled, TxIndexInv, RecoveredTip' = RecoveredTip, RollbackFiles
    PROVE  TxIndexInv'
<1>1. /\ pc \in {"v_block", "v_hash", "v_height", "v_undo"}
      /\ pc' \in {"v_hash", "v_height", "v_undo", "clear"}
      /\ pc' = "clear" => pc = "v_undo"
      /\ UNCHANGED <<txIndex, journal, cur>>
      /\ blkFile' \subseteq blkFile /\ hashIndex' \subseteq hashIndex
      /\ pc = "v_block" => cur \notin blkFile'
  BY DEF RollbackFiles, goto, indexVars, blockVars, procVars
<1>2. journal # NoJournal /\ journal.block = cur /\ journal.op = "connect"
  BY <1>1, ConnectState DEF RollbackPCs
<1>3. \A b \in Block : HasBlock(b)' => HasBlock(b)
  BY <1>1 DEF HasBlock
<1>4. \A t \in Tx : txIndex[t] # NoBlock => txIndex[t] \in Block
  BY DEF CrashInv, TypeOK, Tips
<1>5. cur \notin blkFile'
  BY <1>1 DEF TxIndexInv, EntriesProgress
<1>6. EntriesHonest'
  BY <1>1, <1>2, <1>3, <1>4, <1>5 DEF TxIndexInv, EntriesHonest, HasBlock
<1>7. EntriesComplete'
  BY <1>1, <1>2 DEF TxIndexInv, EntriesComplete
<1>8. EntriesProgress'
  BY <1>1, <1>5 DEF EntriesProgress
<1> QED  BY <1>6, <1>7, <1>8 DEF TxIndexInv

(* TxIndexInv is inductive on top of CrashInv. *)
LEMMA StepTxIndexInv ==
    ASSUME CrashOnly, NoTxTwice, CrashInv, CrashInv', TxIndexInv, [Next]_vars
    PROVE  TxIndexInv'
<1>1. CASE ~TxIndexEnabled
  BY <1>1 DEF TxIndexInv
<1>2. CASE TxIndexEnabled
  <2>1. CASE SaveBlockTip
    BY <1>2, <2>1, EntriesTip
  <2>2. CASE (\E b \in Block : SaveBlockJournal(b)) \/ DisconnectJournal
    BY <1>2, <2>2, EntriesJournal
  <2>3. CASE UNCHANGED vars
    BY <2>3 DEF vars, TxIndexInv, EntriesHonest, EntriesComplete, EntriesProgress, HasBlock,
                RecoveredTip
  <2>4. CASE ~SaveBlockTip /\ ~DisconnectJournal
    <3>1. RecoveredTip' = RecoveredTip
      BY <2>4, SameTip
    <3> QED
      BY <1>2, <2>2, <2>3, <2>4, <3>1, EntriesSave, EntriesElsewhere, EntriesReindexHash,
         EntriesCrash, EntriesIndexed, EntriesClear, EntriesWiped, EntriesAgain,
         EntriesRebuilt, EntriesCommitted, EntriesRolledBack, NoOtherActor DEF Next, Advance
  <2> QED  BY <2>1, <2>2, <2>3, <2>4
<1> QED  BY <1>1, <1>2

(* Between calls a transaction is looked up exactly if it is in a block of *)
(* the active chain, and in that block, although a rollback leaves entries *)
(* behind and a disconnection wipes and rebuilds the index; provided no    *)
(* chain has one transaction in two blocks.                                *)
THEOREM TxLookupCorrect ==
    ASSUME CrashOnly, NoTxTwice
    PROVE  Spec => []TxLookupExact
<1>1. Init => TxIndexInv
  BY ReplayAssumption DEF Init, TxIndexInv, EntriesHonest, EntriesComplete, EntriesProgress,
     RecoveredTip, NoJournal
<1>2. CrashInv /\ CrashInv' /\ TxIndexInv /\ [Next]_vars => TxIndexInv'
  BY StepTxIndexInv
<1>3. CrashInv /\ TxIndexInv => TxLookupExact
  <2> SUFFICES ASSUME CrashInv, TxIndexInv, pc = "idle", TxIndexEnabled,
                      NEW t \in Tx, NEW b \in Block
               PROVE  (txIndex[t] = b /\ HasBlock(b)) <=> (b \in ChainTo[memTip] /\ t \in TxsOf[b])
    BY DEF TxLookupExact
  <2>1. RecoveredTip = memTip /\ journal = NoJournal /\ b # NoBlock
    BY QuietState, TreeAssumption
  <2>2. b \in ChainTo[memTip] => HasBlock(b)
    BY <2>1 DEF CrashInv, FilesInv, HasBlock
  <2> QED  BY <2>1, <2>2 DEF TxIndexInv, EntriesHonest, EntriesComplete, NoJournal
<1> QED  BY <1>1, <1>2, <1>3, CrashSafe, PTL DEF Spec
-----------------------------------------------------------------------------
(* A reindex under all faults together: crashes anywhere, failed file       *)
(* operations, and a reader that writes to the height index without the     *)
(* lock.  Nothing is known here of what they left on disk.                  *)

(* The types that a replay needs, and the blocks a reader walks over. *)
DiskTyped ==
    /\ heightIndex \in [Heights -> Tips] /\ tipFile \in Tips /\ cur \in Tips /\ journal \in Journals
    /\ memTip \in Tips /\ rh \in Nat
    /\ pc \in {"d_del", "d_put", "d_height", "d_tip"} => cur \in Block
    /\ reader.step = "walk" => reader.at \in Block /\ reader.low <= Height[reader.at]
    /\ reader \in Readers

(* The chain of the tip file, whose blocks the height index shall list. *)
Wrong(b) == heightIndex[Height[b]] # b

(* Nobody writes to b's place again before the replay has ended. *)
PassedBy(b) ==
    /\ reader.step = "walk" => Height[reader.at] < Height[b]
    /\ reader.step = "miss" => reader.low > Height[tipFile]

(* Once the height index is rewritten, a place where it is wrong stays      *)
(* wrong: the reader went by on the way down an older chain.                *)
ListingInv ==
    pc \in {"x_hash", "x_wipe", "x_replay"} =>
        /\ \A h \in 0 .. Height[tipFile] : heightIndex[h] \in Block
        /\ \A b \in ChainTo[tipFile] : Wrong(b) => PassedBy(b)

(* b is the last block replayed, NoBlock at the beginning. *)
ReplayedTo(b) == b \in ChainTo[tipFile] \cup {NoBlock} /\ Height[b] = rh - 1 /\ utxo = UtxoAt[b]

ReplayInv ==
    /\ DiskTyped
    /\ pc \in ReindexPCs => tipFile \in Block
    /\ ListingInv
    /\ pc = "x_replay" => /\ rh <= Height[tipFile] + 1
                          /\ (\E b \in ChainTo[tipFile] : Wrong(b)) \/ (\E b \in Tips : ReplayedTo(b))

LEMMA RepairedType ==
    ASSUME heightIndex \in [Heights -> Tips], tipFile \in Tips, NEW h \in Nat
    PROVE  /\ Repaired(h) \in [Heights -> Tips]
           /\ heightIndex[h] \in Block => Repaired(h) = heightIndex
<1>1. ASSUME NEW k \in Heights, k \in h .. Height[tipFile]
      PROVE  (CHOOSE b \in ChainTo[tipFile] : Height[b] = k) \in Tips
  <2>1. Height[tipFile] \in -1 .. MaxHeight /\ ChainTo[tipFile] \subseteq Block
    BY TreeAssumption, ReplayAssumption
  <2>2. k \in 0 .. Height[tipFile]
    BY <1>1, <2>1, TreeAssumption DEF Heights
  <2>3. \E b \in ChainTo[tipFile] : Height[b] = k
    BY <2>2, ReplayAssumption
  <2> QED  BY <2>1, <2>3 DEF Tips
<1>2. [k \in Heights |-> IF k \in h .. Height[tipFile]
                         THEN CHOOSE b \in ChainTo[tipFile] : Height[b] = k ELSE heightIndex[k]]
        \in [Heights -> Tips]
  BY <1>1
<1> QED  BY <1>2 DEF Repaired

(* A reader's walk goes down one block at a time and stops at its height. *)
LEMMA PassOn ==
    ASSUME DiskTyped, reader.step = "walk", Height[reader.at] # reader.low
    PROVE  /\ reader.at \in Block /\ Parent[reader.at] \in Block
           /\ Height[Parent[reader.at]] = Height[reader.at] - 1
           /\ reader.low <= Height[Parent[reader.at]]
<1>1. reader.at \in Block /\ reader.low <= Height[reader.at] /\ reader.low \in Nat
  BY DEF DiskTyped, Readers, Heights
<1>2. /\ Height[reader.at] \in Nat /\ Height[Parent[reader.at]] \in Int
      /\ Height[reader.at] = Height[Parent[reader.at]] + 1
      /\ Height[reader.at] > 0 => Parent[reader.at] \in Block
  BY <1>1, BlockFacts DEF Heights
<1> QED  BY <1>1, <1>2

LEMMA StepDiskTyped == ASSUME ReplayInv, [Next]_vars PROVE DiskTyped'
<1>1. /\ heightIndex \in [Heights -> Tips] /\ tipFile \in Tips /\ cur \in Tips /\ journal \in Journals
      /\ memTip \in Tips /\ rh \in Nat
      /\ pc \in {"d_del", "d_put", "d_height", "d_tip"} => cur \in Block
      /\ reader.step = "walk" => reader.at \in Block /\ reader.low <= Height[reader.at]
      /\ reader \in Readers /\ reader.low \in Heights
  BY DEF ReplayInv, DiskTyped, Readers
<1>2. Block \subseteq Tips /\ NoBlock \in Tips /\ NoJournal \in Journals /\ 0 \in Heights
  BY TreeAssumption DEF Tips, Journals, Heights
<1>3. \A b \in Block : Parent[b] \in Tips /\ [op |-> "connect", block |-> b] \in Journals
                       /\ [op |-> "disconnect", block |-> b] \in Journals
  BY BlockFacts DEF Journals
<1>4. journal.op = "disconnect" => journal.block \in Block
  BY <1>1 DEF Journals, NoJournal
<1>5. journal.op = "connect" => journal.block \in Block
  BY <1>1 DEF Journals, NoJournal
<1>6. heightIndex' \in [Heights -> Tips]
  <2>1. CASE DisconnectJournal
    <3>1. Height[memTip] - 1 \in Nat
      <4>1. memTip \in Block /\ Height[memTip] > 0
        BY <2>1 DEF DisconnectJournal
      <4> QED  BY <4>1, BlockFacts DEF Heights
    <3> QED  BY <1>1, <2>1, <3>1, RepairedType DEF DisconnectJournal
  <2>2. CASE ReindexReplay \/ IndexBlockAgain
    BY <1>1, <2>2, RepairedType DEF ReindexReplay, IndexBlockAgain
  <2>3. CASE ReindexHeight
    <3>1. ChainTo[tipFile] \subseteq Block
      BY <1>1, ReplayAssumption
    <3> QED  BY <1>1, <1>2, <2>3, <3>1 DEF ReindexHeight
  <2>4. CASE ~(DisconnectJournal \/ ReindexReplay \/ IndexBlockAgain \/ ReindexHeight)
    BY <1>1, <1>2, <2>4 DEF Next, Advance, vars, blockVars, indexVars, procVars, SaveBlockJournal,
         SaveBlockFile, SaveBlockHashIndex, SaveBlockHeightIndex, SaveBlockSpend, SaveBlockAdd,
         SaveBlockUndo, SaveBlockTxIndex, SaveBlockAddrSpend, SaveBlockAddrAdd, SaveBlockTip,
         DisconnectDel, DisconnectPut, DisconnectHeight, DisconnectTip, WipeTxIndex,
         WipeAddressIndex, IndexAgainDone, StartClean, StartCommitted, StartRollback,
         StartRedoDisconnect, RollbackDel, RollbackPut, RollbackFiles, ReindexBegin, ReindexHash,
         ReindexWipeUtxo, ReindexReplayDone, ClearJournal, ReaderMiss, ReaderTip, ReaderRepair,
         Crash, IOError
  <2> QED  BY <2>1, <2>2, <2>3, <2>4
<1>7. /\ tipFile' \in Tips /\ cur' \in Tips /\ journal' \in Journals /\ memTip' \in Tips /\ rh' \in Nat
      /\ pc' \in {"d_del", "d_put", "d_height", "d_tip"} => cur' \in Block
  <2>1. CASE UNCHANGED vars \/ (\E h \in Heights : ReaderMiss(h)) \/ ReaderTip \/ ReaderRepair
    BY <1>1, <2>1 DEF vars, procVars, ReaderMiss, ReaderTip, ReaderRepair
  <2>2. CASE (\E b \in Block : SaveBlockJournal(b)) \/ DisconnectJournal \/ ReindexBegin \/ Crash \/ IOError
    <3>1. CASE \E b \in Block : SaveBlockJournal(b)
      BY <1>1, <1>2, <1>3, <3>1 DEF goto, SaveBlockJournal
    <3>2. CASE DisconnectJournal
      BY <1>1, <1>2, <1>3, <3>2 DEF goto, DisconnectJournal
    <3>3. CASE ReindexBegin \/ Crash \/ IOError
      BY <1>1, <1>2, <3>3 DEF procVars, goto, ReindexBegin, Crash, IOError
    <3> QED  BY <2>2, <3>1, <3>2, <3>3
  <2>3. CASE \/ SaveBlockFile \/ SaveBlockHashIndex \/ SaveBlockHeightIndex
             \/ SaveBlockSpend \/ SaveBlockAdd \/ SaveBlockUndo
             \/ SaveBlockTxIndex \/ SaveBlockAddrSpend \/ SaveBlockAddrAdd \/ SaveBlockTip
    BY <1>1, <2>3 DEF procVars, goto, SaveBlockFile, SaveBlockHashIndex, SaveBlockHeightIndex,
       SaveBlockSpend, SaveBlockAdd, SaveBlockUndo, SaveBlockTxIndex, SaveBlockAddrSpend,
       SaveBlockAddrAdd, SaveBlockTip
  <2>4. CASE \/ DisconnectDel \/ DisconnectPut \/ DisconnectHeight \/ DisconnectTip
             \/ WipeTxIndex \/ WipeAddressIndex \/ IndexBlockAgain \/ IndexAgainDone
    <3>1. CASE DisconnectDel \/ DisconnectPut \/ DisconnectHeight
      BY <1>1, <3>1 DEF procVars, goto, DisconnectDel, DisconnectPut, DisconnectHeight
    <3>2. CASE DisconnectTip
      <4>1. pc = "d_tip" /\ cur \in Block
        BY <1>1, <3>2 DEF DisconnectTip, goto
      <4> QED  BY <1>1, <1>3, <3>2, <4>1 DEF procVars, goto, DisconnectTip
    <3>3. CASE WipeTxIndex \/ WipeAddressIndex
      BY <1>1, <3>3 DEF procVars, goto, WipeTxIndex, WipeAddressIndex
    <3>4. CASE IndexBlockAgain \/ IndexAgainDone
      BY <1>1, <3>4 DEF procVars, goto, IndexBlockAgain, IndexAgainDone
    <3> QED  BY <2>4, <3>1, <3>2, <3>3, <3>4
  <2>5. CASE \/ StartClean \/ StartCommitted \/ StartRollback \/ StartRedoDisconnect
             \/ RollbackDel \/ RollbackPut \/ RollbackFiles \/ ClearJournal
    BY <1>1, <1>2, <1>4, <1>5, <2>5 DEF procVars, goto, StartClean, StartCommitted, StartRollback,
       StartRedoDisconnect, RollbackDel, RollbackPut, RollbackFiles, ClearJournal
  <2>6. CASE ReindexHeight \/ ReindexHash \/ ReindexWipeUtxo \/ ReindexReplay \/ ReindexReplayDone
    BY <1>1, <2>6 DEF procVars, goto, ReindexHeight, ReindexHash, ReindexWipeUtxo, ReindexReplay,
       ReindexReplayDone
  <2> QED  BY <2>1, <2>2, <2>3, <2>4, <2>5, <2>6 DEF Next, Advance
<1>8. reader' \in Readers /\ (reader'.step = "walk" => reader'.at \in Block /\ reader'.low <= Height[reader'.at])
  <2>1. CASE UNCHANGED reader
    BY <1>1, <2>1
  <2>2. CASE reader' = NoReader
    BY <1>2, <2>2 DEF NoReader, Readers
  <2>3. CASE \E h \in Heights : ReaderMiss(h)
    BY <1>2, <2>3 DEF ReaderMiss, Readers
  <2>4. ASSUME ReaderTip, reader' # NoReader
        PROVE  /\ reader' \in Readers
               /\ reader'.step = "walk" => reader'.at \in Block /\ reader'.low <= Height[reader'.at]
    <3>1. /\ reader' = [reader EXCEPT !.step = "walk", !.at = tipFile]
          /\ tipFile \in Block /\ reader.low <= Height[tipFile]
      BY <2>4 DEF ReaderTip
    <3> QED  BY <1>1, <3>1 DEF Readers
  <2>5. ASSUME ReaderRepair, reader' # NoReader
        PROVE  /\ reader' \in Readers
               /\ reader'.step = "walk" => reader'.at \in Block /\ reader'.low <= Height[reader'.at]
    <3>1. reader.step = "walk" /\ Height[reader.at] # reader.low
          /\ reader' = [reader EXCEPT !.at = Parent[reader.at]]
      BY <2>5 DEF ReaderRepair
    <3>2. DiskTyped
      BY DEF ReplayInv
    <3>3. Parent[reader.at] \in Block /\ reader.low <= Height[Parent[reader.at]]
      BY <3>1, <3>2, PassOn
    <3> QED  BY <1>1, <1>2, <3>1, <3>3 DEF Readers
  <2>6. UNCHANGED reader \/ reader' = NoReader \/ (\E h \in Heights : ReaderMiss(h)) \/ ReaderTip \/ ReaderRepair
    BY DEF Next, Advance, vars, SaveBlockJournal,
         SaveBlockFile, SaveBlockHashIndex, SaveBlockHeightIndex, SaveBlockSpend, SaveBlockAdd,
         SaveBlockUndo, SaveBlockTxIndex, SaveBlockAddrSpend, SaveBlockAddrAdd, SaveBlockTip,
         DisconnectJournal, DisconnectDel, DisconnectPut, DisconnectHeight, DisconnectTip, WipeTxIndex,
         WipeAddressIndex, IndexBlockAgain, IndexAgainDone, StartClean, StartCommitted, StartRollback,
         StartRedoDisconnect, RollbackDel, RollbackPut, RollbackFiles, ReindexBegin, ReindexHeight,
         ReindexHash, ReindexWipeUtxo, ReindexReplay, ReindexReplayDone, ClearJournal, Crash, IOError
  <2> QED  BY <1>1, <2>1, <2>2, <2>3, <2>4, <2>5, <2>6
<1> QED  BY <1>6, <1>7, <1>8 DEF DiskTyped

(* The steps that leave a reindex where it is. *)
LEMMA OutsideReindex ==
    ASSUME [Next]_vars, pc' \in ReindexPCs
    PROVE  /\ tipFile' = tipFile
           /\ pc \in ReindexPCs \/ (ReindexBegin /\ pc' = "x_height" /\ tipFile \in Block)
<1>1. CASE UNCHANGED vars
  BY <1>1 DEF vars
<1>2. CASE ReindexBegin
  BY <1>2 DEF ReindexBegin, goto
<1>3. CASE (\E h \in Heights : ReaderMiss(h)) \/ ReaderTip \/ ReaderRepair
  BY <1>3 DEF ReaderMiss, ReaderTip, ReaderRepair
<1>4. CASE ReindexHeight \/ ReindexHash \/ ReindexWipeUtxo \/ ReindexReplay \/ ReindexReplayDone
  BY <1>4 DEF ReindexHeight, ReindexHash, ReindexWipeUtxo, ReindexReplay, ReindexReplayDone, goto, ReindexPCs
<1>5. CASE WipeTxIndex \/ WipeAddressIndex \/ IndexBlockAgain \/ IndexAgainDone
  BY <1>5 DEF WipeTxIndex, WipeAddressIndex, IndexBlockAgain, IndexAgainDone, goto, ReindexPCs
<1>6. CASE Crash \/ IOError
  BY <1>6 DEF Crash, IOError, ReindexPCs
<1>7. CASE \/ (\E b \in Block : SaveBlockJournal(b)) \/ SaveBlockFile \/ SaveBlockHashIndex
           \/ SaveBlockHeightIndex \/ SaveBlockSpend \/ SaveBlockAdd \/ SaveBlockUndo
           \/ SaveBlockTxIndex \/ SaveBlockAddrSpend \/ SaveBlockAddrAdd \/ SaveBlockTip
  BY <1>7 DEF SaveBlockJournal, SaveBlockFile, SaveBlockHashIndex, SaveBlockHeightIndex, SaveBlockSpend,
     SaveBlockAdd, SaveBlockUndo, SaveBlockTxIndex, SaveBlockAddrSpend, SaveBlockAddrAdd, SaveBlockTip,
     goto, ReindexPCs
<1>8. CASE \/ DisconnectJournal \/ DisconnectDel \/ DisconnectPut \/ DisconnectHeight \/ DisconnectTip
           \/ StartClean \/ StartCommitted \/ StartRollback \/ StartRedoDisconnect
           \/ RollbackDel \/ RollbackPut \/ RollbackFiles \/ ClearJournal
  BY <1>8 DEF DisconnectJournal, DisconnectDel, DisconnectPut, DisconnectHeight, DisconnectTip,
     StartClean, StartCommitted, StartRollback, StartRedoDisconnect, RollbackDel, RollbackPut,
     RollbackFiles, ClearJournal, goto, ReindexPCs
<1> QED  BY <1>1, <1>2, <1>3, <1>4, <1>5, <1>6, <1>7, <1>8 DEF Next, Advance

(* What changes the listing, or the unspent set, while the blocks are replayed. *)
LEMMA DuringReplay ==
    ASSUME [Next]_vars, pc' \in {"x_hash", "x_wipe", "x_replay"}
    PROVE  \/ (ReindexHeight /\ pc = "x_height" /\ pc' = "x_hash")
           \/ pc \in {"x_hash", "x_wipe", "x_replay"} /\ ReindexHash /\ pc' = "x_wipe"
           \/ pc \in {"x_hash", "x_wipe", "x_replay"} /\ ReindexWipeUtxo /\ pc' = "x_replay"
           \/ pc \in {"x_hash", "x_wipe", "x_replay"} /\ ReindexReplay
           \/ /\ pc \in {"x_hash", "x_wipe", "x_replay"} /\ pc' = pc /\ rh' = rh /\ utxo' = utxo
              /\ (\E h \in Heights : ReaderMiss(h)) \/ ReaderTip \/ ReaderRepair \/ UNCHANGED vars
<1>1. CASE UNCHANGED vars
  BY <1>1 DEF vars
<1>2. CASE ReindexBegin
  BY <1>2 DEF ReindexBegin, goto
<1>3. CASE (\E h \in Heights : ReaderMiss(h)) \/ ReaderTip \/ ReaderRepair
  BY <1>3 DEF ReaderMiss, ReaderTip, ReaderRepair
<1>4. CASE ReindexHeight \/ ReindexHash \/ ReindexWipeUtxo \/ ReindexReplay \/ ReindexReplayDone
  BY <1>4 DEF ReindexHeight, ReindexHash, ReindexWipeUtxo, ReindexReplay, ReindexReplayDone, goto
<1>5. CASE WipeTxIndex \/ WipeAddressIndex \/ IndexBlockAgain \/ IndexAgainDone
  BY <1>5 DEF WipeTxIndex, WipeAddressIndex, IndexBlockAgain, IndexAgainDone, goto
<1>6. CASE Crash \/ IOError
  BY <1>6 DEF Crash, IOError
<1>7. CASE \/ (\E b \in Block : SaveBlockJournal(b)) \/ SaveBlockFile \/ SaveBlockHashIndex
           \/ SaveBlockHeightIndex \/ SaveBlockSpend \/ SaveBlockAdd \/ SaveBlockUndo
           \/ SaveBlockTxIndex \/ SaveBlockAddrSpend \/ SaveBlockAddrAdd \/ SaveBlockTip
  BY <1>7 DEF SaveBlockJournal, SaveBlockFile, SaveBlockHashIndex, SaveBlockHeightIndex, SaveBlockSpend,
     SaveBlockAdd, SaveBlockUndo, SaveBlockTxIndex, SaveBlockAddrSpend, SaveBlockAddrAdd, SaveBlockTip,
     goto
<1>8. CASE \/ DisconnectJournal \/ DisconnectDel \/ DisconnectPut \/ DisconnectHeight \/ DisconnectTip
           \/ StartClean \/ StartCommitted \/ StartRollback \/ StartRedoDisconnect
           \/ RollbackDel \/ RollbackPut \/ RollbackFiles \/ ClearJournal
  BY <1>8 DEF DisconnectJournal, DisconnectDel, DisconnectPut, DisconnectHeight, DisconnectTip,
     StartClean, StartCommitted, StartRollback, StartRedoDisconnect, RollbackDel, RollbackPut,
     RollbackFiles, ClearJournal, goto
<1> QED  BY <1>1, <1>2, <1>3, <1>4, <1>5, <1>6, <1>7, <1>8 DEF Next, Advance

(* The listing while the chain is replayed: what a reader does to it. *)
LEMMA StepListing ==
    ASSUME ReplayInv, [Next]_vars, pc' \in {"x_hash", "x_wipe", "x_replay"}
    PROVE  /\ tipFile \in Block /\ tipFile' = tipFile
           /\ ChainTo[tipFile] \subseteq Block /\ Height[tipFile] \in Heights
           /\ ListingInv'
           /\ pc \in {"x_hash", "x_wipe", "x_replay"} =>
                 \A b \in ChainTo[tipFile] : Wrong(b) => Wrong(b)'
<1>1. tipFile \in Block /\ tipFile' = tipFile
  <2>1. pc' \in ReindexPCs
    BY DEF ReindexPCs
  <2> QED  BY <2>1, OutsideReindex DEF ReplayInv
<1>2. /\ ChainTo[tipFile] \subseteq Block /\ Height[tipFile] \in Heights
      /\ \A b \in Block : Height[b] \in Heights
      /\ \A b \in ChainTo[tipFile] : Height[b] \in 0 .. Height[tipFile]
  <2>1. ChainTo[tipFile] \subseteq Block
    BY <1>1, ReplayAssumption DEF Tips
  <2>2. \A b \in Block : Height[b] \in Heights
    BY BlockFacts
  <2>3. \A b \in ChainTo[tipFile] : Height[b] <= Height[tipFile]
    BY <1>1, ReplayAssumption DEF Tips
  <2> QED  BY <1>1, <2>1, <2>2, <2>3 DEF Heights
<1>3. DiskTyped /\ heightIndex \in [Heights -> Tips]
  BY DEF ReplayInv, DiskTyped
<1>4. CASE pc \notin {"x_hash", "x_wipe", "x_replay"}
  <2>1. ReindexHeight /\ pc = "x_height" /\ pc' = "x_hash"
    BY <1>4, DuringReplay
  <2>2. heightIndex' = heightIndex /\ \A b \in ChainTo[tipFile] : heightIndex[Height[b]] = b
    BY <2>1 DEF ReindexHeight
  <2>3. \A h \in 0 .. Height[tipFile] : heightIndex[h] \in Block
    <3> TAKE h \in 0 .. Height[tipFile]
    <3>1. PICK b \in ChainTo[tipFile] : Height[b] = h
      BY <1>1, ReplayAssumption DEF Tips
    <3> QED  BY <1>2, <2>2, <3>1
  <2> QED  BY <1>1, <1>2, <1>4, <2>2, <2>3 DEF ListingInv, Wrong
<1>5. CASE pc \in {"x_hash", "x_wipe", "x_replay"}
  <2>1. /\ \A h \in 0 .. Height[tipFile] : heightIndex[h] \in Block
        /\ \A b \in ChainTo[tipFile] : Wrong(b) => PassedBy(b)
    BY <1>5 DEF ReplayInv, ListingInv
  <2>2. CASE heightIndex' = heightIndex /\ reader' = reader
    <3>1. /\ \A h \in 0 .. Height[tipFile'] : heightIndex'[h] \in Block
          /\ \A b \in ChainTo[tipFile'] : Wrong(b)' <=> Wrong(b)
          /\ \A b \in ChainTo[tipFile'] : PassedBy(b)' <=> PassedBy(b)
      BY <1>1, <2>1, <2>2 DEF Wrong, PassedBy
    <3> QED  BY <1>1, <1>2, <2>1, <3>1 DEF ListingInv
  <2>3. CASE \E h \in Heights : ReaderMiss(h)
    <3>1. PICK h \in Heights : ReaderMiss(h)
      BY <2>3
    <3>2. heightIndex' = heightIndex /\ heightIndex[h] = NoBlock /\ reader'.step = "miss" /\ reader'.low = h
      BY <3>1 DEF ReaderMiss
    <3>3. h > Height[tipFile]
      BY <1>2, <2>1, <3>2, TreeAssumption DEF Heights
    <3>4. \A b \in ChainTo[tipFile] : PassedBy(b)' /\ (Wrong(b)' <=> Wrong(b))
      BY <1>1, <3>2, <3>3 DEF PassedBy, Wrong
    <3> QED  BY <1>1, <1>2, <2>1, <3>2, <3>4 DEF ListingInv
  <2>4. CASE ReaderTip
    <3>1. heightIndex' = heightIndex /\ reader.step = "miss"
      BY <2>4 DEF ReaderTip
    <3>2. \A b \in ChainTo[tipFile] : Wrong(b)' <=> Wrong(b)
      BY <3>1 DEF Wrong
    <3>3. ASSUME NEW b \in ChainTo[tipFile], Wrong(b)
          PROVE  PassedBy(b)'
      <4>1. reader.low > Height[tipFile]
        BY <2>1, <3>1, <3>3 DEF PassedBy
      <4>2. reader.low \in Nat /\ Height[tipFile] \in Nat
        BY <1>2, <1>3 DEF DiskTyped, Readers, Heights
      <4>3. reader' = NoReader
        BY <2>4, <4>1, <4>2 DEF ReaderTip
      <4> QED  BY <4>3 DEF PassedBy, NoReader
    <3> QED  BY <1>1, <1>2, <2>1, <3>1, <3>2, <3>3 DEF ListingInv
  <2>5. CASE ReaderRepair
    <3> DEFINE at == reader.at
    <3>1. reader.step = "walk" /\ at \in Block /\ Height[at] \in Nat /\ Height[at] \in Heights
      BY <1>2, <1>3, <2>5 DEF ReaderRepair, DiskTyped, Heights
    <3>2. /\ heightIndex' = heightIndex \/ heightIndex' = [heightIndex EXCEPT ![Height[at]] = at]
          /\ \/ reader' = NoReader
             \/ Height[at] # reader.low /\ reader' = [reader EXCEPT !.at = Parent[at]]
      BY <2>5 DEF ReaderRepair
    <3>3. reader' = NoReader \/ (reader'.step = "walk" /\ Height[reader'.at] = Height[at] - 1)
      <4>1. CASE reader' = NoReader
        BY <4>1
      <4>2. CASE Height[at] # reader.low /\ reader' = [reader EXCEPT !.at = Parent[at]]
        <5>1. Height[Parent[at]] = Height[at] - 1
          BY <1>3, <3>1, <4>2, PassOn
        <5>2. reader'.step = "walk" /\ reader'.at = Parent[at]
          <6>1. reader \in Readers
            BY <1>3 DEF DiskTyped
          <6> QED  BY <3>1, <4>2, <6>1 DEF Readers
        <5> QED  BY <5>1, <5>2
      <4> QED  BY <3>2, <4>1, <4>2
    <3>4. \A h \in 0 .. Height[tipFile] : heightIndex'[h] \in Block
      <4> TAKE h \in 0 .. Height[tipFile]
      <4>1. h \in Heights /\ heightIndex[h] \in Block
        BY <1>2, <2>1, TreeAssumption DEF Heights
      <4> QED  BY ONLY <1>3, <3>1, <3>2, <4>1
    <3>5. ASSUME NEW b \in ChainTo[tipFile]
          PROVE  (Wrong(b) => Wrong(b)') /\ (Wrong(b)' => PassedBy(b)')
      <4>1. Height[b] \in Nat /\ Height[b] \in Heights
        BY <1>2, <3>5 DEF Heights
      <4>2. Wrong(b) => Height[at] < Height[b]
        BY <2>1, <3>1, <3>5 DEF PassedBy
      <4>3. Height[b] # Height[at] => heightIndex'[Height[b]] = heightIndex[Height[b]]
        BY ONLY <1>3, <3>1, <3>2, <4>1
      <4>4. Wrong(b) => Wrong(b)'
        BY <3>1, <4>1, <4>2, <4>3 DEF Wrong
      <4>5. Wrong(b)' => Height[at] <= Height[b]
        <5>1. Wrong(b)' /\ Height[b] # Height[at] => Wrong(b)
          BY <4>3 DEF Wrong
        <5> QED  BY <3>1, <4>1, <4>2, <5>1
      <4>6. Wrong(b)' => PassedBy(b)'
        <5>1. CASE reader' = NoReader
          BY <5>1 DEF PassedBy, NoReader
        <5>2. CASE reader'.step = "walk" /\ Height[reader'.at] = Height[at] - 1
          BY <3>1, <4>1, <4>5, <5>2 DEF PassedBy
        <5> QED  BY <3>3, <5>1, <5>2
      <4> QED  BY <4>4, <4>6
    <3> QED  BY <1>1, <1>2, <3>4, <3>5 DEF ListingInv
  <2>6. CASE ReindexReplay
    <3>1. rh <= Height[tipFile] /\ rh \in Nat /\ heightIndex' = Repaired(rh) /\ reader' = reader
      BY <1>3, <2>6 DEF ReindexReplay, DiskTyped
    <3>2. heightIndex[rh] \in Block
      BY <1>2, <2>1, <3>1 DEF Heights
    <3>3. heightIndex' = heightIndex
      BY <3>1, <3>2 DEF Repaired
    <3> QED  BY <2>2, <3>1, <3>3
  <2>7. CASE ReindexHash \/ ReindexWipeUtxo \/ UNCHANGED vars
    BY <2>2, <2>7 DEF ReindexHash, ReindexWipeUtxo, vars
  <2> QED  BY <1>5, <2>3, <2>4, <2>5, <2>6, <2>7, DuringReplay
<1> QED  BY <1>4, <1>5

(* When the height index lists the chain of the tip file, the block at the  *)
(* next height is the child of the last one taken from it.                  *)
LEMMA NextOnChain ==
    ASSUME tipFile \in Tips, rh \in 0 .. Height[tipFile],
           \A b \in ChainTo[tipFile] : ~Wrong(b),
           NEW b \in ChainTo[tipFile] \cup {NoBlock}, Height[b] = rh - 1
    PROVE  LET c == heightIndex[rh]
           IN  c \in ChainTo[tipFile] /\ c \in Block /\ Height[c] = rh /\ Parent[c] = b
<1> DEFINE c == heightIndex[rh]
<1>1. ChainTo[tipFile] \subseteq Block
  BY ReplayAssumption
<1>2. PICK d \in ChainTo[tipFile] : Height[d] = rh
  BY ReplayAssumption
<1>3. c = d /\ c \in ChainTo[tipFile] /\ c \in Block /\ Height[c] = rh
  BY <1>1, <1>2 DEF Wrong
<1>4. Height[c] = Height[Parent[c]] + 1 /\ Height[Parent[c]] \in Int /\ rh \in Nat
  BY <1>3, BlockFacts
<1>5. Height[Parent[c]] = Height[b]
  BY <1>3, <1>4
<1>6. Parent[c] \in ChainTo[tipFile] \/ Parent[c] = NoBlock
  BY <1>3, TreeAssumption, ReplayAssumption
<1>7. \A d1, d2 \in ChainTo[tipFile] : Height[d1] = Height[d2] => d1 = d2
  BY DEF Wrong
<1>8. \A d1 \in ChainTo[tipFile] : Height[d1] # Height[NoBlock]
  <2> TAKE d1 \in ChainTo[tipFile]
  <2>1. Height[d1] \in Nat
    BY <1>1, BlockFacts DEF Heights
  <2> QED  BY <2>1, TreeAssumption
<1> QED  BY <1>3, <1>5, <1>6, <1>7, <1>8

(* So the replay of one more block gives the unspent set at that block. *)
LEMMA ReplayOne ==
    ASSUME tipFile \in Block, rh \in 0 .. Height[tipFile],
           \A b \in ChainTo[tipFile] : ~Wrong(b),
           NEW b \in Tips, ReplayedTo(b)
    PROVE  LET c == heightIndex[rh]
           IN  /\ c \in ChainTo[tipFile] /\ Height[c] = rh
               /\ (utxo \ Spends[c]) \cup Adds[c] = UtxoAt[c]
<1> DEFINE c == heightIndex[rh]
<1>1. c \in ChainTo[tipFile] /\ c \in Block /\ Height[c] = rh /\ Parent[c] = b
  BY NextOnChain DEF ReplayedTo, Tips
<1>2. UtxoAt[c] = (UtxoAt[b] \ Spends[c]) \cup Adds[c] /\ utxo = UtxoAt[b]
  BY <1>1, ReplayAssumption DEF ReplayedTo
<1> QED  BY <1>1, <1>2

LEMMA StepReplayInv == ReplayInv /\ [Next]_vars => ReplayInv'
<1> SUFFICES ASSUME ReplayInv, [Next]_vars PROVE ReplayInv'
  OBVIOUS
<1>1. DiskTyped'
  BY StepDiskTyped
<1>2. pc' \in ReindexPCs => tipFile' \in Block
  BY OutsideReindex DEF ReplayInv
<1>3. ListingInv'
  BY StepListing DEF ListingInv
<1>4. ASSUME pc' = "x_replay"
      PROVE  /\ rh' <= Height[tipFile'] + 1
             /\ (\E b \in ChainTo[tipFile'] : Wrong(b)') \/ (\E b \in Tips : ReplayedTo(b)')
  <2>1. /\ tipFile \in Block /\ tipFile' = tipFile /\ ChainTo[tipFile] \subseteq Block
        /\ Height[tipFile] \in Nat
        /\ pc \in {"x_hash", "x_wipe", "x_replay"} =>
              \A b \in ChainTo[tipFile] : Wrong(b) => Wrong(b)'
    BY <1>4, StepListing DEF Heights
  <2>2. CASE ReindexWipeUtxo
    <3>1. rh' = 0 /\ utxo' = {} /\ NoBlock \in Tips
      BY <2>2 DEF ReindexWipeUtxo, Tips
    <3>2. ReplayedTo(NoBlock)'
      BY <3>1, TreeAssumption, ReplayAssumption DEF ReplayedTo
    <3> QED  BY <2>1, <3>1, <3>2
  <2>3. ASSUME pc = "x_replay"
        PROVE  /\ rh \in Nat /\ rh <= Height[tipFile] + 1
               /\ (\E b \in ChainTo[tipFile] : Wrong(b)) \/ (\E b \in Tips : ReplayedTo(b))
    BY <2>3 DEF ReplayInv, DiskTyped
  <2>4. ASSUME pc = "x_replay", NEW b \in ChainTo[tipFile], Wrong(b)
        PROVE  \E d \in ChainTo[tipFile'] : Wrong(d)'
    BY <2>1, <2>4
  <2>5. CASE ReindexReplay
    <3>1. /\ pc = "x_replay" /\ rh <= Height[tipFile] /\ rh' = rh + 1 /\ heightIndex' = Repaired(rh)
          /\ utxo' = (utxo \ Spends[heightIndex'[rh]]) \cup Adds[heightIndex'[rh]]
      BY <2>5 DEF ReindexReplay
    <3>2. rh \in 0 .. Height[tipFile] /\ rh' <= Height[tipFile'] + 1
      BY <2>1, <2>3, <3>1
    <3>3. heightIndex' = heightIndex
      <4>1. heightIndex[rh] \in Block
        BY <3>1, <3>2 DEF ReplayInv, ListingInv
      <4> QED  BY <3>1, <4>1 DEF Repaired
    <3>4. CASE \E b \in ChainTo[tipFile] : Wrong(b)
      BY <2>4, <3>1, <3>2, <3>4
    <3>5. CASE \A b \in ChainTo[tipFile] : ~Wrong(b)
      <4>1. PICK b \in Tips : ReplayedTo(b)
        BY <2>3, <3>1, <3>5
      <4>2. PICK c \in ChainTo[tipFile] : /\ Height[c] = rh /\ c = heightIndex[rh]
                                          /\ (utxo \ Spends[c]) \cup Adds[c] = UtxoAt[c]
        BY <2>1, <3>2, <3>5, <4>1, ReplayOne
      <4>3. ReplayedTo(c)'
        BY <2>1, <3>1, <3>2, <3>3, <4>2 DEF ReplayedTo
      <4>4. c \in Tips
        BY <2>1, <4>2 DEF Tips
      <4> QED  BY <3>2, <4>3, <4>4
    <3> QED  BY <3>4, <3>5
  <2>6. CASE pc = "x_replay" /\ rh' = rh /\ utxo' = utxo
    <3>1. \A b \in Tips : ReplayedTo(b) => ReplayedTo(b)'
      BY <2>1, <2>6 DEF ReplayedTo
    <3> QED  BY <2>1, <2>3, <2>4, <2>6, <3>1
  <2> QED  BY <1>4, <2>2, <2>5, <2>6, DuringReplay
<1> QED  BY <1>1, <1>2, <1>3, <1>4 DEF ReplayInv

(* A reindex that ends leaves the replay of the tip file's chain, in every *)
(* environment: whatever crashes, failed file operations and interrupted   *)
(* reindexes left on disk, unless a reader without the lock has written to *)
(* the height index while the blocks were read through it.                 *)
THEOREM ReindexCorrect == Spec => ReindexRestoresUtxo
<1>1. Init => ReplayInv
  <2> SUFFICES ASSUME Init PROVE ReplayInv
    OBVIOUS
  <2>1. DiskTyped
    BY TreeAssumption DEF Init, DiskTyped, Tips, Heights, Journals, NoReader, Readers
  <2> QED  BY <2>1 DEF Init, ReplayInv, ReindexPCs, ListingInv
<1>2. ReplayInv /\ [Next]_vars => ReplayInv'
  BY StepReplayInv
<1>3. ASSUME ReplayInv, ReindexReplayDone, \A b \in ChainTo[tipFile] : heightIndex[Height[b]] = b
      PROVE  utxo = UtxoAt[tipFile]
  <2>1. pc = "x_replay" /\ rh > Height[tipFile] /\ tipFile \in Block
    BY <1>3 DEF ReindexReplayDone, goto, ReplayInv, ReindexPCs
  <2>2. rh \in Nat /\ rh <= Height[tipFile] + 1 /\ Height[tipFile] \in Nat
    BY <1>3, <2>1, BlockFacts DEF ReplayInv, DiskTyped, Heights
  <2>3. PICK b \in Tips : ReplayedTo(b)
    BY <1>3, <2>1 DEF ReplayInv, Wrong
  <2>4. Height[b] = Height[tipFile] /\ b \in ChainTo[tipFile] \cup {NoBlock} /\ utxo = UtxoAt[b]
    BY <2>1, <2>2, <2>3 DEF ReplayedTo
  <2>5. b \in ChainTo[tipFile] /\ tipFile \in ChainTo[tipFile]
    BY <2>1, <2>2, <2>4, BlockFacts, TreeAssumption
  <2> QED  BY <1>3, <2>4, <2>5
<1>4. ReplayInv /\ [Next]_vars =>
        [ReindexReplayDone /\ (\A b \in ChainTo[tipFile] : heightIndex[Height[b]] = b) =>
           utxo = UtxoAt[tipFile]]_vars
  BY <1>3
<1> QED  BY <1>1, <1>2, <1>4, PTL DEF Spec, ReindexRestoresUtxo
-----------------------------------------------------------------------------
(* The rebuild of the address index, when crashes are the only fault. *)

(* No output of a chain is made twice, and so none is both left unspent by  *)
(* one block and used up inside another.                                    *)
MadeOnce ==
    \A t \in Tips : \A b, c \in ChainTo[t] : Adds[b] \cap Ephemeral[c] = {}

InBlockOutputs == UNION {Ephemeral[b] : b \in ChainTo[tipFile]}
LastingOutputs == UNION {Adds[b] : b \in ChainTo[tipFile]}

(* b is the last block indexed, NoBlock at the beginning. *)
IndexedTo(b) ==
    /\ b \in ChainTo[tipFile] \cup {NoBlock} /\ Height[b] = rh - 1
    /\ UtxoAt[b] \subseteq addrUtxo \cap LastingOutputs
    /\ addrUtxo \subseteq UtxoAt[b] \cup InBlockOutputs

AddressInv ==
    AddressIndexEnabled /\ pc \in {"d_index", "x_index"} =>
        rh <= Height[tipFile] + 1 /\ \E b \in Tips : IndexedTo(b)

(* In a rebuild the height index lists the chain of the tip file. *)
LEMMA RebuildState ==
    ASSUME CrashInv, pc \in {"d_index", "x_index", "d_wipeaddr", "x_wipeaddr"}
    PROVE  /\ RecoveredTip = tipFile /\ tipFile \in Block /\ Height[tipFile] \in Nat
           /\ \A b \in ChainTo[tipFile] : ~Wrong(b) /\ b \in undo
           /\ rh \in Nat /\ ChainTo[tipFile] \subseteq Block
<1>1. RecoveredTip = tipFile /\ tipFile \in Block
  BY QuietState, DisconnectState DEF CrashInv, TypeOK, JournalInv, Before, ReindexPCs, DisconnectPCs
<1>2. Height[tipFile] \in Nat
  BY <1>1, BlockFacts DEF Heights
<1>3. \A b \in ChainTo[tipFile] : ~Wrong(b) /\ b \in undo
  BY <1>1 DEF CrashInv, HeightInv, FilesInv, Wrong
<1>4. rh \in Nat /\ ChainTo[tipFile] \subseteq Block
  BY <1>1, ReplayAssumption DEF CrashInv, TypeOK, Tips
<1> QED  BY <1>1, <1>2, <1>3, <1>4

(* One more block is indexed. *)
LEMMA IndexOne ==
    ASSUME CrashInv, AddressInv, AddressIndexEnabled, IndexBlockAgain
    PROVE  AddressInv'
<1>1. /\ pc \in {"d_index", "x_index"} /\ pc' = pc /\ rh <= Height[tipFile] /\ rh' = rh + 1
      /\ tipFile' = tipFile /\ heightIndex' = Repaired(rh)
  BY DEF IndexBlockAgain
<1>2. /\ tipFile \in Block /\ Height[tipFile] \in Nat /\ rh \in Nat
      /\ \A b \in ChainTo[tipFile] : ~Wrong(b) /\ b \in undo
  BY <1>1, RebuildState
<1>3. PICK b \in Tips : IndexedTo(b)
  BY <1>1 DEF AddressInv
<1>4. PICK c \in Block : /\ c = heightIndex[rh] /\ c \in ChainTo[tipFile]
                         /\ Height[c] = rh /\ Parent[c] = b
  BY <1>1, <1>2, <1>3, NextOnChain DEF IndexedTo, Tips
<1>5. heightIndex'[rh] = c /\ c \in undo
  BY <1>1, <1>2, <1>4 DEF Repaired
<1>6. addrUtxo' = (addrUtxo \ Spends[c]) \cup Adds[c] \cup Ephemeral[c]
  BY <1>5 DEF IndexBlockAgain
<1>7. UtxoAt[c] = (UtxoAt[b] \ Spends[c]) \cup Adds[c]
  BY <1>4, ReplayAssumption
<1>8. /\ UtxoAt[b] \subseteq addrUtxo \cap LastingOutputs
      /\ addrUtxo \subseteq UtxoAt[b] \cup InBlockOutputs
      /\ Adds[c] \subseteq LastingOutputs /\ Ephemeral[c] \subseteq InBlockOutputs
      /\ LastingOutputs' = LastingOutputs /\ InBlockOutputs' = InBlockOutputs
  BY <1>1, <1>3, <1>4 DEF IndexedTo, LastingOutputs, InBlockOutputs
<1>9. /\ UtxoAt[c] \subseteq addrUtxo' \cap LastingOutputs'
      /\ addrUtxo' \subseteq UtxoAt[c] \cup InBlockOutputs'
  BY ONLY <1>6, <1>7, <1>8
<1>10. IndexedTo(c)'
  BY <1>1, <1>2, <1>4, <1>9 DEF IndexedTo
<1> QED  BY <1>1, <1>2, <1>4, <1>10 DEF AddressInv, Tips

(* The steps that come to the loop, or stay in it. *)
LEMMA IntoIndexing ==
    ASSUME [Next]_vars, pc' \in {"d_index", "x_index"}
    PROVE  \/ WipeTxIndex /\ ~AddressIndexEnabled
           \/ WipeAddressIndex
           \/ IndexBlockAgain
           \/ pc' = pc /\ rh' = rh /\ addrUtxo' = addrUtxo /\ tipFile' = tipFile
<1>1. CASE UNCHANGED vars
  BY <1>1 DEF vars
<1>2. CASE ReindexBegin
  BY <1>2 DEF ReindexBegin, goto
<1>3. CASE (\E h \in Heights : ReaderMiss(h)) \/ ReaderTip \/ ReaderRepair
  BY <1>3 DEF ReaderMiss, ReaderTip, ReaderRepair, indexVars
<1>4. CASE ReindexHeight \/ ReindexHash \/ ReindexWipeUtxo \/ ReindexReplay \/ ReindexReplayDone
  BY <1>4 DEF ReindexHeight, ReindexHash, ReindexWipeUtxo, ReindexReplay, ReindexReplayDone, goto
<1>5. CASE WipeTxIndex \/ WipeAddressIndex \/ IndexBlockAgain \/ IndexAgainDone
  BY <1>5 DEF WipeTxIndex, IndexAgainDone, goto
<1>6. CASE Crash \/ IOError
  BY <1>6 DEF Crash, IOError
<1>7. CASE \/ (\E b \in Block : SaveBlockJournal(b)) \/ SaveBlockFile \/ SaveBlockHashIndex
           \/ SaveBlockHeightIndex \/ SaveBlockSpend \/ SaveBlockAdd \/ SaveBlockUndo
           \/ SaveBlockTxIndex \/ SaveBlockAddrSpend \/ SaveBlockAddrAdd \/ SaveBlockTip
  BY <1>7 DEF SaveBlockJournal, SaveBlockFile, SaveBlockHashIndex, SaveBlockHeightIndex, SaveBlockSpend,
     SaveBlockAdd, SaveBlockUndo, SaveBlockTxIndex, SaveBlockAddrSpend, SaveBlockAddrAdd, SaveBlockTip,
     goto
<1>8. CASE \/ DisconnectJournal \/ DisconnectDel \/ DisconnectPut \/ DisconnectHeight \/ DisconnectTip
           \/ StartClean \/ StartCommitted \/ StartRollback \/ StartRedoDisconnect
           \/ RollbackDel \/ RollbackPut \/ RollbackFiles \/ ClearJournal
  BY <1>8 DEF DisconnectJournal, DisconnectDel, DisconnectPut, DisconnectHeight, DisconnectTip,
     StartClean, StartCommitted, StartRollback, StartRedoDisconnect, RollbackDel, RollbackPut,
     RollbackFiles, ClearJournal, goto
<1> QED  BY <1>1, <1>2, <1>3, <1>4, <1>5, <1>6, <1>7, <1>8 DEF Next, Advance

LEMMA StepAddressInv ==
    ASSUME CrashInv, AddressInv, [Next]_vars
    PROVE  AddressInv'
<1> SUFFICES ASSUME AddressIndexEnabled, pc' \in {"d_index", "x_index"} PROVE AddressInv'
  BY DEF AddressInv
<1>1. CASE WipeAddressIndex
  <2>1. /\ pc \in {"d_wipeaddr", "x_wipeaddr"} /\ tipFile' = tipFile /\ addrUtxo' = {} /\ rh' = 0
    BY <1>1 DEF WipeAddressIndex, goto
  <2>2. tipFile \in Block /\ Height[tipFile] \in Nat
    BY <2>1, RebuildState
  <2>3. IndexedTo(NoBlock)'
    BY <2>1, TreeAssumption, ReplayAssumption DEF IndexedTo
  <2> QED  BY <2>1, <2>2, <2>3 DEF AddressInv, Tips
<1>2. CASE IndexBlockAgain
  BY <1>2, IndexOne
<1>3. CASE pc' = pc /\ rh' = rh /\ addrUtxo' = addrUtxo /\ tipFile' = tipFile
  BY <1>3 DEF AddressInv, IndexedTo, LastingOutputs, InBlockOutputs
<1> QED  BY <1>1, <1>2, <1>3, IntoIndexing

(* A rebuild of the address index that ends has listed what the chain of   *)
(* the tip file leaves unspent, whatever was in the index before.          *)
THEOREM RebuildCorrect ==
    ASSUME CrashOnly, MadeOnce
    PROVE  Spec => RebuildRestoresAddresses
<1>1. Init => AddressInv
  BY DEF Init, AddressInv
<1>2. CrashInv /\ AddressInv /\ [Next]_vars => AddressInv'
  BY StepAddressInv
<1>3. ASSUME CrashInv, AddressInv, IndexAgainDone, AddressIndexEnabled
      PROVE  addrUtxo \ InBlockOutputs = UtxoAt[tipFile]
  <2>1. pc \in {"d_index", "x_index"} /\ rh > Height[tipFile]
    BY <1>3 DEF IndexAgainDone, goto
  <2>2. /\ tipFile \in Block /\ Height[tipFile] \in Nat /\ rh \in Nat
        /\ \A b \in ChainTo[tipFile] : ~Wrong(b)
    BY <1>3, <2>1, RebuildState
  <2>3. PICK b \in Tips : IndexedTo(b)
    BY <1>3, <2>1 DEF AddressInv
  <2>4. Height[b] = Height[tipFile]
    BY <1>3, <2>1, <2>2, <2>3 DEF AddressInv, IndexedTo
  <2>5. b = tipFile
    <3>1. b # NoBlock
      BY <2>2, <2>4, TreeAssumption
    <3>2. b \in ChainTo[tipFile] /\ tipFile \in ChainTo[tipFile]
      BY <2>2, <2>3, <3>1, BlockFacts DEF IndexedTo
    <3> QED  BY <2>2, <2>4, <3>2 DEF Wrong
  <2>6. LastingOutputs \cap InBlockOutputs = {}
    BY <2>2 DEF LastingOutputs, InBlockOutputs, MadeOnce, Tips
  <2> QED  BY <2>3, <2>5, <2>6 DEF IndexedTo
<1>4. CrashInv /\ AddressInv /\ [Next]_vars =>
        [IndexAgainDone /\ AddressIndexEnabled => addrUtxo \ InBlockOutputs = UtxoAt[tipFile]]_vars
  BY <1>3
<1> QED  BY <1>1, <1>2, <1>4, CrashSafe, PTL DEF Spec, RebuildRestoresAddresses, InBlockOutputs
=============================================================================
