-------------------------- MODULE BlockchainProofs --------------------------
(***************************************************************************)
(* The proofs about Blockchain: ChainInv, which says where the fork, the   *)
(* target and the block reached lie while a call runs, is inductive; the   *)
(* active chain is valid and the orphan pool consistent because of it.     *)
(* When parents come before their children, OrderInv adds that a call has  *)
(* the tip to itself, and every call makes its branch active or restores   *)
(* the tip.                                                                *)
(*                                                                         *)
(* About HeaderRules: the median of a window does not depend on the order  *)
(* of its entries, so the chain's and the batch's copies of the rules are  *)
(* one (MediansAgree, BatchIs); HeaderInv keeps every header later than    *)
(* the median before it and the chainwork a sum.                           *)
(*                                                                         *)
(* About BlockRules: the loop over the transactions of a block keeps its   *)
(* view (Viewed) and its sums (Counted), so RulesInv is inductive: each    *)
(* block says what it made and spent, no output is spent twice, and what a *)
(* chain leaves is worth no more than its subsidies.                       *)
(***************************************************************************)
EXTENDS Blockchain, HeaderRules, BlockRules, SequenceTheorems, Sums

Running == pc \notin {"idle", "down"}

(* Where a running call is.  Its branch and the chain it began on share    *)
(* the fork; while it goes back the fork is below the tip; while it goes   *)
(* forward the block it has reached is on the active chain, though orphans *)
(* may have been accepted on top of it; a rollback counts no more blocks   *)
(* than there are above the fork.                                          *)
JobInv ==
    /\ ~Running => job = NoJob
    /\ Running =>
         /\ job.base \in Block /\ job.target \in Block /\ job.at \in Block
         /\ ChainTo[job.base] \subseteq stored
         /\ job.fork \in ChainTo[job.base]
         /\ job.fork \in ChainTo[job.target] \cap ChainTo[job.at]
    /\ pc = "disconnect" => job.at = job.fork /\ job.fork \in ChainTo[tip] /\ job.fork # tip
    /\ pc \in {"disconnect", "attach", "accept"} => job.at \in ChainTo[job.target]
    /\ pc \in {"attach", "accept"} => job.at \in ChainTo[tip]
    /\ pc \in {"disconnect", "attach"} => job.at # job.target
    /\ pc = "rollback" => job.n <= Height[tip] - Height[job.fork]
    /\ pc = "restore" => job.at \in ChainTo[job.base]

ChainInv == TypeOK /\ ActiveChainValid /\ OrphanPoolConsistent /\ JobInv

-----------------------------------------------------------------------------
(* The tree *)

(* A block and its ancestors. *)
LEMMA BlockFacts ==
    ASSUME NEW b \in Block
    PROVE  /\ b \in ChainTo[b] /\ ChainTo[b] \subseteq Block
           /\ Genesis \in ChainTo[b]
           /\ Height[b] \in Nat
           /\ b # Genesis => /\ Parent[b] \in Block
                             /\ ChainTo[b] = ChainTo[Parent[b]] \cup {b}
                             /\ Height[b] = Height[Parent[b]] + 1
           /\ b = Genesis <=> Height[b] = 0
<1>1. /\ ChainTo[b] \subseteq Block
      /\ Height[b] \in Nat
      /\ b # Genesis => Parent[b] \in Block /\ Height[Parent[b]] \in Nat
  BY TreeAssumption, ChainAssumption
<1>2. b \in ChainTo[b]
  <2>1. CASE b = Genesis
    BY <2>1, ChainAssumption
  <2>2. CASE b # Genesis
    <3>1. ChainTo[b] = ChainTo[Parent[b]] \cup {b}
      BY <2>2, ChainAssumption
    <3> QED  BY <3>1
  <2> QED  BY <2>1, <2>2
<1>3. Genesis \in ChainTo[b]
  <2>1. ASSUME Genesis \notin ChainTo[b] PROVE FALSE
    <3>1. PICK f \in ChainTo[b] : Parent[Genesis] = f
      BY <2>1, ChainAssumption, TreeAssumption
    <3> QED  BY <3>1, <1>1, TreeAssumption
  <2> QED  BY <2>1
<1> QED  BY <1>1, <1>2, <1>3, TreeAssumption, ChainAssumption

(* Members of one chain: what is below the end is below its parent too. *)
LEMMA BelowFacts ==
    ASSUME NEW b \in Block, NEW c \in ChainTo[b]
    PROVE  /\ ChainTo[c] \subseteq ChainTo[b]
           /\ Height[c] <= Height[b]
           /\ c # b => /\ b # Genesis /\ c \in ChainTo[Parent[b]]
                       /\ Height[c] < Height[b]
<1>1. /\ c \in Block /\ ChainTo[c] \subseteq ChainTo[b] /\ Height[c] <= Height[b]
      /\ b \in ChainTo[b] /\ Height[c] = Height[b] => c = b
  BY BlockFacts, ChainAssumption
<1>2. Height[c] \in Nat /\ Height[b] \in Nat
  BY <1>1, BlockFacts
<1>3. c # b => b # Genesis
  BY ChainAssumption
<1> QED  BY <1>1, <1>2, <1>3, BlockFacts

(* There is a next block on the way up to t from any block of its chain. *)
LEMMA NextFacts ==
    ASSUME NEW t \in Block, NEW p \in ChainTo[t], p # t
    PROVE  NextOn(t, p) \in ChainTo[t] /\ Parent[NextOn(t, p)] = p
<1>1. p \in Block /\ p \in ChainTo[p] /\ t \in ChainTo[t] /\ ChainTo[p] \subseteq ChainTo[t]
  BY BlockFacts, BelowFacts
<1>2. Height[p] < Height[t] /\ Height[p] \in Nat /\ Height[t] \in Nat
  BY <1>1, BlockFacts, BelowFacts
<1>3. t \notin ChainTo[p]
  BY <1>1, <1>2, BelowFacts
<1>4. PICK f \in ChainTo[p], d \in ChainTo[t] :
         Parent[d] = f /\ ChainTo[p] \cap ChainTo[t] = ChainTo[f]
  BY <1>1, <1>3, ChainAssumption
<1>5. f \in Block /\ p \in ChainTo[f]
  BY <1>1, <1>4, BlockFacts
<1>6. Height[p] <= Height[f] /\ Height[f] <= Height[p] /\ Height[f] \in Nat
  BY <1>1, <1>4, <1>5, BelowFacts, BlockFacts
<1>7. f = p
  <2>1. Height[f] = Height[p]
    BY <1>2, <1>6
  <2> QED  BY <2>1, <1>1, <1>4, ChainAssumption
<1>8. \E d2 \in ChainTo[t] : Parent[d2] = p
  BY <1>4, <1>7
<1> QED  BY <1>8 DEF NextOn

(* The branch of a block that is not active leaves the active chain at a   *)
(* block of both.                                                          *)
LEMMA ForkFacts ==
    ASSUME NEW b \in Block, tip \in Block, b \notin ChainTo[tip]
    PROVE  ForkOf(b) \in ChainTo[tip] \cap ChainTo[b] /\ ForkOf(b) # b
<1>1. PICK f \in ChainTo[tip], d \in ChainTo[b] :
         Parent[d] = f /\ ChainTo[tip] \cap ChainTo[b] = ChainTo[f]
  BY ChainAssumption
<1>2. f \in Block /\ d \in Block /\ Height[f] \in Nat /\ Height[d] \in Nat
  BY <1>1, BlockFacts
<1>3. d # Genesis
  BY <1>1, <1>2, TreeAssumption
<1>4. Height[d] = Height[f] + 1
  BY <1>1, <1>2, <1>3, BlockFacts
<1>5. d \notin ChainTo[tip]
  BY <1>1, <1>2, <1>4, BelowFacts
<1>6. \E e \in ChainTo[tip] : \E c \in Branch(b) : Parent[c] = e
  BY <1>1, <1>5 DEF Branch
<1>7. PICK c \in Branch(b) : Parent[c] = ForkOf(b) /\ ForkOf(b) \in ChainTo[tip]
  BY <1>6 DEF ForkOf
<1>8. c \in Block /\ c \in ChainTo[b] /\ ForkOf(b) \in Block
  BY <1>7, BlockFacts DEF Branch
<1>9. c # Genesis
  BY <1>7, <1>8, TreeAssumption
<1>10. ForkOf(b) \in ChainTo[c]
  BY <1>7, <1>8, <1>9, BlockFacts
<1> QED  BY <1>7, <1>8, <1>10, BelowFacts
-----------------------------------------------------------------------------
(* The orphan pool *)

NoOrphanTwice(order) == \A i, j \in DOMAIN order : order[i] = order[j] => i = j

(* Taking out the orphan at one position leaves all the others, once each. *)
LEMMA WithoutFacts ==
    ASSUME NEW s \in Seq(Block), NoOrphanTwice(s), NEW i \in DOMAIN s
    PROVE  /\ Without(s, i) \in Seq(Block)
           /\ Len(Without(s, i)) = Len(s) - 1
           /\ NoOrphanTwice(Without(s, i))
           /\ {Without(s, i)[j] : j \in DOMAIN Without(s, i)}
                = {s[j] : j \in DOMAIN s} \ {s[i]}
<1> DEFINE l == SubSeq(s, 1, i - 1)
           r == SubSeq(s, i + 1, Len(s))
           w == l \o r
<1>1. i \in 1 .. Len(s) /\ Len(s) \in Nat /\ DOMAIN s = 1 .. Len(s)
  OBVIOUS
<1>2. l \in Seq(Block) /\ Len(l) = i - 1 /\ \A j \in 1 .. i - 1 : l[j] = s[j]
  BY <1>1
<1>3. r \in Seq(Block) /\ Len(r) = Len(s) - i /\ \A j \in 1 .. Len(s) - i : r[j] = s[i + j]
  BY <1>1
<1> HIDE DEF l, r
<1>4. /\ w \in Seq(Block) /\ Len(w) = Len(s) - 1 /\ DOMAIN w = 1 .. Len(s) - 1
      /\ \A j \in 1 .. Len(s) - 1 : w[j] = IF j < i THEN l[j] ELSE r[j - (i - 1)]
  <2>1. w \in Seq(Block) /\ Len(w) = Len(l) + Len(r) /\ DOMAIN w = 1 .. Len(l) + Len(r)
    BY <1>2, <1>3, ConcatProperties
  <2>2. \A j \in 1 .. Len(l) + Len(r) : w[j] = IF j <= Len(l) THEN l[j] ELSE r[j - Len(l)]
    BY <1>2, <1>3, ConcatProperties
  <2>3. Len(l) + Len(r) = Len(s) - 1
    BY <1>1, <1>2, <1>3
  <2>4. \A j \in 1 .. Len(s) - 1 : j <= Len(l) <=> j < i
    BY <1>1, <1>2
  <2> HIDE DEF w
  <2> QED  BY <1>2, <2>1, <2>2, <2>3, <2>4
<1>5. \A j \in 1 .. Len(s) - 1 : w[j] = IF j < i THEN s[j] ELSE s[j + 1]
  <2> SUFFICES ASSUME NEW j \in 1 .. Len(s) - 1
               PROVE  w[j] = IF j < i THEN s[j] ELSE s[j + 1]
    OBVIOUS
  <2>1. CASE j < i
    <3>1. j \in 1 .. i - 1
      BY <2>1, <1>1
    <3> QED  BY <2>1, <3>1, <1>2, <1>4
  <2>2. CASE ~(j < i)
    <3>1. j - (i - 1) \in 1 .. Len(s) - i /\ i + (j - (i - 1)) = j + 1
      BY <2>2, <1>1
    <3> QED  BY <2>2, <3>1, <1>3, <1>4
  <2> QED  BY <2>1, <2>2
<1>6. Without(s, i) = w
  BY DEF Without, l, r
<1> HIDE DEF w
<1>7. NoOrphanTwice(w)
  <2> SUFFICES ASSUME NEW j \in DOMAIN w, NEW k \in DOMAIN w, w[j] = w[k] PROVE j = k
    BY DEF NoOrphanTwice
  <2>1. PICK jj \in DOMAIN s : w[j] = s[jj] /\ jj = IF j < i THEN j ELSE j + 1
    BY <1>1, <1>4, <1>5
  <2>2. PICK kk \in DOMAIN s : w[k] = s[kk] /\ kk = IF k < i THEN k ELSE k + 1
    BY <1>1, <1>4, <1>5
  <2>3. jj = kk
    BY <2>1, <2>2 DEF NoOrphanTwice
  <2> QED  BY <2>1, <2>2, <2>3, <1>1, <1>4
<1>8. ASSUME NEW j \in DOMAIN s, j # i PROVE \E k \in DOMAIN w : w[k] = s[j]
  <2>1. CASE j < i
    <3>1. j \in DOMAIN w /\ w[j] = s[j]
      BY <2>1, <1>1, <1>4, <1>5
    <3> QED  BY <3>1
  <2>2. CASE j > i
    <3>1. j - 1 \in DOMAIN w /\ w[j - 1] = s[j]
      BY <2>2, <1>1, <1>4, <1>5
    <3> QED  BY <3>1
  <2> QED  BY <1>1, <1>8, <2>1, <2>2
<1>9. ASSUME NEW k \in DOMAIN w PROVE \E j \in DOMAIN s : j # i /\ w[k] = s[j]
  <2>1. PICK j \in DOMAIN s : w[k] = s[j] /\ j = IF k < i THEN k ELSE k + 1
    BY <1>1, <1>4, <1>5
  <2> QED  BY <2>1, <1>1, <1>4
<1>10. {w[k] : k \in DOMAIN w} = {s[j] : j \in DOMAIN s} \ {s[i]}
  BY <1>8, <1>9 DEF NoOrphanTwice
<1>11. /\ Without(s, i) \in Seq(Block)
       /\ Len(Without(s, i)) = Len(s) - 1
  BY ONLY <1>4, <1>6
<1>12. NoOrphanTwice(Without(s, i))
  BY ONLY <1>6, <1>7
<1>13. {Without(s, i)[k] : k \in DOMAIN Without(s, i)} = {s[j] : j \in DOMAIN s} \ {s[i]}
  BY ONLY <1>6, <1>10
<1> QED  BY ONLY <1>11, <1>12, <1>13

(* The oldest orphan leaves. *)
LEMMA TailFacts ==
    ASSUME NEW s \in Seq(Block), NoOrphanTwice(s), s # <<>>
    PROVE  /\ Tail(s) \in Seq(Block)
           /\ Len(Tail(s)) = Len(s) - 1
           /\ NoOrphanTwice(Tail(s))
           /\ {Tail(s)[j] : j \in DOMAIN Tail(s)} = {s[j] : j \in DOMAIN s} \ {Head(s)}
<1> DEFINE r == Tail(s)
<1>1. /\ r \in Seq(Block) /\ Len(r) = Len(s) - 1 /\ DOMAIN r = 1 .. Len(s) - 1
      /\ \A j \in 1 .. Len(s) - 1 : r[j] = s[j + 1]
      /\ Len(s) \in Nat \ {0} /\ DOMAIN s = 1 .. Len(s) /\ Head(s) = s[1]
  OBVIOUS
<1> HIDE DEF r
<1>2. NoOrphanTwice(r)
  <2> SUFFICES ASSUME NEW j \in DOMAIN r, NEW k \in DOMAIN r, r[j] = r[k] PROVE j = k
    BY DEF NoOrphanTwice
  <2>1. j + 1 \in DOMAIN s /\ k + 1 \in DOMAIN s /\ s[j + 1] = s[k + 1] /\ j \in Int /\ k \in Int
    BY <1>1
  <2>2. j + 1 = k + 1
    BY <2>1 DEF NoOrphanTwice
  <2> QED  BY <2>1, <2>2
<1>3. ASSUME NEW j \in DOMAIN s, j # 1 PROVE \E k \in DOMAIN r : r[k] = s[j]
  <2>1. j - 1 \in DOMAIN r /\ r[j - 1] = s[j]
    BY <1>1, <1>3
  <2> QED  BY <2>1
<1>4. ASSUME NEW k \in DOMAIN r PROVE \E j \in DOMAIN s : j # 1 /\ r[k] = s[j]
  <2>1. k + 1 \in DOMAIN s /\ k + 1 # 1 /\ r[k] = s[k + 1]
    BY <1>1
  <2> QED  BY <2>1
<1>5. 1 \in DOMAIN s
  BY <1>1
<1>6. {r[k] : k \in DOMAIN r} = {s[j] : j \in DOMAIN s} \ {s[1]}
  BY <1>3, <1>4, <1>5 DEF NoOrphanTwice
<1> QED  BY <1>1, <1>2, <1>6 DEF r

(* A new orphan joins. *)
LEMMA AppendFacts ==
    ASSUME NEW s \in Seq(Block), NoOrphanTwice(s),
           NEW b \in Block, b \notin {s[j] : j \in DOMAIN s}
    PROVE  /\ Append(s, b) \in Seq(Block)
           /\ Len(Append(s, b)) = Len(s) + 1
           /\ NoOrphanTwice(Append(s, b))
           /\ {Append(s, b)[j] : j \in DOMAIN Append(s, b)} = {s[j] : j \in DOMAIN s} \cup {b}
<1> DEFINE n == Append(s, b)
<1>1. /\ n \in Seq(Block) /\ Len(n) = Len(s) + 1 /\ DOMAIN n = 1 .. Len(s) + 1
      /\ \A j \in 1 .. Len(s) : n[j] = s[j]
      /\ n[Len(s) + 1] = b
      /\ DOMAIN s = 1 .. Len(s) /\ Len(s) \in Nat
  OBVIOUS
<1> HIDE DEF n
<1>2. /\ \A j \in DOMAIN n : (j \in DOMAIN s /\ n[j] = s[j]) \/ (j = Len(s) + 1 /\ n[j] = b)
      /\ \A j \in DOMAIN s : j \in DOMAIN n /\ n[j] = s[j]
      /\ Len(s) + 1 \in DOMAIN n
  BY <1>1
<1>3. NoOrphanTwice(n)
  BY <1>2 DEF NoOrphanTwice
<1>4. {n[j] : j \in DOMAIN n} = {s[j] : j \in DOMAIN s} \cup {b}
  BY <1>1, <1>2
<1> QED  BY <1>1, <1>3, <1>4 DEF n
-----------------------------------------------------------------------------
(* Every step preserves ChainInv. *)

(* Connecting a block to the tip leaves a valid chain one block longer. *)
LEMMA ConnectFacts ==
    ASSUME TypeOK, ActiveChainValid, NEW b, Connects(b)
    PROVE  /\ b \in Block /\ b # Genesis /\ Parent[b] = tip
           /\ ChainTo[b] = ChainTo[tip] \cup {b}
           /\ ChainTo[b] \subseteq (stored \cup {b}) \cap Valid
           /\ Height[b] = Height[tip] + 1
<1>1. b \in Block /\ b \in Valid /\ Parent[b] = tip /\ tip \in Block
  BY TreeAssumption DEF Connects, TypeOK
<1>2. b # Genesis
  BY <1>1, TreeAssumption
<1> QED  BY <1>1, <1>2, BlockFacts DEF ActiveChainValid

(* Disconnecting the tip leaves the chain of its parent. *)
LEMMA DisconnectFacts ==
    ASSUME TypeOK, ActiveChainValid, tip # Genesis
    PROVE  /\ Parent[tip] \in Block
           /\ ChainTo[Parent[tip]] \subseteq stored \cap Valid
           /\ Height[Parent[tip]] = Height[tip] - 1
  BY BlockFacts DEF TypeOK, ActiveChainValid

LEMMA InitChainInv == Init => ChainInv
<1> SUFFICES ASSUME Init PROVE ChainInv
  OBVIOUS
<1>1. TypeOK
  BY TreeAssumption DEF Init, TypeOK, PCs, Jobs, NoJob
<1>2. ActiveChainValid
  BY TreeAssumption, ChainAssumption DEF Init, ActiveChainValid
<1>3. OrphanPoolConsistent
  BY ConfigAssumption DEF Init, OrphanPoolConsistent
<1>4. JobInv
  BY DEF Init, JobInv, Running
<1> QED  BY <1>1, <1>2, <1>3, <1>4 DEF ChainInv

LEMMA StepExtendTip ==
    ASSUME ChainInv, NEW b \in Block, ExtendTip(b)
    PROVE  ChainInv'
<1> USE DEF ChainInv
<1>1. /\ Connects(b) /\ tip' = b /\ stored' = stored \cup {b} /\ pc' = "accept"
      /\ job' = [base |-> tip, fork |-> tip, target |-> b, at |-> b, n |-> 0, side |-> FALSE]
      /\ UNCHANGED <<orphanOrder, linked, sideBlocks>>
  BY DEF ExtendTip, memVars
<1>2. /\ b # Genesis /\ Parent[b] = tip /\ tip \in Block
      /\ ChainTo[b] = ChainTo[tip] \cup {b}
      /\ ChainTo[b] \subseteq (stored \cup {b}) \cap Valid
      /\ tip \in ChainTo[tip] /\ b \in ChainTo[b]
  BY <1>1, ConnectFacts, BlockFacts DEF TypeOK
<1>3. TypeOK'
  BY <1>1, <1>2 DEF TypeOK, PCs, Jobs
<1>4. ActiveChainValid'
  BY <1>1, <1>2 DEF ActiveChainValid
<1>5. OrphanPoolConsistent'
  BY <1>1 DEF OrphanPoolConsistent, orphanByHash
<1>6. JobInv'
  BY <1>1, <1>2 DEF JobInv, Running, ActiveChainValid
<1> QED  BY <1>3, <1>4, <1>5, <1>6

LEMMA StepStoreSideBlock ==
    ASSUME ChainInv, NEW b \in Block, StoreSideBlock(b)
    PROVE  ChainInv'
  BY DEF ChainInv, StoreSideBlock, SideBlock, TypeOK, ActiveChainValid,
         OrphanPoolConsistent, orphanByHash, JobInv, Running

LEMMA StepStartReorg ==
    ASSUME ChainInv, NEW b \in Block, StartReorg(b)
    PROVE  ChainInv'
<1> USE DEF ChainInv
<1>1. /\ b \notin stored /\ sideBlocks' = sideBlocks \cup {b}
      /\ job' = [base |-> tip, fork |-> ForkOf(b), target |-> b, at |-> ForkOf(b),
                 n |-> 0, side |-> TRUE]
      /\ pc' = IF ForkOf(b) = tip THEN "attach" ELSE "disconnect"
      /\ UNCHANGED <<stored, tip, orphanOrder, linked>>
  BY DEF StartReorg, SideBlock, Fresh
<1>2. /\ tip \in Block /\ ForkOf(b) \in ChainTo[tip] \cap ChainTo[b] /\ ForkOf(b) # b
      /\ tip \in ChainTo[tip]
  BY <1>1, ForkFacts, BlockFacts DEF TypeOK, ActiveChainValid
<1>3. ForkOf(b) \in Block /\ ForkOf(b) \in ChainTo[ForkOf(b)]
  BY <1>2, BlockFacts
<1>4. TypeOK'
  BY <1>1, <1>2, <1>3 DEF TypeOK, PCs, Jobs
<1>5. ActiveChainValid' /\ OrphanPoolConsistent'
  BY <1>1 DEF ActiveChainValid, OrphanPoolConsistent, orphanByHash
<1>6. JobInv'
  BY <1>1, <1>2, <1>3 DEF JobInv, Running, ActiveChainValid
<1> QED  BY <1>4, <1>5, <1>6

LEMMA StepAddOrphan ==
    ASSUME ChainInv, NEW b \in Block, AddOrphan(b)
    PROVE  ChainInv'
<1> USE DEF ChainInv
<1> DEFINE full == Len(orphanOrder) >= MaxOrphanBlocks
           rest == IF full THEN Tail(orphanOrder) ELSE orphanOrder
           kept == IF full THEN orphanByHash \ {Head(orphanOrder)} ELSE orphanByHash
<1>1. /\ b \notin orphanByHash
      /\ orphanOrder' = Append(rest, b)
      /\ linked' = (IF full THEN linked \ {Head(orphanOrder)} ELSE linked) \cup {b}
      /\ UNCHANGED <<stored, tip, sideBlocks, pc, job>>
  BY DEF AddOrphan, Fresh
<1>2. /\ orphanOrder \in Seq(Block) /\ NoOrphanTwice(orphanOrder)
      /\ Len(orphanOrder) <= MaxOrphanBlocks /\ Len(orphanOrder) \in Nat
      /\ linked \subseteq orphanByHash
      /\ MaxOrphanBlocks \in Nat \ {0}
  BY ConfigAssumption DEF TypeOK, OrphanPoolConsistent, NoOrphanTwice
<1>3. /\ rest \in Seq(Block) /\ NoOrphanTwice(rest) /\ Len(rest) < MaxOrphanBlocks
      /\ Len(rest) \in Nat
      /\ {rest[j] : j \in DOMAIN rest} = kept
  <2>1. CASE full
    <3>1. orphanOrder # <<>>
      BY <2>1, <1>2
    <3>2. /\ Tail(orphanOrder) \in Seq(Block) /\ NoOrphanTwice(Tail(orphanOrder))
          /\ Len(Tail(orphanOrder)) = Len(orphanOrder) - 1
          /\ {Tail(orphanOrder)[j] : j \in DOMAIN Tail(orphanOrder)}
               = orphanByHash \ {Head(orphanOrder)}
      BY <3>1, <1>2, TailFacts DEF orphanByHash
    <3>3. Len(Tail(orphanOrder)) < MaxOrphanBlocks /\ Len(Tail(orphanOrder)) \in Nat
      BY <3>2, <1>2
    <3>4. rest = Tail(orphanOrder) /\ kept = orphanByHash \ {Head(orphanOrder)}
      BY <2>1
    <3> HIDE DEF rest, kept
    <3> QED  BY <3>2, <3>3, <3>4
  <2>2. CASE ~full
    BY <2>2, <1>2 DEF orphanByHash
  <2> QED  BY <2>1, <2>2
<1>4. b \notin kept
  BY <1>1
<1>5. linked' \subseteq kept \cup {b}
  BY <1>1, <1>2
<1> HIDE DEF rest, kept
<1>6. /\ orphanOrder' \in Seq(Block) /\ Len(orphanOrder') <= MaxOrphanBlocks
      /\ NoOrphanTwice(orphanOrder') /\ orphanByHash' = kept \cup {b}
  <2>1. b \in Block /\ b \notin {rest[j] : j \in DOMAIN rest} /\ MaxOrphanBlocks \in Nat
    BY <1>2, <1>3, <1>4
  <2>2. /\ Append(rest, b) \in Seq(Block) /\ Len(Append(rest, b)) = Len(rest) + 1
        /\ NoOrphanTwice(Append(rest, b))
        /\ {Append(rest, b)[j] : j \in DOMAIN Append(rest, b)} = {rest[j] : j \in DOMAIN rest} \cup {b}
    BY ONLY <1>3, <2>1, AppendFacts
  <2>3. orphanByHash' = {orphanOrder'[j] : j \in DOMAIN orphanOrder'}
    BY DEF orphanByHash
  <2> QED  BY ONLY <1>1, <1>3, <2>1, <2>2, <2>3
<1>7. TypeOK'
  BY <1>1, <1>6 DEF TypeOK
<1>8. OrphanPoolConsistent'
  BY <1>5, <1>6 DEF OrphanPoolConsistent, NoOrphanTwice
<1>9. ActiveChainValid' /\ JobInv'
  BY <1>1 DEF ActiveChainValid, JobInv, Running
<1> QED  BY <1>7, <1>8, <1>9

LEMMA StepReorgDisconnect ==
    ASSUME ChainInv, ReorgDisconnect
    PROVE  ChainInv'
<1> USE DEF ChainInv
<1>1. /\ pc = "disconnect" /\ tip' = Parent[tip]
      /\ pc' = IF Parent[tip] = job.fork THEN "attach" ELSE "disconnect"
      /\ UNCHANGED <<stored, orphanOrder, linked, sideBlocks, job>>
  BY DEF ReorgDisconnect, memVars
<1>2. job.fork \in ChainTo[tip] /\ job.fork # tip /\ tip \in Block /\ job.at = job.fork
  BY <1>1 DEF JobInv, TypeOK
<1>3. tip # Genesis /\ job.fork \in ChainTo[Parent[tip]]
  BY <1>2, BelowFacts
<1>4. Parent[tip] \in Block /\ ChainTo[Parent[tip]] \subseteq stored \cap Valid
  BY <1>3, DisconnectFacts
<1>5. TypeOK'
  BY <1>1, <1>4 DEF TypeOK, PCs
<1>6. ActiveChainValid' /\ OrphanPoolConsistent'
  BY <1>1, <1>4 DEF ActiveChainValid, OrphanPoolConsistent, orphanByHash
<1>7. JobInv'
  BY <1>1, <1>2, <1>3 DEF JobInv, Running
<1> QED  BY <1>5, <1>6, <1>7

LEMMA StepReorgAttach ==
    ASSUME ChainInv, ReorgAttach
    PROVE  ChainInv'
<1> USE DEF ChainInv
<1> DEFINE b == NextOn(job.target, job.at)
<1>1. /\ pc = "attach" /\ Connects(b) /\ tip' = b /\ stored' = stored \cup {b}
      /\ job' = [job EXCEPT !.at = b] /\ pc' = "accept"
      /\ UNCHANGED <<orphanOrder, linked, sideBlocks>>
  BY DEF ReorgAttach, memVars
<1>2. /\ b \in Block /\ b # Genesis /\ Parent[b] = tip
      /\ ChainTo[b] \subseteq (stored \cup {b}) \cap Valid
      /\ b \in ChainTo[b]
  BY <1>1, ConnectFacts, BlockFacts
<1>3. b \in ChainTo[job.target] /\ Parent[b] = job.at
  BY <1>1, NextFacts DEF JobInv, Running
<1> HIDE DEF b
<1>4. ChainTo[b] = ChainTo[job.at] \cup {b}
  BY <1>2, <1>3, BlockFacts
<1>5. TypeOK'
  BY <1>1, <1>2 DEF TypeOK, PCs, Jobs
<1>6. ActiveChainValid' /\ OrphanPoolConsistent'
  BY <1>1, <1>2 DEF ActiveChainValid, OrphanPoolConsistent, orphanByHash
<1>7. /\ job'.base = job.base /\ job'.fork = job.fork /\ job'.target = job.target
      /\ job'.at = b
  BY <1>1 DEF TypeOK, Jobs
<1>8. JobInv'
  BY <1>1, <1>2, <1>3, <1>4, <1>7 DEF JobInv, Running
<1> QED  BY <1>5, <1>6, <1>8

LEMMA StepReorgAttachFails ==
    ASSUME ChainInv, ReorgAttachFails
    PROVE  ChainInv'
<1> USE DEF ChainInv
<1>1. /\ pc = "attach" /\ job' = [job EXCEPT !.n = Height[job.at] - Height[job.fork]]
      /\ pc' = "rollback"
      /\ UNCHANGED <<stored, tip, orphanOrder, linked, sideBlocks>>
  BY DEF ReorgAttachFails, memVars
<1>2. /\ job.at \in Block /\ job.at \in ChainTo[tip] /\ job.fork \in ChainTo[job.at]
      /\ tip \in Block /\ job.fork \in Block
  BY <1>1, BlockFacts DEF JobInv, Running, TypeOK
<1>3. /\ Height[job.fork] <= Height[job.at] /\ Height[job.at] <= Height[tip]
      /\ Height[job.fork] \in Nat /\ Height[job.at] \in Nat /\ Height[tip] \in Nat
  BY <1>2, BlockFacts, BelowFacts
<1>4. TypeOK'
  <2>1. Height[job.at] - Height[job.fork] \in Nat
    BY ONLY <1>3
  <2>2. job' \in Jobs
    BY <1>1, <2>1 DEF TypeOK, Jobs
  <2> QED  BY <1>1, <2>2 DEF TypeOK, PCs
<1>5. ActiveChainValid' /\ OrphanPoolConsistent'
  BY <1>1 DEF ActiveChainValid, OrphanPoolConsistent, orphanByHash
<1>6. /\ job'.base = job.base /\ job'.fork = job.fork /\ job'.target = job.target
      /\ job'.at = job.at /\ job'.n = Height[job.at] - Height[job.fork]
  BY <1>1 DEF TypeOK, Jobs
<1>7. JobInv'
  BY <1>1, <1>3, <1>6 DEF JobInv, Running
<1> QED  BY <1>4, <1>5, <1>7

LEMMA StepReorgRollback ==
    ASSUME ChainInv, ReorgRollback
    PROVE  ChainInv'
<1> USE DEF ChainInv
<1>1. /\ pc = "rollback" /\ job.n > 0 /\ tip' = Parent[tip]
      /\ job' = [job EXCEPT !.n = job.n - 1]
      /\ UNCHANGED <<stored, orphanOrder, linked, sideBlocks, pc>>
  BY DEF ReorgRollback, memVars
<1>2. job.n \in Nat /\ tip \in Block /\ job.fork \in Block
  BY <1>1, BlockFacts DEF TypeOK, Jobs, JobInv, Running
<1>3. job.n <= Height[tip] - Height[job.fork] /\ Height[tip] \in Nat /\ Height[job.fork] \in Nat
  BY <1>1, <1>2, BlockFacts DEF JobInv
<1>4. tip # Genesis
  BY <1>1, <1>2, <1>3, BlockFacts
<1>5. /\ Parent[tip] \in Block /\ ChainTo[Parent[tip]] \subseteq stored \cap Valid
      /\ Height[Parent[tip]] = Height[tip] - 1
  BY <1>4, DisconnectFacts
<1>6. TypeOK'
  BY <1>1, <1>2, <1>5 DEF TypeOK, PCs, Jobs
<1>7. ActiveChainValid' /\ OrphanPoolConsistent'
  BY <1>1, <1>5 DEF ActiveChainValid, OrphanPoolConsistent, orphanByHash
<1>8. /\ job'.base = job.base /\ job'.fork = job.fork /\ job'.target = job.target
      /\ job'.at = job.at /\ job'.n = job.n - 1
  BY <1>1 DEF TypeOK, Jobs
<1>9. job'.n <= Height[tip'] - Height[job'.fork]
  BY <1>1, <1>2, <1>3, <1>5, <1>8
<1>10. JobInv'
  BY <1>1, <1>8, <1>9 DEF JobInv, Running
<1> QED  BY <1>6, <1>7, <1>10

LEMMA StepReorgRolledBack ==
    ASSUME ChainInv, ReorgRolledBack
    PROVE  ChainInv'
<1> USE DEF ChainInv
<1>1. pc = "rollback" /\ UNCHANGED <<stored, tip, orphanOrder, linked, sideBlocks>>
  BY DEF ReorgRolledBack, memVars
<1>2. ActiveChainValid' /\ OrphanPoolConsistent'
  BY <1>1 DEF ActiveChainValid, OrphanPoolConsistent, orphanByHash
<1>3. CASE pc' = "idle" /\ job' = NoJob
  BY <1>1, <1>2, <1>3 DEF TypeOK, PCs, Jobs, NoJob, JobInv, Running
<1>4. CASE pc' = "restore" /\ job' = [job EXCEPT !.at = job.fork]
  <2>1. job.fork \in Block /\ job.fork \in ChainTo[job.fork] /\ job.fork \in ChainTo[job.base]
    BY <1>1, BlockFacts DEF JobInv, Running
  <2>2. /\ job'.base = job.base /\ job'.fork = job.fork /\ job'.target = job.target
        /\ job'.at = job.fork
    BY <1>4 DEF TypeOK, Jobs
  <2>3. TypeOK'
    BY <1>1, <1>4, <2>1 DEF TypeOK, PCs, Jobs
  <2>4. JobInv'
    BY <1>1, <1>4, <2>1, <2>2 DEF JobInv, Running
  <2> QED  BY <1>2, <2>3, <2>4
<1> QED  BY <1>3, <1>4 DEF ReorgRolledBack

LEMMA StepReorgRestore ==
    ASSUME ChainInv, ReorgRestore
    PROVE  ChainInv'
<1> USE DEF ChainInv
<1> DEFINE b == NextOn(job.base, job.at)
<1>1. /\ pc = "restore" /\ job.at # job.base /\ Connects(b) /\ tip' = b
      /\ job' = [job EXCEPT !.at = b]
      /\ UNCHANGED <<stored, orphanOrder, linked, sideBlocks, pc>>
  BY DEF ReorgRestore, memVars
<1>2. b \in Block /\ b # Genesis /\ ChainTo[b] \subseteq (stored \cup {b}) \cap Valid
  BY <1>1, ConnectFacts
<1>3. b \in ChainTo[job.base] /\ Parent[b] = job.at
  BY <1>1, NextFacts DEF JobInv, Running
<1> HIDE DEF b
<1>4. b \in stored /\ job.fork \in ChainTo[b]
  BY <1>1, <1>2, <1>3, BlockFacts DEF JobInv, Running
<1>5. TypeOK'
  BY <1>1, <1>2 DEF TypeOK, PCs, Jobs
<1>6. ActiveChainValid' /\ OrphanPoolConsistent'
  BY <1>1, <1>2, <1>4 DEF ActiveChainValid, OrphanPoolConsistent, orphanByHash
<1>7. /\ job'.base = job.base /\ job'.fork = job.fork /\ job'.target = job.target
      /\ job'.at = b
  BY <1>1 DEF TypeOK, Jobs
<1>8. JobInv'
  BY <1>1, <1>2, <1>3, <1>4, <1>7 DEF JobInv, Running
<1> QED  BY <1>5, <1>6, <1>8

LEMMA StepAcceptOrphan ==
    ASSUME ChainInv, AcceptOrphan
    PROVE  ChainInv'
<1> USE DEF ChainInv
<1>1. PICK i \in DOMAIN orphanOrder :
        /\ Connects(orphanOrder[i])
        /\ tip' = orphanOrder[i]
        /\ stored' = stored \cup {orphanOrder[i]}
        /\ orphanOrder' = Without(orphanOrder, i)
        /\ sideBlocks' = sideBlocks \ {orphanOrder[i]}
  BY DEF AcceptOrphan, Acceptable
<1> DEFINE b == orphanOrder[i]
<1>2. pc = "accept" /\ linked' = linked \ Children(tip) /\ UNCHANGED <<pc, job>>
  BY DEF AcceptOrphan
<1>3. /\ b \in Block /\ Parent[b] = tip
      /\ ChainTo[b] = ChainTo[tip] \cup {b}
      /\ ChainTo[b] \subseteq (stored \cup {b}) \cap Valid
  BY <1>1, ConnectFacts
<1>4. /\ orphanOrder' \in Seq(Block)
      /\ Len(orphanOrder') = Len(orphanOrder) - 1
      /\ NoOrphanTwice(orphanOrder')
      /\ orphanByHash' = orphanByHash \ {b}
  <2>1. orphanOrder \in Seq(Block) /\ NoOrphanTwice(orphanOrder)
    BY DEF TypeOK, OrphanPoolConsistent, NoOrphanTwice
  <2> QED  BY <1>1, <2>1, WithoutFacts DEF orphanByHash
<1>5. b \in Children(tip)
  BY <1>3 DEF Children
<1>6. TypeOK'
  BY <1>1, <1>2, <1>3, <1>4 DEF TypeOK
<1>7. ActiveChainValid'
  BY <1>1, <1>3 DEF ActiveChainValid
<1>8. OrphanPoolConsistent'
  <2>1. Len(orphanOrder') <= MaxOrphanBlocks
    BY <1>4, ConfigAssumption DEF OrphanPoolConsistent, TypeOK
  <2>2. linked' \subseteq orphanByHash'
    BY <1>2, <1>4, <1>5 DEF OrphanPoolConsistent
  <2> QED  BY <1>4, <2>1, <2>2 DEF OrphanPoolConsistent, NoOrphanTwice
<1>9. JobInv'
  BY <1>1, <1>2, <1>3 DEF JobInv, Running
<1> QED  BY <1>6, <1>7, <1>8, <1>9

LEMMA StepAcceptDone ==
    ASSUME ChainInv, AcceptDone
    PROVE  ChainInv'
<1> USE DEF ChainInv
<1>1. /\ pc = "accept" /\ linked' = linked \ Children(tip)
      /\ UNCHANGED <<stored, tip, orphanOrder>>
  BY DEF AcceptDone
<1>2. ActiveChainValid' /\ OrphanPoolConsistent'
  BY <1>1 DEF ActiveChainValid, OrphanPoolConsistent, orphanByHash
<1>3. CASE job.at # job.target /\ pc' = "attach" /\ UNCHANGED <<sideBlocks, job>>
  BY <1>1, <1>2, <1>3 DEF TypeOK, PCs, JobInv, Running
<1>4. CASE pc' = "idle" /\ job' = NoJob /\ sideBlocks' \subseteq Block
  BY <1>1, <1>2, <1>4 DEF TypeOK, PCs, Jobs, NoJob, JobInv, Running
<1>5. CASE /\ pc' = "idle" /\ job' = NoJob
           /\ sideBlocks' = Pruned(IF job.side
                                   THEN sideBlocks \ (ChainTo[job.target] \ ChainTo[job.fork])
                                   ELSE sideBlocks, tip)
  <2>1. sideBlocks' \subseteq sideBlocks
    BY <1>5 DEF Pruned
  <2> QED  BY <1>4, <1>5, <2>1 DEF TypeOK
<1> QED  BY <1>3, <1>5 DEF AcceptDone

(* A block found by the miner, a manual disconnection, a restart: between calls. *)
LEMMA StepBetweenCalls ==
    ASSUME ChainInv,
           \/ \E b \in Block : ConnectBlock(b)
           \/ DisconnectTip \/ Crash \/ Restart \/ ReorgRestoreEnds \/ UNCHANGED vars
    PROVE  ChainInv'
<1> USE DEF ChainInv
<1>1. ASSUME NEW b \in Block, ConnectBlock(b) PROVE ChainInv'
  <2>1. /\ pc = "idle" /\ Connects(b) /\ tip' = b /\ stored' = stored \cup {b}
        /\ UNCHANGED <<orphanOrder, linked, sideBlocks, pc, job>>
    BY <1>1 DEF ConnectBlock, memVars
  <2>2. ChainTo[b] \subseteq (stored \cup {b}) \cap Valid
    BY <2>1, ConnectFacts
  <2> QED  BY <2>1, <2>2 DEF TypeOK, ActiveChainValid, OrphanPoolConsistent, orphanByHash,
                            JobInv, Running
<1>2. CASE DisconnectTip
  <2>1. /\ pc = "idle" /\ Height[tip] > 0 /\ tip' = Parent[tip]
        /\ UNCHANGED <<stored, orphanOrder, linked, sideBlocks, pc, job>>
    BY <1>2 DEF DisconnectTip, memVars
  <2>2. tip # Genesis
    BY <2>1, TreeAssumption
  <2> QED  BY <2>1, <2>2, DisconnectFacts DEF TypeOK, ActiveChainValid, OrphanPoolConsistent,
                                             orphanByHash, JobInv, Running
<1>3. CASE Crash
  BY <1>3, ConfigAssumption DEF Crash, TypeOK, PCs, Jobs, NoJob, ActiveChainValid,
     OrphanPoolConsistent, orphanByHash, JobInv, Running
<1>4. CASE Restart
  BY <1>4 DEF Restart, memVars, TypeOK, PCs, ActiveChainValid, OrphanPoolConsistent,
     orphanByHash, JobInv, Running
<1>5. CASE ReorgRestoreEnds
  BY <1>5 DEF ReorgRestoreEnds, memVars, TypeOK, PCs, Jobs, NoJob, ActiveChainValid,
     OrphanPoolConsistent, orphanByHash, JobInv, Running
<1>6. CASE UNCHANGED vars
  BY <1>6 DEF vars, TypeOK, ActiveChainValid, OrphanPoolConsistent, orphanByHash, JobInv, Running
<1> QED  BY <1>1, <1>2, <1>3, <1>4, <1>5, <1>6

LEMMA StepChainInv == ChainInv /\ [Next]_vars => ChainInv'
  BY StepExtendTip, StepStoreSideBlock, StepStartReorg, StepAddOrphan, StepReorgDisconnect,
     StepReorgAttach, StepReorgAttachFails, StepReorgRollback, StepReorgRolledBack,
     StepReorgRestore, StepAcceptOrphan, StepAcceptDone, StepBetweenCalls
     DEF Next, ProcessBlock, Advance

(* The invariant of block processing, whatever the order of delivery. *)
THEOREM ChainSafe == Spec => []ChainInv
  BY InitChainInv, StepChainInv, PTL DEF Spec

(* Type correctness: no rollback goes below genesis or counts below zero.  *)
THEOREM TypeCorrect == Spec => []TypeOK
  BY ChainSafe, PTL DEF ChainInv

(* The active chain is made of valid blocks that can be loaded at every    *)
(* instant of a reorganisation, of its rollback and of the restore, after  *)
(* a crash in any of them and whatever orphans were accepted meanwhile.    *)
THEOREM ActiveChainAlwaysValid == Spec => []ActiveChainValid
  BY ChainSafe, PTL DEF ChainInv

(* No orphan is kept twice, no more than MaxOrphanBlocks are, and every    *)
(* child that acceptOrphanChildrenLocked may look up is in the pool.       *)
THEOREM OrphanPoolAlwaysConsistent == Spec => []OrphanPoolConsistent
  BY ChainSafe, PTL DEF ChainInv
-----------------------------------------------------------------------------
(* Parents before their children *)

ParentsFirst == "outoforder" \notin Environment

(* No orphan is ever kept, so nothing but the call moves the tip: the      *)
(* block it has reached is the tip, and a rollback ends at the fork.       *)
OrderInv ==
    /\ orphanOrder = <<>>
    /\ Running => ChainTo[job.base] \subseteq Valid /\ Work[job.target] > Work[job.base]
    /\ pc \in {"attach", "accept", "restore"} => tip = job.at
    /\ pc = "rollback" => job.fork \in ChainTo[tip] /\ job.n = Height[tip] - Height[job.fork]

(* Once a branch has failed, the next block of the chain the call began on *)
(* can always be connected again.                                          *)
LEMMA RestoreFacts ==
    ASSUME ChainInv, OrderInv, pc = "restore", job.at # job.base
    PROVE  Connects(NextOn(job.base, job.at))
<1>1. /\ job.base \in Block /\ job.at \in ChainTo[job.base] /\ job.at = tip
      /\ ChainTo[job.base] \subseteq Valid
  BY DEF ChainInv, JobInv, OrderInv, Running
<1> QED  BY <1>1, NextFacts DEF Connects

LEMMA InitOrderInv == Init => OrderInv
  BY DEF Init, OrderInv, Running

LEMMA StepOrderInv ==
    ASSUME ParentsFirst, ChainInv, OrderInv, [Next]_vars
    PROVE  OrderInv'
<1>1. ASSUME NEW b \in Block, ExtendTip(b) PROVE OrderInv'
  <2>1. Connects(b) /\ b # Genesis /\ Parent[b] = tip /\ Work[b] > Work[tip]
    BY <1>1, ConnectFacts, TreeAssumption DEF ExtendTip, ChainInv
  <2> QED  BY <1>1, <2>1 DEF ExtendTip, memVars, OrderInv, Running, ChainInv, ActiveChainValid
<1>2. ASSUME NEW b \in Block, StoreSideBlock(b) PROVE OrderInv'
  BY <1>2 DEF StoreSideBlock, OrderInv, Running
<1>3. ASSUME NEW b \in Block, StartReorg(b) PROVE OrderInv'
  BY <1>3 DEF StartReorg, SideBlock, OrderInv, Running, ChainInv, ActiveChainValid
<1>4. ASSUME NEW b \in Block, AddOrphan(b) PROVE OrderInv'
  BY <1>4 DEF AddOrphan, Fresh, ParentsFirst
<1>5. CASE ReorgDisconnect
  BY <1>5 DEF ReorgDisconnect, memVars, OrderInv, Running, ChainInv, JobInv
<1>6. CASE ReorgAttach
  <2>1. /\ job'.base = job.base /\ job'.target = job.target
        /\ job'.at = NextOn(job.target, job.at)
    BY <1>6 DEF ReorgAttach, ChainInv, TypeOK, Jobs
  <2> QED  BY <1>6, <2>1 DEF ReorgAttach, memVars, OrderInv, Running
<1>7. CASE ReorgAttachFails
  <2>1. /\ job'.base = job.base /\ job'.target = job.target /\ job'.fork = job.fork
        /\ job'.n = Height[job.at] - Height[job.fork]
    BY <1>7 DEF ReorgAttachFails, ChainInv, TypeOK, Jobs
  <2>2. job.fork \in ChainTo[job.at]
    BY <1>7 DEF ReorgAttachFails, ChainInv, JobInv, Running
  <2> QED  BY <1>7, <2>1, <2>2 DEF ReorgAttachFails, memVars, OrderInv, Running
<1>8. CASE ReorgRollback
  <2>1. /\ job'.base = job.base /\ job'.target = job.target /\ job'.fork = job.fork
        /\ job'.n = job.n - 1
    BY <1>8 DEF ReorgRollback, ChainInv, TypeOK, Jobs
  <2>2. /\ pc = "rollback" /\ job.n > 0 /\ job.fork \in ChainTo[tip]
        /\ job.n = Height[tip] - Height[job.fork] /\ tip \in Block
    BY <1>8 DEF ReorgRollback, OrderInv, ChainInv, TypeOK
  <2>3. Height[tip] \in Nat
    BY <2>2, BlockFacts
  <2>4. job.fork # tip
    BY <2>2, <2>3
  <2>5. tip # Genesis /\ job.fork \in ChainTo[Parent[tip]]
    BY <2>2, <2>4, BelowFacts
  <2>6. Height[Parent[tip]] = Height[tip] - 1 /\ job.fork \in Block
    BY <2>2, <2>5, DisconnectFacts, BlockFacts DEF ChainInv
  <2>7. job'.n = Height[Parent[tip]] - Height[job.fork]
    BY <2>1, <2>2, <2>3, <2>6, BlockFacts
  <2> QED  BY <1>8, <2>1, <2>5, <2>7 DEF ReorgRollback, memVars, OrderInv, Running
<1>9. CASE ReorgRolledBack
  <2>1. tip = job.fork
    <3>1. /\ job.fork \in ChainTo[tip] /\ Height[tip] - Height[job.fork] = 0 /\ tip \in Block
      BY <1>9 DEF ReorgRolledBack, OrderInv, ChainInv, TypeOK
    <3>2. job.fork \in Block
      BY <3>1, BlockFacts
    <3>3. Height[tip] \in Nat /\ Height[job.fork] \in Nat
      BY <3>1, <3>2, BlockFacts
    <3> QED  BY <3>1, <3>3, BelowFacts
  <2>2. CASE pc' = "idle"
    BY <1>9, <2>2 DEF ReorgRolledBack, memVars, OrderInv, Running
  <2>3. CASE pc' = "restore" /\ job' = [job EXCEPT !.at = job.fork]
    <3>1. job'.base = job.base /\ job'.target = job.target /\ job'.at = job.fork
      BY <2>3 DEF ChainInv, TypeOK, Jobs
    <3> QED  BY <1>9, <2>1, <2>3, <3>1 DEF ReorgRolledBack, memVars, OrderInv, Running
  <2> QED  BY <1>9, <2>2, <2>3 DEF ReorgRolledBack
<1>10. CASE ReorgRestore
  <2>1. /\ job'.base = job.base /\ job'.target = job.target
        /\ job'.at = NextOn(job.base, job.at)
    BY <1>10 DEF ReorgRestore, ChainInv, TypeOK, Jobs
  <2> QED  BY <1>10, <2>1 DEF ReorgRestore, memVars, OrderInv, Running
<1>11. CASE ReorgRestoreEnds
  BY <1>11 DEF ReorgRestoreEnds, memVars, OrderInv, Running
<1>12. CASE AcceptOrphan
  BY <1>12 DEF AcceptOrphan, Acceptable, OrderInv
<1>13. CASE AcceptDone
  BY <1>13 DEF AcceptDone, OrderInv, Running
<1>14. ASSUME NEW b \in Block, ConnectBlock(b) PROVE OrderInv'
  BY <1>14 DEF ConnectBlock, memVars, OrderInv, Running
<1>15. CASE DisconnectTip \/ Crash \/ Restart \/ UNCHANGED vars
  BY <1>15 DEF DisconnectTip, Crash, Restart, memVars, vars, OrderInv, Running
<1> QED  BY <1>1, <1>2, <1>3, <1>4, <1>5, <1>6, <1>7, <1>8, <1>9, <1>10, <1>11, <1>12,
            <1>13, <1>14, <1>15 DEF Next, ProcessBlock, Advance

LEMMA StepEndsWhole ==
    ASSUME ParentsFirst, ChainInv, OrderInv, [Next]_vars
    PROVE  CallEndsWhole
<1> SUFFICES ASSUME Running, pc' = "idle"
             PROVE  \/ tip' = job.base
                    \/ job.target \in ChainTo[tip'] /\ Work[tip'] > Work[job.base]
  BY DEF CallEndsWhole, Running
<1>1. ReorgRolledBack \/ ReorgRestoreEnds \/ AcceptDone
  BY DEF Next, ProcessBlock, Advance, ExtendTip, StoreSideBlock, SideBlock, StartReorg, AddOrphan,
         Fresh, ReorgDisconnect, ReorgAttach, ReorgAttachFails, ReorgRollback, ReorgRestore,
         AcceptOrphan, ConnectBlock, DisconnectTip, Crash, Restart, vars, Running
<1>2. CASE ReorgRolledBack
  <2>1. /\ job.fork \in ChainTo[tip] /\ Height[tip] - Height[job.fork] = 0 /\ tip \in Block
        /\ job.base = job.fork /\ tip' = tip
    BY <1>2 DEF ReorgRolledBack, OrderInv, ChainInv, TypeOK
  <2>2. job.fork \in Block
    BY <2>1, BlockFacts
  <2>3. Height[tip] \in Nat /\ Height[job.fork] \in Nat
    BY <2>1, <2>2, BlockFacts
  <2> QED  BY <2>1, <2>3, BelowFacts
<1>3. CASE ReorgRestoreEnds
  BY <1>3, RestoreFacts DEF ReorgRestoreEnds, OrderInv
<1>4. CASE AcceptDone
  <2>1. tip' = tip /\ tip = job.target /\ job.target \in Block /\ Work[job.target] > Work[job.base]
    BY <1>4 DEF AcceptDone, OrderInv, ChainInv, JobInv, Running
  <2> QED  BY <2>1, BlockFacts
<1> QED  BY <1>1, <1>2, <1>3, <1>4

(* If parents are delivered before their children, every call that begins  *)
(* to change the chain ends with its branch active, and more work than     *)
(* before, or with the tip it began with: no failure in the middle of a    *)
(* reorganisation leaves a shorter chain behind.                           *)
THEOREM CallsEndWhole ==
    ASSUME ParentsFirst
    PROVE  Spec => [][CallEndsWhole]_vars
<1>1. ChainInv /\ OrderInv /\ [Next]_vars => OrderInv'
  BY StepOrderInv
<1>2. ChainInv /\ OrderInv /\ [Next]_vars => [CallEndsWhole]_vars
  BY StepEndsWhole
<1> QED  BY <1>1, <1>2, InitOrderInv, ChainSafe, PTL DEF Spec
-----------------------------------------------------------------------------
(* Side branches *)

NeverTakenBack == "disconnecttip" \notin Environment

(* No two blocks are so far apart that pruneSideBlocksLocked drops a block *)
(* of one's branch while the other is the tip.                             *)
ForksAreShallow ==
    \A b, t \in Block : \A c \in ChainTo[b] \ ChainTo[t] : Height[c] >= Height[t] - MaxSideChainDepth

Reorganising == Running /\ job.side

(* The tip a side block is compared with: during a reorganisation, the one *)
(* it began on, which comes back if it fails.                              *)
Reference == IF Reorganising THEN job.base ELSE tip

ParentsKnown == \A c \in sideBlocks : c # Genesis /\ Parent[c] \in sideBlocks \cup stored

(* c's branch, seen from r, could be attached. *)
Competes(c, r) == ChainTo[c] \ ChainTo[r] \subseteq sideBlocks /\ ChainTo[c] \subseteq Valid

Outweighed ==
    \A c \in sideBlocks :
        \/ Reorganising /\ c = job.target
        \/ Competes(c, Reference) => Work[c] <= Work[Reference]

(* Only a reorganisation goes back, and only because its branch is invalid. *)
SideInv ==
    /\ ParentsKnown /\ Outweighed
    /\ Running /\ ~job.side => pc = "accept" /\ job.at = job.target
    /\ Reorganising => ChainTo[job.target] \ ChainTo[job.base] \subseteq sideBlocks
    /\ pc \in {"rollback", "restore"} => job.side /\ ~(ChainTo[job.target] \subseteq Valid)

(* A block on a branch of side blocks is a side block or was stored before. *)
LEMMA OnSideBranch ==
    ASSUME ParentsKnown, NEW r \in Block, NEW c \in sideBlocks, c \in Block,
           NEW b \in ChainTo[c], b \notin ChainTo[r],
           ChainTo[c] \ ChainTo[r] \subseteq sideBlocks \cup {b}
    PROVE  b \in sideBlocks \cup stored
<1>1. CASE b = c
  BY <1>1
<1>2. CASE b # c
  <2> DEFINE d == NextOn(c, b)
  <2>1. d \in ChainTo[c] /\ Parent[d] = b
    BY <1>2, NextFacts
  <2> HIDE DEF d
  <2>2. d \in Block /\ b \in Block
    BY <2>1, BlockFacts
  <2>3. d # Genesis
    BY <2>1, <2>2, TreeAssumption
  <2>4. b \in ChainTo[d] /\ Height[d] = Height[b] + 1 /\ Height[b] \in Nat
    BY <2>1, <2>2, <2>3, BlockFacts
  <2>5. d \notin ChainTo[r]
    BY <2>4, BelowFacts
  <2>6. d # b
    BY <2>4
  <2> QED  BY <2>1, <2>5, <2>6 DEF ParentsKnown
<1> QED  BY <1>1, <1>2

(* A block that was never stored is connected to the tip. *)
LEMMA OutweighedByChild ==
    ASSUME ChainInv, SideInv, pc = "idle", NEW b \in Block, Connects(b), b \notin stored
    PROVE  \A c \in sideBlocks : Competes(c, b) => Work[c] <= Work[b]
<1>1. /\ tip \in Block /\ sideBlocks \subseteq Block /\ b # Genesis /\ Parent[b] = tip
      /\ ChainTo[b] = ChainTo[tip] \cup {b} /\ b \in ChainTo[b]
      /\ Height[b] = Height[tip] + 1 /\ Height[tip] \in Nat
  BY ConnectFacts, BlockFacts DEF ChainInv, TypeOK
<1>2. Work[b] > Work[tip] /\ Work \in [Block -> Nat]
  BY <1>1, TreeAssumption
<1>3. \A c \in sideBlocks : Competes(c, tip) => Work[c] <= Work[tip]
  BY DEF SideInv, Outweighed, Reference, Reorganising, Running
<1>4. ChainTo[b] \subseteq Valid
  BY ConnectFacts DEF ChainInv, TypeOK
<1>5. b \notin sideBlocks
  <2>1. ASSUME b \in sideBlocks PROVE FALSE
    <3>1. Competes(b, tip)
      BY <1>1, <1>4, <2>1 DEF Competes
    <3> QED  BY <1>2, <1>3, <2>1, <3>1, <1>1
  <2> QED  BY <2>1
<1> SUFFICES ASSUME NEW c \in sideBlocks, Competes(c, b) PROVE Work[c] <= Work[b]
  OBVIOUS
<1>6. c \in Block /\ ChainTo[c] \ ChainTo[tip] \subseteq sideBlocks \cup {b}
  BY <1>1 DEF Competes
<1>7. b \notin ChainTo[tip]
  BY <1>1, BelowFacts
<1>8. b \notin ChainTo[c]
  BY <1>1, <1>5, <1>6, <1>7, OnSideBranch DEF SideInv
<1>9. Competes(c, tip)
  BY <1>1, <1>8 DEF Competes
<1> QED  BY <1>2, <1>3, <1>6, <1>9, <1>1

(* A new side block gives no older one a branch it did not have. *)
LEMMA SameBranches ==
    ASSUME ParentsKnown, tip \in Block, sideBlocks \subseteq Block,
           NEW b \in Block, b \notin stored, ChainTo[tip] \subseteq stored,
           NEW c \in sideBlocks, ChainTo[c] \ ChainTo[tip] \subseteq sideBlocks \cup {b}
    PROVE  ChainTo[c] \ ChainTo[tip] \subseteq sideBlocks
<1>1. CASE b \in ChainTo[c]
  <2>1. b \notin ChainTo[tip]
    OBVIOUS
  <2> QED  BY <1>1, <2>1, OnSideBranch
<1>2. CASE b \notin ChainTo[c]
  BY <1>2
<1> QED  BY <1>1, <1>2

(* Nothing that is not active is pruned when an extension ends. *)
LEMMA NothingElsePruned ==
    ASSUME ForksAreShallow, ConfigAssumption, NEW t \in Block, NEW S, S \subseteq Block
    PROVE  Pruned(S, t) \subseteq S /\ S \ Pruned(S, t) \subseteq ChainTo[t]
<1> SUFFICES ASSUME NEW c \in S, c \notin ChainTo[t] PROVE c \in Pruned(S, t)
  BY DEF Pruned
<1>1. c \in Block /\ c \in ChainTo[c] \ ChainTo[t]
  BY BlockFacts
<1> QED  BY <1>1 DEF ForksAreShallow, Pruned

LEMMA StepTipExtended ==
    ASSUME ChainInv, SideInv, pc = "idle", NEW b \in Block, Connects(b), b \notin stored,
           tip' = b, stored' = stored \cup {b}, sideBlocks' = sideBlocks,
           \/ pc' = "idle"
           \/ pc' = "accept" /\ ~job'.side /\ job'.at = job'.target
    PROVE  SideInv'
<1>1. \A c \in sideBlocks : Competes(c, b) => Work[c] <= Work[b]
  BY OutweighedByChild
<1>2. Outweighed'
  BY <1>1 DEF Outweighed, Competes, Reference, Reorganising, Running
<1> QED  BY <1>2 DEF SideInv, ParentsKnown, Reorganising, Running

LEMMA StepSideBlock ==
    ASSUME ChainInv, SideInv, NEW b \in Block, StoreSideBlock(b) \/ StartReorg(b)
    PROVE  SideInv'
<1>1. /\ pc = "idle" /\ b # Genesis /\ b \notin stored
      /\ Parent[b] \in stored \cup sideBlocks
      /\ sideBlocks' = sideBlocks \cup {b} /\ UNCHANGED <<stored, tip>>
  BY DEF StoreSideBlock, StartReorg, SideBlock, Fresh
<1>2. tip \in Block /\ sideBlocks \subseteq Block /\ ChainTo[tip] \subseteq stored
  BY DEF ChainInv, TypeOK, ActiveChainValid
<1>3. ParentsKnown /\ ParentsKnown'
  BY <1>1 DEF SideInv, ParentsKnown
<1>4. \A c \in sideBlocks : Competes(c, tip) => Work[c] <= Work[tip]
  BY <1>1 DEF SideInv, Outweighed, Reference, Reorganising, Running
<1>5. ASSUME NEW c \in sideBlocks, Competes(c, tip)' PROVE Work[c] <= Work[tip]
  <2>1. ChainTo[c] \ ChainTo[tip] \subseteq sideBlocks \cup {b} /\ ChainTo[c] \subseteq Valid
    BY <1>1, <1>5 DEF Competes
  <2>2. ChainTo[c] \ ChainTo[tip] \subseteq sideBlocks
    BY <1>1, <1>2, <1>3, <2>1, SameBranches
  <2> QED  BY <1>4, <2>1, <2>2 DEF Competes
<1>6. CASE StoreSideBlock(b)
  <2>1. pc' = "idle" /\ (Work[b] <= Work[tip] \/ ~(ChainTo[b] \ ChainTo[tip] \subseteq sideBlocks \cup {b}))
    BY <1>1, <1>6 DEF StoreSideBlock, Attachable, Branch
  <2>2. Competes(b, tip)' => Work[b] <= Work[tip]
    BY <1>1, <2>1 DEF Competes
  <2>3. Outweighed'
    BY <1>1, <1>5, <2>1, <2>2 DEF Outweighed, Competes, Reference, Reorganising, Running
  <2> QED  BY <1>3, <2>1, <2>3 DEF SideInv, Reorganising, Running
<1>7. CASE StartReorg(b)
  <2>1. /\ pc' \in {"attach", "disconnect"} /\ job'.base = tip /\ job'.target = b /\ job'.side
        /\ ChainTo[b] \ ChainTo[tip] \subseteq sideBlocks \cup {b}
    BY <1>7 DEF StartReorg, Attachable, Branch
  <2>2. Outweighed'
    BY <1>1, <1>5, <2>1 DEF Outweighed, Competes, Reference, Reorganising, Running
  <2> QED  BY <1>1, <1>3, <2>1, <2>2 DEF SideInv, Reorganising, Running
<1> QED  BY <1>6, <1>7

(* The steps of a reorganisation before it ends. *)
LEMMA StepReorganising ==
    ASSUME ChainInv, OrderInv, SideInv, Reorganising, pc' \notin {"idle", "down"},
           ReorgDisconnect \/ ReorgAttach \/ ReorgAttachFails \/ ReorgRollback \/ ReorgRolledBack
             \/ ReorgRestore \/ AcceptDone
    PROVE  SideInv'
<1>1. /\ sideBlocks' = sideBlocks /\ stored \subseteq stored'
      /\ job'.base = job.base /\ job'.target = job.target /\ job'.side = job.side
  BY DEF ReorgDisconnect, ReorgAttach, ReorgAttachFails, ReorgRollback, ReorgRolledBack,
     ReorgRestore, AcceptDone, memVars, ChainInv, TypeOK, Jobs
<1>2. Reorganising' /\ Reference' = Reference
  BY <1>1 DEF Reorganising, Running, Reference
<1>3. ParentsKnown'
  BY <1>1 DEF SideInv, ParentsKnown
<1>4. Outweighed'
  BY <1>1, <1>2 DEF SideInv, Outweighed, Competes
<1>5. pc' \in {"rollback", "restore"} => ~(ChainTo[job.target] \subseteq Valid)
  <2>1. CASE ReorgAttachFails
    <3> DEFINE b == NextOn(job.target, job.at)
    <3>1. ~Connects(b) /\ pc = "attach"
      BY <2>1 DEF ReorgAttachFails
    <3>2. b \in ChainTo[job.target] /\ Parent[b] = job.at
      BY <3>1, NextFacts DEF ChainInv, JobInv, Running
    <3>3. job.at = tip
      BY <3>1 DEF OrderInv
    <3> QED  BY <3>1, <3>2, <3>3 DEF Connects
  <2>2. CASE ~ReorgAttachFails
    BY <2>2 DEF ReorgDisconnect, ReorgAttach, ReorgRollback, ReorgRolledBack, ReorgRestore,
       AcceptDone, SideInv
  <2> QED  BY <2>1, <2>2
<1> QED  BY <1>1, <1>2, <1>3, <1>4, <1>5 DEF SideInv, Reorganising

(* A reorganisation failed: the tip it began on is back. *)
LEMMA StepReorgFailed ==
    ASSUME ParentsFirst, ChainInv, OrderInv, SideInv, [Next]_vars, Running, pc' = "idle",
           ReorgRolledBack \/ ReorgRestoreEnds
    PROVE  SideInv'
<1>1. /\ pc \in {"rollback", "restore"} /\ UNCHANGED <<stored, tip, sideBlocks>>
  BY DEF ReorgRolledBack, ReorgRestoreEnds, memVars
<1>2. tip = job.base
  <2>1. CASE ReorgRestoreEnds
    BY <2>1, RestoreFacts DEF ReorgRestoreEnds, OrderInv
  <2>2. CASE ReorgRolledBack
    <3>1. /\ job.fork \in ChainTo[tip] /\ Height[tip] - Height[job.fork] = 0 /\ tip \in Block
          /\ job.base = job.fork
      BY <2>2 DEF ReorgRolledBack, OrderInv, ChainInv, TypeOK
    <3>2. job.fork \in Block
      BY <3>1, BlockFacts
    <3>3. Height[tip] \in Nat /\ Height[job.fork] \in Nat
      BY <3>1, <3>2, BlockFacts
    <3> QED  BY <3>1, <3>3, BelowFacts
  <2> QED  BY <2>1, <2>2
<1>3. \A c \in sideBlocks : Competes(c, tip) => Work[c] <= Work[tip]
  BY <1>1, <1>2 DEF SideInv, Outweighed, Competes, Reference, Reorganising, Running
<1>4. Outweighed'
  BY <1>1, <1>3 DEF Outweighed, Competes, Reference, Reorganising, Running
<1> QED  BY <1>1, <1>4 DEF SideInv, ParentsKnown, Reorganising, Running

(* The last block of the branch, or the extension, is connected. *)
LEMMA StepCallSucceeds ==
    ASSUME ForksAreShallow, ChainInv, OrderInv, SideInv, AcceptDone, pc' = "idle"
    PROVE  SideInv'
<1> DEFINE path == ChainTo[job.target] \ ChainTo[job.fork]
           kept == IF job.side THEN sideBlocks \ path ELSE sideBlocks
<1>1. /\ pc = "accept" /\ job.at = job.target /\ UNCHANGED <<stored, tip>>
      /\ sideBlocks' = Pruned(kept, tip)
  BY DEF AcceptDone
<1>2. /\ tip = job.target /\ tip \in Block /\ ChainTo[tip] \subseteq stored /\ sideBlocks \subseteq Block
      /\ job.base \in Block /\ job.fork \in ChainTo[job.base]
      /\ Work[job.target] > Work[job.base]
  BY <1>1 DEF OrderInv, ChainInv, TypeOK, ActiveChainValid, JobInv, Running
<1>3. sideBlocks' \subseteq kept /\ kept \ sideBlocks' \subseteq ChainTo[tip]
  BY <1>1, <1>2, NothingElsePruned, ConfigAssumption
<1>4. kept \subseteq sideBlocks /\ sideBlocks \ kept \subseteq ChainTo[tip]
  BY <1>2
<1>5. sideBlocks' \subseteq sideBlocks /\ sideBlocks \ sideBlocks' \subseteq ChainTo[tip]
  BY <1>3, <1>4
<1>6. ParentsKnown'
  BY <1>1, <1>2, <1>5 DEF SideInv, ParentsKnown
<1>7. ASSUME NEW c \in sideBlocks', Competes(c, tip)' PROVE Work[c] <= Work[tip]
  <2>1. /\ c \in Block /\ c \in sideBlocks /\ ChainTo[c] \subseteq Valid
        /\ ChainTo[c] \ ChainTo[tip] \subseteq sideBlocks
    BY <1>1, <1>2, <1>5, <1>7 DEF Competes
  <2>2. CASE ~job.side
    BY <1>1, <2>1, <2>2 DEF SideInv, Outweighed, Competes, Reference, Reorganising
  <2>3. CASE job.side /\ c = job.target
    BY <1>2, <2>3, TreeAssumption
  <2>4. CASE job.side /\ c # job.target
    <3>1. ChainTo[job.target] \ ChainTo[job.base] \subseteq sideBlocks
      BY <1>1, <2>4 DEF SideInv, Reorganising, Running
    <3>2. ChainTo[c] \ ChainTo[job.base] \subseteq sideBlocks
      BY <1>2, <2>1, <3>1
    <3>3. Work[c] <= Work[job.base]
      BY <1>1, <2>1, <2>4, <3>2 DEF SideInv, Outweighed, Competes, Reference, Reorganising, Running
    <3> QED  BY <1>2, <2>1, <3>3, TreeAssumption
  <2> QED  BY <2>2, <2>3, <2>4
<1>8. Outweighed'
  BY <1>1, <1>7 DEF Outweighed, Competes, Reference, Reorganising, Running
<1> QED  BY <1>6, <1>8 DEF SideInv, Reorganising, Running

LEMMA InitSideInv == Init => SideInv
  BY DEF Init, SideInv, ParentsKnown, Outweighed, Reorganising, Running

LEMMA StepSideInv ==
    ASSUME ParentsFirst, NeverTakenBack, ForksAreShallow, ChainInv, OrderInv, SideInv, [Next]_vars
    PROVE  SideInv'
<1>1. ASSUME NEW b \in Block, ExtendTip(b) PROVE SideInv'
  <2>1. /\ pc = "idle" /\ Connects(b) /\ b \notin stored /\ tip' = b /\ stored' = stored \cup {b}
        /\ sideBlocks' = sideBlocks /\ pc' = "accept" /\ ~job'.side /\ job'.at = job'.target
    BY <1>1 DEF ExtendTip, Fresh, memVars
  <2> QED  BY <2>1, StepTipExtended
<1>2. ASSUME NEW b \in Block, StoreSideBlock(b) \/ StartReorg(b) PROVE SideInv'
  BY <1>2, StepSideBlock
<1>3. ASSUME NEW b \in Block, AddOrphan(b) PROVE SideInv'
  BY <1>3 DEF AddOrphan, Fresh, ParentsFirst
<1>4. ASSUME NEW b \in Block, ConnectBlock(b) PROVE SideInv'
  <2>1. /\ pc = "idle" /\ Connects(b) /\ b \notin stored /\ tip' = b /\ stored' = stored \cup {b}
        /\ sideBlocks' = sideBlocks /\ pc' = "idle"
    BY <1>4 DEF ConnectBlock, memVars
  <2> QED  BY <2>1, StepTipExtended
<1>5. CASE ReorgDisconnect \/ ReorgAttach \/ ReorgAttachFails \/ ReorgRollback \/ ReorgRestore
  <2>1. Reorganising /\ pc' \notin {"idle", "down"}
    BY <1>5 DEF ReorgDisconnect, ReorgAttach, ReorgAttachFails, ReorgRollback, ReorgRestore,
       SideInv, Reorganising, Running
  <2> QED  BY <1>5, <2>1, StepReorganising
<1>6. CASE ReorgRolledBack \/ ReorgRestoreEnds
  <2>1. Reorganising /\ pc' \in {"idle", "restore"} /\ (ReorgRestoreEnds => pc' = "idle")
    BY <1>6 DEF ReorgRolledBack, ReorgRestoreEnds, SideInv, Reorganising, Running
  <2>2. CASE pc' = "idle"
    BY <1>6, <2>1, <2>2, StepReorgFailed DEF Reorganising
  <2>3. CASE pc' = "restore"
    BY <1>6, <2>1, <2>3, StepReorganising
  <2> QED  BY <2>1, <2>2, <2>3
<1>7. CASE AcceptOrphan
  BY <1>7 DEF AcceptOrphan, Acceptable, OrderInv
<1>8. CASE AcceptDone
  <2>1. pc = "accept" /\ pc' \in {"idle", "attach"} /\ (pc' = "attach" => job.at # job.target)
    BY <1>8 DEF AcceptDone
  <2>2. CASE pc' = "idle"
    BY <1>8, <2>2, StepCallSucceeds
  <2>3. CASE pc' = "attach"
    BY <1>8, <2>1, <2>3, StepReorganising DEF SideInv, Reorganising, Running
  <2> QED  BY <2>1, <2>2, <2>3
<1>9. CASE Crash
  BY <1>9 DEF Crash, SideInv, ParentsKnown, Outweighed, Reorganising, Running
<1>10. CASE Restart
  BY <1>10 DEF Restart, memVars, SideInv, ParentsKnown, Outweighed, Competes, Reference, Reorganising,
     Running
<1>11. CASE UNCHANGED vars
  BY <1>11 DEF vars, SideInv, ParentsKnown, Outweighed, Competes, Reference, Reorganising, Running
<1> QED  BY <1>1, <1>2, <1>3, <1>4, <1>5, <1>6, <1>7, <1>8, <1>9, <1>10, <1>11
            DEF Next, ProcessBlock, Advance, DisconnectTip, NeverTakenBack

(* If parents come before their children, nobody disconnects the tip by    *)
(* hand and no fork is deeper than pruneSideBlocksLocked allows for, then  *)
(* no side branch that could be attached outweighs the active chain, after *)
(* any extension, reorganisation, failed reorganisation and restart.       *)
THEOREM NoSideBranchOutweighs ==
    ASSUME ParentsFirst, NeverTakenBack, ForksAreShallow
    PROVE  Spec => []NoBetterSideBranch
<1>1. ChainInv /\ OrderInv /\ [Next]_vars => OrderInv'
  BY StepOrderInv
<1>2. ChainInv /\ OrderInv /\ SideInv /\ [Next]_vars => SideInv'
  BY StepSideInv
<1>3. SideInv => NoBetterSideBranch
  BY DEF SideInv, Outweighed, Competes, Reference, Reorganising, Running, NoBetterSideBranch,
     Attachable, Branch
<1> QED  BY <1>1, <1>2, <1>3, InitOrderInv, InitSideInv, ChainSafe, PTL DEF Spec
-----------------------------------------------------------------------------
(* HeaderRules *)

(* Headers and their times *)

Timed(s) == \A i \in 1 .. Len(s) : s[i].time \in Nat
Headers(s) == (\E A : s \in Seq(A)) /\ Timed(s)

LEMMA TwoBounds ==
    ASSUME NEW a \in Int, NEW b \in Int
    PROVE  /\ Max({a, b}) = IF a >= b THEN a ELSE b
           /\ Min({a, b}) = IF a <= b THEN a ELSE b
<1>1. PICK m \in {a, b} : \A y \in {a, b} : m >= y
  OBVIOUS
<1>2. PICK n \in {a, b} : \A y \in {a, b} : n <= y
  OBVIOUS
<1>3. Max({a, b}) \in {a, b} /\ \A y \in {a, b} : Max({a, b}) >= y
  BY <1>1 DEF Max
<1>4. Min({a, b}) \in {a, b} /\ \A y \in {a, b} : Min({a, b}) <= y
  BY <1>2 DEF Min
<1> QED  BY <1>3, <1>4

(* Among finitely many times one is the latest. *)
LEMMA Latest ==
    ASSUME NEW P, IsFiniteSet(P), P # {}, NEW t, \A i \in P : t[i] \in Nat
    PROVE  \E i \in P : \A j \in P : t[j] <= t[i]
<1> DEFINE Later(i) == {j \in P : t[j] > t[i]}
<1> DEFINE N == {Cardinality(Later(i)) : i \in P}
<1>1. \A i \in P : IsFiniteSet(Later(i)) /\ Cardinality(Later(i)) \in Nat
  BY FS_Subset, FS_CardinalityType
<1>2. PICK n \in N : \A m \in N : n <= m
  <2>1. N \subseteq Nat /\ N # {}
    BY <1>1
  <2> HIDE DEF N
  <2> QED  BY <2>1, LeastNumber
<1>3. PICK i \in P : n = Cardinality(Later(i))
  OBVIOUS
<1>4. ASSUME NEW j \in P, t[j] > t[i] PROVE FALSE
  <2>1. Later(j) \subseteq Later(i) /\ j \in Later(i) /\ j \notin Later(j)
    BY <1>4
  <2>2. Cardinality(Later(j)) < Cardinality(Later(i))
    <3>1. Later(j) # Later(i)
      BY <2>1
    <3>2. IsFiniteSet(Later(i)) /\ IsFiniteSet(Later(j)) /\ Cardinality(Later(j)) \in Nat /\ Cardinality(Later(i)) \in Nat
      BY <1>1, <1>4
    <3> HIDE DEF Later
    <3>3. Cardinality(Later(j)) <= Cardinality(Later(i))
      BY <2>1, <3>2, FS_Subset
    <3>4. Cardinality(Later(j)) = Cardinality(Later(i)) => Later(j) = Later(i)
      BY <2>1, <3>2, FS_Subset
    <3> QED  BY <3>1, <3>2, <3>3, <3>4
  <2>3. Cardinality(Later(j)) \in N /\ Cardinality(Later(i)) \in Nat /\ Cardinality(Later(j)) \in Nat
    BY <1>1, <1>4
  <2> HIDE DEF Later, N
  <2> QED  BY <1>2, <1>3, <2>2, <2>3
<1> QED  BY <1>4

Places(list, places) == IsFiniteSet(places) /\ places # {} /\ \A i \in places : list[i].time \in Nat

IsMedian(list, places, v) ==
    /\ v \in {list[i].time : i \in places}
    /\ Cardinality({i \in places : list[i].time < v}) <= Cardinality(places) \div 2
    /\ Cardinality(places) \div 2 < Cardinality({i \in places : list[i].time <= v})

(* There is one upper median. *)
LEMMA MedianUnique ==
    ASSUME NEW list, NEW places, Places(list, places), NEW v, NEW w,
           IsMedian(list, places, v), IsMedian(list, places, w)
    PROVE  v = w
<1> DEFINE below(x) == {i \in places : list[i].time < x}
<1> DEFINE upto(x) == {i \in places : list[i].time <= x}
<1>1. \A S \in SUBSET places : IsFiniteSet(S) /\ Cardinality(S) \in Nat
  BY FS_Subset, FS_CardinalityType DEF Places
<1>2. v \in Nat /\ w \in Nat
  BY DEF Places, IsMedian
<1>3. ASSUME NEW x \in Nat, NEW y \in Nat, x < y, IsMedian(list, places, x), IsMedian(list, places, y)
      PROVE  FALSE
  <2>1. upto(x) \subseteq below(y)
    BY <1>3 DEF Places
  <2>2. upto(x) \in SUBSET places /\ below(y) \in SUBSET places
    OBVIOUS
  <2>3. Cardinality(upto(x)) <= Cardinality(below(y))
    <3> HIDE DEF upto, below
    <3> QED  BY <1>1, <2>1, <2>2, FS_Subset
  <2>4. /\ Cardinality(below(y)) <= Cardinality(places) \div 2
        /\ Cardinality(places) \div 2 < Cardinality(upto(x))
    BY <1>3 DEF IsMedian
  <2>5. Cardinality(places) \in Nat /\ Cardinality(below(y)) \in Nat /\ Cardinality(upto(x)) \in Nat
    BY <1>1, <2>2
  <2> HIDE DEF upto, below
  <2>6. Cardinality(places) \div 2 \in Nat
    BY <2>5
  <2> QED  BY <2>3, <2>4, <2>5, <2>6
<1> QED  BY <1>2, <1>3

LEMMA MedianIs ==
    ASSUME NEW list, NEW places, Places(list, places)
    PROVE  IsMedian(list, places, UpperMedian(list, places)) /\ UpperMedian(list, places) \in Nat
<1> DEFINE below(x) == {i \in places : list[i].time < x}
<1> DEFINE upto(x) == {i \in places : list[i].time <= x}
<1> DEFINE half == Cardinality(places) \div 2
<1> DEFINE A == {n \in {list[i].time : i \in places} : half < Cardinality(upto(n))}
<1>1. \A S \in SUBSET places : IsFiniteSet(S) /\ Cardinality(S) \in Nat
  BY FS_Subset, FS_CardinalityType DEF Places
<1>2. Cardinality(places) \in Nat /\ Cardinality(places) > 0
  BY <1>1, FS_EmptySet DEF Places
<1>3. half \in Nat /\ half < Cardinality(places)
  BY <1>2
<1>4. \A P \in SUBSET places : P # {} => \E i \in P : \A j \in P : list[j].time <= list[i].time
  <2> SUFFICES ASSUME NEW P \in SUBSET places, P # {}
               PROVE  \E i \in P : \A j \in P : list[j].time <= list[i].time
    OBVIOUS
  <2> DEFINE t == [i \in P |-> list[i].time]
  <2>1. IsFiniteSet(P) /\ \A i \in P : t[i] \in Nat
    BY <1>1 DEF Places
  <2>2. \E i \in P : \A j \in P : t[j] <= t[i]
    <3> HIDE DEF t
    <3> QED  BY <2>1, Latest
  <2> QED  BY <2>2
<1>5. A # {} /\ A \subseteq Nat
  <2>1. PICK i \in places : \A j \in places : list[j].time <= list[i].time
    BY <1>4 DEF Places
  <2>2. upto(list[i].time) = places
    BY <2>1
  <2> QED  BY <1>3, <2>2 DEF Places
<1>6. PICK v \in A : \A m \in A : v <= m
  <2> HIDE DEF A
  <2> QED  BY <1>5, LeastNumber
<1>7. v \in Nat /\ v \in {list[i].time : i \in places} /\ half < Cardinality(upto(v))
  BY <1>5
<1>8. Cardinality(below(v)) <= half
  <2> SUFFICES ASSUME ~(Cardinality(below(v)) <= half) PROVE FALSE
    OBVIOUS
  <2>0. Cardinality(below(v)) \in Nat
    BY <1>1
  <2>1. below(v) # {}
    <3>1. Cardinality({}) = 0
      BY FS_EmptySet
    <3> HIDE DEF below, half
    <3> QED  BY <1>3, <3>1
  <2>2. PICK i \in below(v) : \A j \in below(v) : list[j].time <= list[i].time
    BY <1>4, <2>1
  <2>3. upto(list[i].time) = below(v)
    BY <1>7, <2>2 DEF Places
  <2>4. list[i].time \in A /\ list[i].time < v
    <3>1. half < Cardinality(below(v))
      <4> HIDE DEF below, half
      <4> QED  BY <1>3, <2>0
    <3> QED  BY <2>2, <2>3, <3>1
  <2>5. list[i].time \in Nat
    BY <2>2 DEF Places
  <2> HIDE DEF A
  <2> QED  BY <1>6, <1>7, <2>4, <2>5
<1>9. UpperMedian(list, places) = CHOOSE x \in {list[i].time : i \in places} : Cardinality(below(x)) <= half /\ half < Cardinality(upto(x))
  BY DEF UpperMedian
<1>10. IsMedian(list, places, UpperMedian(list, places))
  BY <1>7, <1>8, <1>9 DEF IsMedian
<1> QED  BY <1>10 DEF IsMedian, Places

(* The same times at other places: f says where, g goes back. *)
Renamed(list, places, moved, others, f, g) ==
    /\ Places(list, places)
    /\ f \in [places -> others] /\ g \in [others -> places]
    /\ \A i \in places : g[f[i]] = i /\ moved[f[i]].time = list[i].time
    /\ \A j \in others : f[g[j]] = j

(* The median depends only on the times at the places, in whatever order. *)
LEMMA MedianMoved ==
    ASSUME NEW list, NEW places, NEW moved, NEW others, NEW f, NEW g,
           Renamed(list, places, moved, others, f, g)
    PROVE  UpperMedian(moved, others) = UpperMedian(list, places) /\ Places(moved, others)
<1>1. /\ IsFiniteSet(places) /\ places # {} /\ \A i \in places : list[i].time \in Nat
      /\ \A j \in others : g[j] \in places /\ moved[j].time = list[g[j]].time
      /\ \A i \in places : f[i] \in others /\ g[f[i]] = i /\ moved[f[i]].time = list[i].time
      /\ \A j \in others : f[g[j]] = j
      /\ Places(list, places)
  BY DEF Places, Renamed
<1>2. others = {f[i] : i \in places}
  BY <1>1
<1>3. IsFiniteSet(others) /\ others # {}
  BY <1>1, <1>2, ImageSmall
<1>4. Places(moved, others)
  BY <1>1, <1>3 DEF Places
<1>5. ASSUME NEW S \in SUBSET places, NEW T \in SUBSET others,
             \A i \in places : i \in S <=> f[i] \in T
      PROVE  Cardinality(S) = Cardinality(T)
  <2>1. T = {f[i] : i \in S} /\ S = {g[j] : j \in T}
    BY <1>1, <1>5
  <2>2. IsFiniteSet(S) /\ IsFiniteSet(T)
    BY <1>1, <1>3, FS_Subset
  <2>3. Cardinality(S) \in Nat /\ Cardinality(T) \in Nat
    BY <2>2, FS_CardinalityType
  <2>4. Cardinality({f[i] : i \in S}) <= Cardinality(S)
    BY ONLY <2>2, ImageSmall
  <2>5. Cardinality({g[j] : j \in T}) <= Cardinality(T)
    BY ONLY <2>2, ImageSmall
  <2>6. Cardinality(T) <= Cardinality(S) /\ Cardinality(S) <= Cardinality(T)
    BY ONLY <2>1, <2>4, <2>5
  <2> QED  BY <2>3, <2>6
<1>6. Cardinality(places) = Cardinality(others)
  BY <1>1, <1>5
<1>7. ASSUME NEW v \in Nat
      PROVE  /\ Cardinality({i \in places : list[i].time < v}) = Cardinality({j \in others : moved[j].time < v})
             /\ Cardinality({i \in places : list[i].time <= v}) = Cardinality({j \in others : moved[j].time <= v})
  <2> DEFINE S1 == {i \in places : list[i].time < v}
  <2> DEFINE T1 == {j \in others : moved[j].time < v}
  <2> DEFINE S2 == {i \in places : list[i].time <= v}
  <2> DEFINE T2 == {j \in others : moved[j].time <= v}
  <2>1. /\ S1 \in SUBSET places /\ T1 \in SUBSET others /\ \A i \in places : i \in S1 <=> f[i] \in T1
        /\ S2 \in SUBSET places /\ T2 \in SUBSET others /\ \A i \in places : i \in S2 <=> f[i] \in T2
    BY <1>1
  <2> HIDE DEF S1, T1, S2, T2
  <2>2. Cardinality(S1) = Cardinality(T1) /\ Cardinality(S2) = Cardinality(T2)
    BY <1>5, <2>1
  <2> QED  BY <2>2 DEF S1, T1, S2, T2
<1>8. IsMedian(list, places, UpperMedian(list, places)) /\ UpperMedian(list, places) \in Nat
  BY <1>1, MedianIs
<1>9. {list[i].time : i \in places} = {moved[j].time : j \in others}
  BY <1>1
<1>10. IsMedian(moved, others, UpperMedian(list, places))
  BY <1>6, <1>7, <1>8, <1>9 DEF IsMedian
<1> QED  BY <1>4, <1>10, MedianIs, MedianUnique

Least(a, b) == IF a <= b THEN a ELSE b

(* The first place of a window of w at the end of n places. *)
LEMMA WindowStart ==
    ASSUME NEW n \in Nat, n > 0, NEW w \in Nat, w > 0
    PROVE  /\ Max({1, n - w + 1}) = n - Least(n, w) + 1
           /\ Least(n, w) \in Nat /\ 1 <= Least(n, w) /\ Least(n, w) <= n
<1>1. 1 \in Int /\ n - w + 1 \in Int
  OBVIOUS
<1>2. Max({1, n - w + 1}) = IF 1 >= n - w + 1 THEN 1 ELSE n - w + 1
  BY ONLY <1>1, TwoBounds
<1>3. CASE n <= w
  BY <1>2, <1>3 DEF Least
<1>4. CASE n > w
  BY <1>2, <1>4 DEF Least
<1> QED  BY <1>3, <1>4

(* The last times of a chain, of which the median time past is taken. *)
Behind(n) == (n - Least(n, MedianWindow) + 1) .. n

LEMMA MedianOf ==
    ASSUME NEW s, Headers(s), Len(s) > 0
    PROVE  /\ medianTimePast(s) = UpperMedian(s, Behind(Len(s)))
           /\ Places(s, Behind(Len(s))) /\ Cardinality(Behind(Len(s))) = Least(Len(s), MedianWindow)
           /\ medianTimePast(s) \in Nat
<1>1. Len(s) \in Nat /\ MedianWindow \in Nat /\ MedianWindow > 0 /\ \A i \in 1 .. Len(s) : s[i].time \in Nat
  BY HeaderAssumption DEF Headers, Timed
<1> DEFINE n == Len(s)
<1> DEFINE a == n - Least(n, MedianWindow) + 1
<1>2. a \in Int /\ 1 <= a /\ a <= n /\ n - a + 1 = Least(n, MedianWindow)
  BY <1>1 DEF Least
<1>3. Max({1, n - MedianWindow + 1}) = a
  BY <1>1, WindowStart
<1>4. medianTimePast(s) = UpperMedian(s, Behind(n))
  BY <1>3 DEF medianTimePast, Behind
<1>5. IsFiniteSet(a .. n) /\ Cardinality(a .. n) = n - a + 1
  BY <1>1, <1>2, FS_Interval
<1>6. Places(s, a .. n)
  <2>1. a .. n # {} /\ \A i \in a .. n : i \in 1 .. n
    BY <1>1, <1>2
  <2> QED  BY <1>1, <1>5, <2>1 DEF Places
<1> QED  BY <1>2, <1>4, <1>5, <1>6, MedianIs DEF Behind

(* A median is as far as the times at its places agree. *)
LEMMA MedianSame ==
    ASSUME NEW s, NEW r, NEW places, Places(s, places), \A i \in places : r[i].time = s[i].time
    PROVE  UpperMedian(r, places) = UpperMedian(s, places)
<1> DEFINE f == [i \in places |-> i]
<1>1. f \in [places -> places] /\ \A i \in places : f[f[i]] = i /\ r[f[i]].time = s[i].time
  OBVIOUS
<1>2. Renamed(s, places, r, places, f, f)
  BY <1>1 DEF Renamed
<1> QED  BY <1>2, MedianMoved

(* The window of difficulty, the newest first. *)
LEMMA RecentOf ==
    ASSUME NEW s, Headers(s), Len(s) > 0
    PROVE  /\ Len(recentEntries(s)) = Least(Len(s), Window) /\ Len(s) \in Nat
           /\ recentEntries(s) = [i \in 1 .. Least(Len(s), Window) |-> s[Len(s) + 1 - i]]
<1>1. PICK A : s \in Seq(A)
  BY DEF Headers
<1> DEFINE n == Len(s)
<1> DEFINE k == Least(n, Window)
<1>2. n \in Nat /\ Window \in Nat /\ Window > 0
  BY <1>1, HeaderAssumption
<1>3. k \in Nat /\ 1 <= k /\ k <= n
  BY <1>2 DEF Least
<1>4. Max({1, n - Window + 1}) = n - k + 1
  BY <1>2, WindowStart
<1> DEFINE w == SubSeq(s, n - k + 1, n)
<1> HIDE DEF k
<1>5. w \in Seq(A) /\ Len(w) = k /\ \A i \in 1 .. k : w[i] = s[n - k + i]
  <2>1. n - k + 1 \in Int /\ n \in Int /\ n - k + 1 >= 1 /\ n <= Len(s)
    BY <1>2, <1>3
  <2>2. w \in Seq(A) /\ Len(w) = n - (n - k + 1) + 1 /\ \A i \in 1 .. n - (n - k + 1) + 1 : w[i] = s[(n - k + 1) + i - 1]
    BY <1>1, <1>2, <1>3, <2>1
  <2> QED  BY <1>2, <1>3, <2>2
<1>6. recentEntries(s) = [i \in 1 .. k |-> w[(k - i) + 1]]
  <2>1. recentEntries(s) = Reverse(w)
    BY <1>4 DEF recentEntries
  <2> QED  BY <1>5, <2>1 DEF Reverse
<1>7. \A i \in 1 .. k : w[(k - i) + 1] = s[n + 1 - i]
  <2> TAKE i \in 1 .. k
  <2>1. (k - i) + 1 \in 1 .. k /\ n - k + ((k - i) + 1) = n + 1 - i
    BY <1>2, <1>3
  <2> HIDE DEF w
  <2> QED  BY <1>5, <2>1
<1>8. recentEntries(s) = [i \in 1 .. k |-> s[n + 1 - i]]
  BY <1>6, <1>7
<1>9. Len(recentEntries(s)) = k
  BY <1>3, <1>8
<1> QED  BY <1>2, <1>8, <1>9 DEF k

(* One more header comes in front. *)
LEMMA RecentAppend ==
    ASSUME NEW s, Headers(s), Len(s) > 0, NEW h, h.time \in Nat
    PROVE  /\ Headers(Append(s, h)) /\ Len(Append(s, h)) = Len(s) + 1
           /\ recentEntries(Append(s, h)) = prependRecentEntry(recentEntries(s), h)
<1>1. PICK A : s \in Seq(A)
  BY DEF Headers
<1> DEFINE n == Len(s)
<1> DEFINE r == Append(s, h)
<1>2. n \in Nat /\ Window \in Nat /\ Window > 0
  <2>1. Window \in Nat /\ Window > 0
    BY ONLY HeaderAssumption
  <2>2. n \in Nat
    BY ONLY <1>1
  <2> QED  BY <2>1, <2>2
<1>3. /\ r \in Seq(A \cup {h}) /\ Len(r) = n + 1 /\ r[n + 1] = h
      /\ \A i \in 1 .. n : r[i] = s[i]
  BY <1>1
<1>4. Headers(r)
  BY <1>2, <1>3 DEF Headers, Timed
<1> DEFINE k == Least(n, Window)
<1> DEFINE m == Least(n + 1, Window)
<1>5. k \in Nat /\ 1 <= k /\ k <= n /\ m \in Nat /\ 1 <= m /\ m <= k + 1 /\ m = Least(k + 1, Window) /\ m <= n + 1
  BY <1>2 DEF Least
<1>6. recentEntries(s) = [i \in 1 .. k |-> s[n + 1 - i]] /\ Len(recentEntries(s)) = k
  BY RecentOf
<1> HIDE DEF k, r
<1>7. recentEntries(r) = [i \in 1 .. m |-> r[n + 2 - i]]
  <2>1. recentEntries(r) = [i \in 1 .. Least(Len(r), Window) |-> r[Len(r) + 1 - i]]
    BY <1>2, <1>3, <1>4, RecentOf
  <2>2. \A i \in 1 .. m : Len(r) + 1 - i = n + 2 - i
    BY <1>2, <1>3, <1>5
  <2> QED  BY <1>3, <2>1, <2>2
<1> HIDE DEF m
<1>8. prependRecentEntry(recentEntries(s), h) = SubSeq(<<h>> \o recentEntries(s), 1, m)
  <2>1. k + 1 \in Int /\ Window \in Int
    BY <1>2, <1>5
  <2>2. Min({k + 1, Window}) = IF k + 1 <= Window THEN k + 1 ELSE Window
    BY ONLY <2>1, TwoBounds
  <2> QED  BY <1>5, <1>6, <2>2 DEF prependRecentEntry, Least
<1> DEFINE e == recentEntries(s)
<1> DEFINE l == <<h>> \o e
<1>9. e \in Seq({e[i] : i \in 1 .. k})
  <2>1. e = [i \in 1 .. k |-> e[i]] /\ k \in Nat
    BY <1>5, <1>6
  <2> HIDE DEF e
  <2>2. e \in [1 .. k -> {e[i] : i \in 1 .. k}]
    BY ONLY <2>1
  <2> QED  BY ONLY <2>1, <2>2
<1> HIDE DEF e
<1>10. /\ l \in Seq({h} \cup {e[i] : i \in 1 .. k}) /\ Len(l) = k + 1
       /\ l[1] = h /\ \A i \in 2 .. k + 1 : l[i] = e[i - 1]
  <2>1. Len(e) = k
    BY <1>6 DEF e
  <2>2. <<h>> \in Seq({h}) /\ Len(<<h>>) = 1 /\ <<h>>[1] = h
    OBVIOUS
  <2> QED  BY <1>5, <1>9, <2>1, <2>2
<1> HIDE DEF l
<1>11. SubSeq(l, 1, m) = [i \in 1 .. m |-> l[i]]
  BY <1>5, <1>10
<1>12. \A i \in 1 .. m : l[i] = r[n + 2 - i]
  <2> TAKE i \in 1 .. m
  <2>1. CASE i = 1
    BY <1>2, <1>3, <1>10, <2>1
  <2>2. CASE i # 1
    <3>1. i \in 2 .. k + 1 /\ i - 1 \in 1 .. k /\ n + 1 - (i - 1) = n + 2 - i /\ n + 2 - i \in 1 .. n
      BY <1>2, <1>5, <2>2
    <3>2. l[i] = e[i - 1] /\ e[i - 1] = s[n + 1 - (i - 1)]
      BY <1>6, <1>10, <3>1 DEF e
    <3> QED  BY <1>3, <3>1, <3>2
  <2> QED  BY <2>1, <2>2
<1>13. recentEntries(r) = prependRecentEntry(recentEntries(s), h)
  BY <1>7, <1>8, <1>11, <1>12 DEF l, e
<1> QED  BY <1>3, <1>4, <1>13 DEF r

(* Both copies of the rules take the median of the same times. *)
LEMMA MediansAgree ==
    ASSUME NEW s, Headers(s), Len(s) > 0
    PROVE  medianTimeFromRecent(recentEntries(s)) = medianTimePast(s)
<1> DEFINE n == Len(s)
<1> DEFINE m == Least(n, MedianWindow)
<1> DEFINE e == recentEntries(s)
<1>1. /\ n \in Nat /\ n > 0 /\ MedianWindow \in Nat /\ MedianWindow > 0 /\ Window \in Nat
      /\ MedianWindow <= Window
  BY HeaderAssumption DEF Headers
<1>2. /\ Len(e) = Least(n, Window) /\ e = [i \in 1 .. Least(n, Window) |-> s[n + 1 - i]]
  BY RecentOf
<1>3. m \in Nat /\ 1 <= m /\ m <= n /\ m <= Least(n, Window) /\ Least(n, Window) \in Nat /\ Least(n, Window) > 0
  BY <1>1 DEF Least
<1>4. Min({Len(e), MedianWindow}) = m
  <2>1. Len(e) \in Int /\ MedianWindow \in Int
    BY <1>1, <1>2, <1>3
  <2>2. Min({Len(e), MedianWindow}) = IF Len(e) <= MedianWindow THEN Len(e) ELSE MedianWindow
    BY ONLY <2>1, TwoBounds
  <2> QED  BY <1>1, <1>2, <2>2 DEF Least
<1>5. e # <<>>
  <2>1. Len(e) # Len(<<>>)
    BY <1>2, <1>3
  <2> QED  BY <2>1
<1>6. medianTimeFromRecent(e) = UpperMedian(e, 1 .. m)
  BY <1>4, <1>5 DEF medianTimeFromRecent
<1>7. /\ medianTimePast(s) = UpperMedian(s, Behind(n)) /\ Places(s, Behind(n))
  BY MedianOf
<1> HIDE DEF m, e
<1> DEFINE f == [i \in Behind(n) |-> n + 1 - i]
<1> DEFINE h == [i \in 1 .. m |-> n + 1 - i]
<1>8. Behind(n) = (n - m + 1) .. n
  BY DEF Behind, m
<1>9. f \in [Behind(n) -> 1 .. m] /\ h \in [1 .. m -> Behind(n)]
  BY <1>1, <1>3, <1>8
<1>10. \A i \in Behind(n) : h[f[i]] = i /\ e[f[i]].time = s[i].time
  <2> TAKE i \in Behind(n)
  <2>1. n + 1 - i \in 1 .. m /\ n + 1 - (n + 1 - i) = i /\ n + 1 - i \in 1 .. Least(n, Window)
    BY <1>1, <1>3, <1>8
  <2> QED  BY <1>2, <2>1 DEF e
<1>11. \A j \in 1 .. m : f[h[j]] = j
  BY <1>1, <1>3, <1>8
<1> HIDE DEF f, h
<1>12. UpperMedian(e, 1 .. m) = UpperMedian(s, Behind(n))
  <2>1. Renamed(s, Behind(n), e, 1 .. m, f, h)
    BY <1>7, <1>9, <1>10, <1>11 DEF Renamed
  <2> QED  BY <2>1, MedianMoved
<1> QED  BY <1>6, <1>7, <1>12 DEF e

(* A chain with the first headers of a batch on it. *)
Extended(chain, headers, i) == chain \o SubSeq(headers, 1, i)

ExtendedIs(chain, headers, i) ==
    /\ Headers(Extended(chain, headers, i)) /\ Len(Extended(chain, headers, i)) > 0
    /\ Extended(chain, headers, 0) = chain
    /\ i > 0 => Extended(chain, headers, i) = Append(Extended(chain, headers, i - 1), headers[i])

LEMMA ExtendedFacts ==
    ASSUME NEW chain, Headers(chain), Len(chain) > 0, NEW headers, Headers(headers),
           NEW i \in 0 .. Len(headers)
    PROVE  ExtendedIs(chain, headers, i)
<1>1. PICK A : chain \in Seq(A)
  BY DEF Headers
<1>2. PICK B : headers \in Seq(B)
  BY DEF Headers
<1>3. chain \in Seq(A \cup B) /\ headers \in Seq(A \cup B) /\ Len(chain) \in Nat /\ Len(headers) \in Nat
  BY <1>1, <1>2
<1>4. \A k \in 0 .. Len(headers) :
         /\ SubSeq(headers, 1, k) \in Seq(A \cup B) /\ Len(SubSeq(headers, 1, k)) = k
         /\ \A j \in 1 .. k : SubSeq(headers, 1, k)[j] = headers[j]
  BY <1>3
<1>5. \A k \in 0 .. Len(headers) :
         LET r == Extended(chain, headers, k)
         IN  /\ r \in Seq(A \cup B) /\ Len(r) = Len(chain) + k
             /\ \A j \in 1 .. Len(chain) : r[j] = chain[j]
             /\ \A j \in 1 .. k : r[Len(chain) + j] = headers[j]
  BY <1>3, <1>4 DEF Extended
<1>6. Headers(Extended(chain, headers, i)) /\ Len(Extended(chain, headers, i)) > 0
  <2> DEFINE r == Extended(chain, headers, i)
  <2>1. /\ r \in Seq(A \cup B) /\ Len(r) = Len(chain) + i
        /\ \A j \in 1 .. Len(chain) : r[j] = chain[j]
        /\ \A j \in 1 .. i : r[Len(chain) + j] = headers[j]
    BY <1>5
  <2> HIDE DEF r
  <2>2. ASSUME NEW j \in 1 .. Len(r) PROVE r[j].time \in Nat
    <3>1. CASE j \in 1 .. Len(chain)
      BY <2>1, <3>1 DEF Headers, Timed
    <3>2. CASE j \notin 1 .. Len(chain)
      <4>1. j - Len(chain) \in 1 .. i /\ j = Len(chain) + (j - Len(chain)) /\ j - Len(chain) \in 1 .. Len(headers)
        BY <1>3, <2>1, <3>2
      <4> QED  BY <2>1, <4>1 DEF Headers, Timed
    <3> QED  BY <3>1, <3>2
  <2> QED  BY <1>3, <2>1, <2>2 DEF r, Headers, Timed
<1>7. Extended(chain, headers, 0) = chain
  <2> DEFINE r == Extended(chain, headers, 0)
  <2>1. r \in Seq(A \cup B) /\ Len(r) = Len(chain) /\ \A j \in 1 .. Len(chain) : r[j] = chain[j]
    BY <1>3, <1>5
  <2> HIDE DEF r
  <2> QED  BY <1>3, <2>1 DEF r
<1>8. ASSUME i > 0
      PROVE  Extended(chain, headers, i) = Append(Extended(chain, headers, i - 1), headers[i])
  <2> DEFINE r == Extended(chain, headers, i)
  <2> DEFINE p == Extended(chain, headers, i - 1)
  <2>1. /\ r \in Seq(A \cup B) /\ Len(r) = Len(chain) + i
        /\ \A j \in 1 .. Len(chain) : r[j] = chain[j]
        /\ \A j \in 1 .. i : r[Len(chain) + j] = headers[j]
    BY <1>5
  <2>2. /\ p \in Seq(A \cup B) /\ Len(p) = Len(chain) + (i - 1)
        /\ \A j \in 1 .. Len(chain) : p[j] = chain[j]
        /\ \A j \in 1 .. i - 1 : p[Len(chain) + j] = headers[j]
    <3>1. i - 1 \in 0 .. Len(headers)
      BY <1>3, <1>8
    <3> QED  BY <1>5, <3>1
  <2> HIDE DEF r, p
  <2> DEFINE q == Append(p, headers[i])
  <2>3. headers[i] \in A \cup B
    BY <1>3, <1>8
  <2>4. q \in Seq(A \cup B) /\ Len(q) = Len(r) /\ q[Len(r)] = headers[i] /\ \A j \in 1 .. Len(r) - 1 : q[j] = p[j]
    BY <1>3, <1>8, <2>1, <2>2, <2>3
  <2> HIDE DEF q
  <2>5. ASSUME NEW j \in 1 .. Len(r) PROVE q[j] = r[j]
    <3>1. CASE j = Len(r)
      <4>1. Len(r) = Len(chain) + i /\ i \in 1 .. i
        BY <1>3, <1>8, <2>1
      <4> QED  BY <2>1, <2>4, <3>1, <4>1
    <3>2. CASE j \in 1 .. Len(chain)
      <4>1. j \in 1 .. Len(r) - 1
        BY <1>3, <1>8, <2>1, <3>2
      <4> QED  BY <2>1, <2>2, <2>4, <3>2, <4>1
    <3>3. CASE j # Len(r) /\ j \notin 1 .. Len(chain)
      <4>1. /\ j - Len(chain) \in 1 .. i - 1 /\ j = Len(chain) + (j - Len(chain)) /\ j \in 1 .. Len(r) - 1
            /\ j - Len(chain) \in 1 .. i
        <5>1. Len(chain) \in Nat /\ i \in Nat /\ i > 0 /\ Len(r) = Len(chain) + i /\ j \in 1 .. Len(r)
          BY <1>3, <1>8, <2>1
        <5> QED  BY ONLY <3>3, <5>1
      <4> DEFINE d == j - Len(chain)
      <4>2. q[j] = p[Len(chain) + d] /\ d \in 1 .. i - 1 /\ d \in 1 .. i /\ j = Len(chain) + d
        BY ONLY <2>4, <4>1
      <4> HIDE DEF d
      <4>3. q[j] = headers[d]
        BY ONLY <2>2, <4>2
      <4>4. r[j] = headers[d]
        BY ONLY <2>1, <4>2
      <4> QED  BY <4>3, <4>4
    <3> QED  BY <3>1, <3>2, <3>3
  <2> QED  BY <2>1, <2>4, <2>5 DEF r, p, q
<1> QED  BY <1>6, <1>7, <1>8 DEF ExtendedIs

(* ValidateHeaderSequence holds each header to the rules of a block that extends the    *)
(* chain with the headers before it.                                                    *)
LEMMA BatchIs ==
    ASSUME NEW chain, Headers(chain), Len(chain) > 0, NEW headers, Headers(headers),
           BatchAllowed(chain, headers)
    PROVE  \A i \in 1 .. Len(headers) : HeaderAllowed(Extended(chain, headers, i - 1), headers[i])
<1> DEFINE n == Len(headers)
<1> DEFINE Right(r) == r = [i \in 0 .. n |-> IF i = 0 THEN recentEntries(chain)
                                             ELSE prependRecentEntry(r[i - 1], headers[i])]
<1> DEFINE rec == CHOOSE r : Right(r)
<1> DEFINE ext == [i \in 0 .. n |-> recentEntries(Extended(chain, headers, i))]
<1>1. n \in Nat /\ \A i \in 1 .. n : headers[i].time \in Nat
  BY DEF Headers, Timed
<1>2. ASSUME NEW i \in 0 .. n
      PROVE  ext[i] = IF i = 0 THEN recentEntries(chain) ELSE prependRecentEntry(ext[i - 1], headers[i])
  <2>1. CASE i = 0
    <3>1. Extended(chain, headers, 0) = chain
      <4>1. 0 \in 0 .. Len(headers)
        BY <1>1
      <4>2. Headers(chain) /\ Len(chain) > 0 /\ Headers(headers)
        OBVIOUS
      <4> QED  BY ONLY <4>1, <4>2, ExtendedFacts DEF ExtendedIs
    <3> QED  BY <2>1, <3>1
  <2>2. CASE i # 0
    <3> DEFINE p == Extended(chain, headers, i - 1)
    <3>1. i - 1 \in 0 .. n /\ i \in 1 .. n /\ i > 0
      BY <1>1, <2>2
    <3>2. Headers(p) /\ Len(p) > 0
      BY <3>1, ExtendedFacts DEF ExtendedIs
    <3>3. Extended(chain, headers, i) = Append(p, headers[i])
      <4>1. Headers(chain) /\ Len(chain) > 0 /\ Headers(headers) /\ i \in 0 .. Len(headers) /\ i > 0
        BY <1>2, <3>1
      <4>2. ExtendedIs(chain, headers, i)
        BY ONLY <4>1, ExtendedFacts
      <4> QED  BY ONLY <4>1, <4>2 DEF ExtendedIs
    <3>4. headers[i].time \in Nat
      BY <1>1, <3>1
    <3> HIDE DEF p
    <3>5. recentEntries(Append(p, headers[i])) = prependRecentEntry(recentEntries(p), headers[i])
      BY <3>2, <3>4, RecentAppend
    <3>6. ext[i] = recentEntries(Extended(chain, headers, i)) /\ ext[i - 1] = recentEntries(p)
      BY <3>1 DEF p
    <3> QED  BY ONLY <2>2, <3>3, <3>5, <3>6
  <2> QED  BY <2>1, <2>2
<1>3. Right(ext)
  <2>1. ext = [i \in 0 .. n |-> ext[i]]
    OBVIOUS
  <2> HIDE DEF ext
  <2> QED  BY ONLY <1>2, <2>1
<1>4. Right(rec)
  <2> HIDE DEF ext
  <2> QED  BY <1>3
<1>5. \A i \in 1 .. n :
         /\ headers[i].bits = requiredBitsFromRecent(rec[i - 1])
         /\ headers[i].time > medianTimeFromRecent(rec[i - 1])
         /\ headers[i].time <= now + Drift
         /\ ValidTarget(headers[i].bits)
  <2>1. DOMAIN headers = 1 .. n
    BY DEF Headers
  <2> QED  BY <2>1 DEF BatchAllowed
<1> HIDE DEF rec
<1>6. \A i \in 0 .. n : rec[i] = ext[i]
  <2> DEFINE Bad == {i \in 0 .. n : rec[i] # ext[i]}
  <2> SUFFICES ASSUME Bad # {} PROVE FALSE
    OBVIOUS
  <2>1. PICK i \in Bad : \A j \in Bad : i <= j
    <3>1. Bad \subseteq Nat
      BY <1>1
    <3> HIDE DEF Bad
    <3> QED  BY <3>1, LeastNumber
  <2>2. i \in 0 .. n /\ rec[i] # ext[i]
    OBVIOUS
  <2> HIDE DEF ext
  <2>3. rec[i] = IF i = 0 THEN recentEntries(chain) ELSE prependRecentEntry(rec[i - 1], headers[i])
    BY ONLY <1>4, <2>2
  <2>4. i # 0 => i - 1 \in 0 .. n /\ i - 1 \notin Bad
    <3>1. i # 0 => i - 1 \in 0 .. n /\ ~(i <= i - 1)
      BY ONLY <1>1, <2>2
    <3> QED  BY ONLY <2>1, <3>1
  <2>5. i # 0 => rec[i - 1] = ext[i - 1]
    BY <2>4
  <2> QED  BY ONLY <1>2, <2>2, <2>3, <2>5
<1>7. ASSUME NEW i \in 1 .. n PROVE HeaderAllowed(Extended(chain, headers, i - 1), headers[i])
  <2> DEFINE p == Extended(chain, headers, i - 1)
  <2>1. i - 1 \in 0 .. n
    BY <1>1
  <2>2. Headers(p) /\ Len(p) > 0
    BY <2>1, ExtendedFacts DEF ExtendedIs
  <2>3. rec[i - 1] = recentEntries(p)
    BY <1>6, <2>1
  <2> HIDE DEF p
  <2>4. medianTimeFromRecent(recentEntries(p)) = medianTimePast(p)
    BY <2>2, MediansAgree
  <2>5. /\ headers[i].bits = requiredBitsFromRecent(recentEntries(p))
        /\ headers[i].time > medianTimePast(p) /\ headers[i].time <= now + Drift
        /\ ValidTarget(headers[i].bits)
    BY <1>5, <2>3, <2>4
  <2> QED  BY ONLY <2>5 DEF HeaderAllowed, TimeAllowed, requiredBits, p
<1> QED  BY <1>7

(* The window moves on by one place. *)
LEMMA BehindNext ==
    ASSUME NEW n \in Nat, n > 0, MedianWindow \in Nat, MedianWindow > 0
    PROVE  Behind(n) \subseteq 1 .. n /\ Behind(n + 1) \subseteq Behind(n) \cup {n + 1}
<1> DEFINE a == n - Least(n, MedianWindow) + 1
<1> DEFINE b == (n + 1) - Least(n + 1, MedianWindow) + 1
<1>1. a \in Int /\ b \in Int /\ a >= 1 /\ b >= a
  BY DEF Least
<1>2. Behind(n) = a .. n /\ Behind(n + 1) = b .. n + 1
  BY Zenon DEF Behind
<1> HIDE DEF a, b
<1>3. \A i \in b .. n + 1 : i \in a .. n \/ i = n + 1
  BY ONLY <1>1, n \in Nat
<1>4. \A i \in a .. n : i \in 1 .. n
  BY ONLY <1>1, n \in Nat
<1> QED  BY ONLY <1>2, <1>3, <1>4

(* A header later than the median does not let it fall. *)
LEMMA MedianRises ==
    ASSUME NEW s, Headers(s), Len(s) > 0, NEW h, h.time \in Nat, h.time > medianTimePast(s)
    PROVE  medianTimePast(Append(s, h)) >= medianTimePast(s)
<1> DEFINE n == Len(s)
<1> DEFINE r == Append(s, h)
<1> DEFINE P == Behind(n)
<1> DEFINE Q == Behind(n + 1)
<1> DEFINE m == medianTimePast(s)
<1> DEFINE k == medianTimePast(r)
<1>1. n \in Nat /\ n > 0 /\ MedianWindow \in Nat /\ MedianWindow > 0
  BY HeaderAssumption DEF Headers
<1>2. Headers(r) /\ Len(r) = n + 1 /\ r[n + 1] = h /\ \A i \in 1 .. n : r[i] = s[i]
  <2>1. Headers(r) /\ Len(r) = n + 1
    BY RecentAppend
  <2>2. PICK A : s \in Seq(A)
    BY DEF Headers
  <2>3. r[n + 1] = h /\ \A i \in 1 .. n : r[i] = s[i]
    BY <2>2
  <2> QED  BY <2>1, <2>3
<1> HIDE DEF r
<1>3. /\ IsMedian(s, P, m) /\ Places(s, P) /\ Cardinality(P) = Least(n, MedianWindow) /\ m \in Nat
  BY MedianOf, MedianIs
<1>4. /\ IsMedian(r, Q, k) /\ Places(r, Q) /\ Cardinality(Q) = Least(n + 1, MedianWindow) /\ k \in Nat
  <2>1. Len(r) > 0
    BY <1>1, <1>2
  <2>2. /\ k = UpperMedian(r, Behind(Len(r))) /\ Places(r, Behind(Len(r)))
        /\ Cardinality(Behind(Len(r))) = Least(Len(r), MedianWindow) /\ k \in Nat
    BY <1>2, <2>1, MedianOf
  <2>3. IsMedian(r, Behind(Len(r)), k)
    BY ONLY <2>2, MedianIs
  <2> QED  BY ONLY <1>2, <2>2, <2>3
<1>5. P \subseteq 1 .. n /\ Q \subseteq P \cup {n + 1}
  <2> HIDE DEF n
  <2> QED  BY ONLY <1>1, BehindNext DEF P, Q
<1> HIDE DEF P, Q, m, k
<1> SUFFICES ASSUME k < m PROVE FALSE
  BY <1>3, <1>4 DEF m, k, r
<1> DEFINE below == {i \in P : s[i].time < m}
<1> DEFINE upto == {i \in Q : r[i].time <= k}
<1>6. upto \subseteq below
  <2> SUFFICES ASSUME NEW i \in Q, r[i].time <= k PROVE i \in P /\ s[i].time < m
    OBVIOUS
  <2>1. h.time > m
    BY DEF m
  <2>2. i # n + 1
    BY ONLY <1>2, <1>3, <1>4, <2>1, h.time \in Nat, k < m, r[i].time <= k
  <2>3. i \in P /\ i \in 1 .. n /\ s[i] = r[i]
    BY ONLY <1>2, <1>5, <2>2, i \in Q
  <2>4. s[i].time \in Nat
    BY <1>3, <2>3 DEF Places
  <2> QED  BY <1>3, <1>4, <2>3, <2>4
<1>7. Cardinality(below) <= Cardinality(P) \div 2 /\ Cardinality(Q) \div 2 < Cardinality(upto)
  BY <1>3, <1>4 DEF IsMedian
<1>8. IsFiniteSet(below) /\ Cardinality(below) \in Nat
  BY <1>3, FS_Subset, FS_CardinalityType DEF Places
<1> HIDE DEF below, upto
<1>9. IsFiniteSet(upto) /\ Cardinality(upto) <= Cardinality(below) /\ Cardinality(upto) \in Nat
  BY ONLY <1>6, <1>8, FS_Subset, FS_CardinalityType
<1>10. Cardinality(P) \in Nat /\ Cardinality(Q) \in Nat /\ Cardinality(P) <= Cardinality(Q)
  BY <1>1, <1>3, <1>4 DEF Least
<1>11. Cardinality(P) \div 2 <= Cardinality(Q) \div 2
  BY ONLY <1>10
<1>12. Cardinality(P) \div 2 \in Nat /\ Cardinality(Q) \div 2 \in Nat
  BY ONLY <1>10
<1> QED  BY ONLY <1>7, <1>8, <1>9, <1>11, <1>12

(* The chain with the first headers of a batch: a chain of headers, one longer each time. *)
LEMMA GrownIs ==
    ASSUME Headers(hdrs), Len(hdrs) > 0, NEW t1 \in Nat, NEW wrong \in BOOLEAN
    PROVE  /\ Headers(Grown(t1, wrong)[MaxBatch])
           /\ Len(Grown(t1, wrong)[MaxBatch]) = Len(hdrs) + MaxBatch
<1> DEFINE Next1(c, i) ==
       LET t == IF i = 1 THEN t1 ELSE medianTimePast(c) + (IF wrong THEN 0 ELSE 1)
       IN  Append(c, Entry(t, IF wrong /\ i = MaxBatch THEN GenesisBits ELSE requiredBits(c), 0))
<1> DEFINE Body(g, i) == IF i = 0 THEN hdrs ELSE Next1(g[i - 1], i)
<1> DEFINE Part(g, n) == g = [i \in 0 .. n |-> Body(g, i)]
<1>1. MaxBatch \in Nat
  BY HeaderAssumption
<1> DEFINE Bad == {n \in Nat : ~\E g : Part(g, n)}
<1>2. Bad = {}
  <2> SUFFICES ASSUME Bad # {} PROVE FALSE
    OBVIOUS
  <2>1. PICK n \in Bad : \A m \in Bad : n <= m
    <3>1. Bad \subseteq Nat
      OBVIOUS
    <3> HIDE DEF Bad
    <3> QED  BY <3>1, LeastNumber
  <2>2. n \in Nat /\ ~\E g : Part(g, n)
    OBVIOUS
  <2>3. CASE n = 0
    <3> DEFINE g == [i \in 0 .. n |-> hdrs]
    <3> HIDE DEF Next1
    <3>1. Part(g, n)
      BY <2>3
    <3> HIDE DEF Part
    <3> QED  BY <2>2, <3>1
  <2>4. CASE n # 0
    <3>1. n - 1 \in Nat /\ ~(n <= n - 1)
      BY <2>2, <2>4
    <3>2. n - 1 \notin Bad
      BY <2>1, <3>1
    <3>3. PICK g : Part(g, n - 1)
      BY <3>1, <3>2
    <3> HIDE DEF Next1
    <3> DEFINE h == [i \in 0 .. n |-> Body(g, i)]
    <3>4. ASSUME NEW i \in 0 .. n - 1 PROVE h[i] = g[i]
      <4>1. h[i] = Body(g, i)
        BY <2>2
      <4>2. g[i] = Body(g, i)
        BY <3>3
      <4> QED  BY <4>1, <4>2
    <3>5. ASSUME NEW i \in 0 .. n PROVE h[i] = Body(h, i)
      <4>1. CASE i = 0
        BY <4>1
      <4>2. CASE i # 0
        <5>1. i - 1 \in 0 .. n - 1
          BY <2>2, <4>2
        <5>2. h[i - 1] = g[i - 1]
          BY <3>4, <5>1
        <5> QED  BY <4>2, <5>2
      <4> QED  BY <4>1, <4>2
    <3>6. Part(h, n)
      BY <3>5
    <3> HIDE DEF Part
    <3> QED  BY <2>2, <3>6
  <2> QED  BY <2>3, <2>4
<1> DEFINE g == CHOOSE r : Part(r, MaxBatch)
<1>3. Grown(t1, wrong) = g
  BY DEF Grown
<1>4. Part(g, MaxBatch)
  <2>1. \E f : Part(f, MaxBatch)
    <3>1. MaxBatch \notin Bad
      BY ONLY <1>2
    <3> HIDE DEF Part
    <3> QED  BY <1>1, <3>1
  <2> HIDE DEF Part
  <2> QED  BY <2>1
<1> HIDE DEF g
<1>5. ASSUME NEW c, Headers(c), Len(c) > 0, NEW i
      PROVE  Headers(Next1(c, i)) /\ Len(Next1(c, i)) = Len(c) + 1
  <2> DEFINE t == IF i = 1 THEN t1 ELSE medianTimePast(c) + (IF wrong THEN 0 ELSE 1)
  <2> DEFINE b == IF wrong /\ i = MaxBatch THEN GenesisBits ELSE requiredBits(c)
  <2>1. medianTimePast(c) \in Nat
    BY <1>5, MedianOf
  <2>2. t \in Nat
    BY <2>1
  <2> HIDE DEF t, b
  <2>3. Entry(t, b, 0).time \in Nat
    BY <2>2 DEF Entry
  <2>4. Headers(Append(c, Entry(t, b, 0))) /\ Len(Append(c, Entry(t, b, 0))) = Len(c) + 1
    BY ONLY <1>5, <2>3, RecentAppend, HeaderAssumption
  <2> QED  BY <2>4 DEF t, b
<1> HIDE DEF Next1
<1> DEFINE Good(i) == Headers(g[i]) /\ Len(g[i]) = Len(hdrs) + i
<1>6. ASSUME NEW i \in 0 .. MaxBatch, i # 0, Good(i - 1) PROVE Good(i)
  <2>1. g[i] = Next1(g[i - 1], i)
    BY <1>4, <1>6
  <2>2. Len(hdrs) \in Nat /\ i \in Nat
    BY <1>1 DEF Headers
  <2>3. Len(g[i - 1]) > 0 /\ Headers(g[i - 1]) /\ Len(g[i - 1]) = Len(hdrs) + (i - 1)
    BY ONLY <1>6, <2>2, Len(hdrs) > 0
  <2>4. Headers(Next1(g[i - 1], i)) /\ Len(Next1(g[i - 1], i)) = Len(g[i - 1]) + 1
    BY ONLY <1>5, <2>3
  <2> QED  BY ONLY <2>1, <2>2, <2>3, <2>4
<1>7. Good(0)
  <2>1. g[0] = hdrs
    BY <1>1, <1>4
  <2> QED  BY <2>1 DEF Headers
<1> HIDE DEF Part
<1>8. Good(MaxBatch)
  <2> DEFINE Missed == {i \in 0 .. MaxBatch : ~Good(i)}
  <2> HIDE DEF Good
  <2> SUFFICES ASSUME Missed # {} PROVE FALSE
    BY <1>1
  <2>1. PICK i \in Missed : \A j \in Missed : i <= j
    <3>1. Missed \subseteq Nat
      BY <1>1
    <3> HIDE DEF Missed
    <3> QED  BY <3>1, LeastNumber
  <2>2. i \in 0 .. MaxBatch /\ ~Good(i)
    OBVIOUS
  <2>3. i # 0
    BY <1>7, <2>2
  <2>4. i - 1 \in 0 .. MaxBatch /\ ~(i <= i - 1)
    BY <1>1, <2>2, <2>3
  <2>5. Good(i - 1)
    BY <2>1, <2>4
  <2> QED  BY <1>6, <2>2, <2>3, <2>5
<1> QED  BY <1>3, <1>8

(* The headers of a batch. *)
LEMMA BatchHeaders ==
    ASSUME Headers(hdrs), Len(hdrs) > 0, NEW t1 \in Nat, NEW wrong \in BOOLEAN
    PROVE  Headers(SubSeq(Grown(t1, wrong)[MaxBatch], Len(hdrs) + 1, Len(hdrs) + MaxBatch))
<1> DEFINE c == Grown(t1, wrong)[MaxBatch]
<1> DEFINE n == Len(hdrs)
<1> DEFINE s == SubSeq(c, n + 1, n + MaxBatch)
<1>1. Headers(c) /\ Len(c) = n + MaxBatch
  BY GrownIs
<1>2. n \in Nat /\ MaxBatch \in Nat
  BY HeaderAssumption DEF Headers
<1> HIDE DEF c, n
<1>3. PICK A : c \in Seq(A)
  BY <1>1 DEF Headers
<1>4. s \in Seq(A) /\ Len(s) = MaxBatch /\ \A i \in 1 .. MaxBatch : s[i] = c[n + i]
  BY <1>1, <1>2, <1>3
<1>5. \A i \in 1 .. MaxBatch : c[n + i].time \in Nat
  <2> TAKE i \in 1 .. MaxBatch
  <2>1. n + i \in 1 .. Len(c)
    BY <1>1, <1>2
  <2> QED  BY <1>1, <2>1 DEF Headers, Timed
<1> QED  BY <1>4, <1>5 DEF Headers, Timed, c, n

(* The work of the first i blocks. *)
WorkUpTo(s, i) == WeightOf(WorkOf(s), 1 .. i)

WouldConnect(on, headers) ==
    \A i \in 1 .. Len(headers) : HeaderAllowed(Extended(on, headers, i - 1), headers[i])

(* Every header is later than the median before it, what is kept of the chainwork is    *)
(* right, and a batch that passed would connect.                                        *)
HeadersRight == /\ Headers(hdrs) /\ Len(hdrs) > 0 /\ now \in Nat
                /\ \A n \in 1 .. Len(hdrs) - 1 : hdrs[n + 1].time > medianTimePast(SubSeq(hdrs, 1, n))
WorksRight == /\ \E A : works \in Seq(A)
              /\ Len(works) = Len(hdrs)
              /\ \A i \in 1 .. Len(works) : works[i] = WorkUpTo(hdrs, i) /\ hdrs[i].saved \in {-1, works[i]}
BatchRight == /\ batch = [phase |-> batch.phase, on |-> batch.on, headers |-> batch.headers]
              /\ batch.phase # "none" => /\ Headers(batch.on) /\ Len(batch.on) > 0 /\ Headers(batch.headers)
                                         /\ WouldConnect(batch.on, batch.headers)
HeaderInv == HeadersRight /\ WorksRight /\ BatchRight

LEMMA WorkTyped == ASSUME NEW bits PROVE WorkForBits(bits) \in Int
<1>1. CASE ValidTarget(bits)
  <2>1. CompactToBig(bits) + 1 \in Nat /\ CompactToBig(bits) + 1 > 0
    BY <1>1 DEF ValidTarget
  <2>2. Byte^Bytes \in Int
    BY HeaderAssumption
  <2> HIDE DEF CompactToBig
  <2> DEFINE a == Byte^Bytes
  <2> DEFINE b == CompactToBig(bits) + 1
  <2>3. a \in Int /\ b \in Nat /\ b > 0
    BY <2>1, <2>2
  <2> HIDE DEF a, b
  <2>4. a \div b \in Int
    BY ONLY <2>3
  <2> QED  BY <1>1, <2>4 DEF WorkForBits, a, b
<1>2. CASE ~ValidTarget(bits)
  BY <1>2 DEF WorkForBits
<1> QED  BY <1>1, <1>2

(* One more block adds its work. *)
LEMMA WorkNext ==
    ASSUME NEW s, Headers(s), NEW i \in 1 .. Len(s)
    PROVE  /\ WorkUpTo(s, i) = WorkUpTo(s, i - 1) + WorkForBits(s[i].bits)
           /\ WorkUpTo(s, 0) = 0 /\ WorkUpTo(s, i) \in Int /\ WorkUpTo(s, i - 1) \in Int
<1> DEFINE w == WorkOf(s)
<1> DEFINE S == 1 .. i - 1
<1> DEFINE T == 1 .. i
<1>1. Len(s) \in Nat /\ DOMAIN s = 1 .. Len(s)
  BY DEF Headers
<1>2. \A j \in 1 .. Len(s) : w[j] = WorkForBits(s[j].bits) /\ w[j] \in Int
  BY <1>1, WorkTyped DEF WorkOf
<1>3. S \cup {i} = T /\ i \notin S /\ T \subseteq 1 .. Len(s) /\ S \subseteq 1 .. Len(s) /\ i - 1 \in Nat
  BY <1>1
<1>4. IsFiniteSet(S) /\ IsFiniteSet(T)
  BY <1>3, FS_Interval
<1> HIDE DEF S, T, w
<1>5. (\A j \in T : w[j] \in Int) /\ (\A j \in S : w[j] \in Int)
  BY <1>2, <1>3
<1>6. 1 .. 0 = {}
  OBVIOUS
<1>7. Addable(S, i, w)
  BY <1>3, <1>4, <1>5 DEF Addable
<1>8. WeightOf(w, S \cup {i}) = WeightOf(w, S) + w[i]
  BY ONLY <1>7, WeightAddTo
<1>9. WeightOf(w, S) \in Int /\ WeightOf(w, T) \in Int
  BY <1>4, <1>5, WeightType
<1>10. WeightOf(w, {}) = 0
  BY FS_EmptySet, WeightNext
<1>11. w[i] = WorkForBits(s[i].bits)
  BY <1>2
<1>12. WorkUpTo(s, i) = WeightOf(w, T) /\ WorkUpTo(s, i - 1) = WeightOf(w, S) /\ WorkUpTo(s, 0) = WeightOf(w, {})
  BY <1>6 DEF WorkUpTo, w, S, T
<1> QED  BY ONLY <1>3, <1>8, <1>9, <1>10, <1>11, <1>12

(* The work of the blocks up to a height depends on no later block. *)
LEMMA WorkKept ==
    ASSUME NEW s, NEW t, NEW i \in Nat, \A j \in 1 .. i : j \in DOMAIN s /\ j \in DOMAIN t /\ t[j] = s[j]
    PROVE  WorkUpTo(t, i) = WorkUpTo(s, i)
<1> DEFINE v == WorkOf(t)
<1> DEFINE w == WorkOf(s)
<1> DEFINE S == 1 .. i
<1>1. IsFiniteSet(S)
  BY FS_Interval
<1>2. \A j \in S : v[j] = w[j]
  BY DEF WorkOf
<1> HIDE DEF v, w, S
<1>3. WeightOf(v, S) = WeightOf(w, S)
  BY ONLY <1>1, <1>2, WeightSame
<1> QED  BY <1>3 DEF WorkUpTo, v, w, S

(* The chainwork a restart adds up is what it was. *)
LEMMA RebuiltIs ==
    ASSUME HeadersRight, WorksRight
    PROVE  Rebuilt(hdrs) = works
<1> DEFINE n == Len(hdrs)
<1> DEFINE Step(r, i) == IF i = 0 THEN 0
                         ELSE IF hdrs[i].saved >= 0 THEN hdrs[i].saved
                         ELSE r[i - 1] + WorkForBits(hdrs[i].bits)
<1> DEFINE Right(r) == r = [i \in 0 .. n |-> Step(r, i)]
<1> DEFINE run == CHOOSE r : Right(r)
<1> DEFINE sum == [i \in 0 .. n |-> WorkUpTo(hdrs, i)]
<1>1. n \in Nat /\ DOMAIN hdrs = 1 .. n /\ Headers(hdrs) /\ n > 0
  BY DEF HeadersRight, Headers
<1>2. ASSUME NEW i \in 0 .. n, NEW r, i # 0 => r[i - 1] = sum[i - 1] PROVE sum[i] = Step(r, i)
  <2>1. CASE i = 0
    <3>1. 1 \in 1 .. n
      BY <1>1
    <3>2. WorkUpTo(hdrs, 0) = 0
      BY <1>1, <3>1, WorkNext
    <3> QED  BY <2>1, <3>2
  <2>2. CASE i # 0
    <3>1. i \in 1 .. n /\ i - 1 \in 0 .. n
      BY <1>1, <2>2
    <3>2. /\ WorkUpTo(hdrs, i) = WorkUpTo(hdrs, i - 1) + WorkForBits(hdrs[i].bits)
          /\ WorkUpTo(hdrs, i) \in Int /\ WorkUpTo(hdrs, i - 1) \in Int
      BY <1>1, <3>1, WorkNext
    <3>3. hdrs[i].saved \in {-1, WorkUpTo(hdrs, i)}
      BY <1>1, <3>1 DEF WorksRight
    <3>4. sum[i] = WorkUpTo(hdrs, i) /\ r[i - 1] = WorkUpTo(hdrs, i - 1)
      BY <1>2, <2>2, <3>1
    <3> HIDE DEF sum
    <3> QED  BY ONLY <2>2, <3>2, <3>3, <3>4
  <2> QED  BY <2>1, <2>2
<1>3. Right(sum)
  <2>1. \A i \in 0 .. n : i # 0 => sum[i - 1] = sum[i - 1]
    OBVIOUS
  <2>2. \A i \in 0 .. n : sum[i] = Step(sum, i)
    <3> HIDE DEF sum, Step
    <3> QED  BY <1>2, <2>1
  <2>3. sum = [i \in 0 .. n |-> sum[i]]
    OBVIOUS
  <2> HIDE DEF sum, Step
  <2> QED  BY ONLY <2>2, <2>3
<1>4. Right(run)
  <2> HIDE DEF sum
  <2> QED  BY <1>3
<1>5. Rebuilt(hdrs) = [i \in 1 .. n |-> run[i]]
  BY <1>1 DEF Rebuilt
<1> HIDE DEF run
<1>6. \A i \in 0 .. n : run[i] = sum[i]
  <2> DEFINE Bad == {i \in 0 .. n : run[i] # sum[i]}
  <2> SUFFICES ASSUME Bad # {} PROVE FALSE
    OBVIOUS
  <2>1. PICK i \in Bad : \A j \in Bad : i <= j
    <3>1. Bad \subseteq Nat
      BY <1>1
    <3> HIDE DEF Bad
    <3> QED  BY <3>1, LeastNumber
  <2>2. i \in 0 .. n /\ run[i] # sum[i]
    OBVIOUS
  <2> HIDE DEF sum, Step
  <2>3. run[i] = Step(run, i)
    BY ONLY <1>4, <2>2
  <2>4. i # 0 => i - 1 \in 0 .. n /\ i - 1 \notin Bad
    <3>1. i # 0 => i - 1 \in 0 .. n /\ ~(i <= i - 1)
      BY ONLY <1>1, <2>2
    <3> QED  BY ONLY <2>1, <3>1
  <2>5. i # 0 => run[i - 1] = sum[i - 1]
    BY <2>4
  <2>6. sum[i] = Step(run, i)
    BY ONLY <1>2, <2>2, <2>5
  <2> QED  BY ONLY <2>2, <2>3, <2>6
<1>7. \A i \in 1 .. n : run[i] = works[i]
  <2> SUFFICES ASSUME NEW i \in 1 .. n PROVE run[i] = works[i]
    OBVIOUS
  <2>1. run[i] = WorkUpTo(hdrs, i)
    BY <1>1, <1>6
  <2>2. works[i] = WorkUpTo(hdrs, i)
    BY <1>1 DEF WorksRight
  <2> QED  BY ONLY <2>1, <2>2
<1>8. works = [i \in 1 .. n |-> works[i]]
  BY DEF WorksRight
<1> QED  BY ONLY <1>5, <1>7, <1>8

LEMMA PrefixSame ==
    ASSUME NEW s, \E A : s \in Seq(A), NEW t, \E A : t \in Seq(A), NEW n \in Nat, n <= Len(s), n <= Len(t),
           \A j \in 1 .. n : s[j] = t[j]
    PROVE  SubSeq(s, 1, n) = SubSeq(t, 1, n)
<1>1. PICK A : s \in Seq(A)
  OBVIOUS
<1>2. PICK B : t \in Seq(B)
  OBVIOUS
<1>3. SubSeq(s, 1, n) = [i \in 1 .. n |-> s[i]]
  BY <1>1
<1>4. SubSeq(t, 1, n) = [i \in 1 .. n |-> t[i]]
  BY <1>2
<1> QED  BY <1>3, <1>4

LEMMA PrefixIs ==
    ASSUME NEW s, Headers(s), NEW n \in 1 .. Len(s)
    PROVE  Headers(SubSeq(s, 1, n)) /\ Len(SubSeq(s, 1, n)) = n /\ n \in Nat /\ n > 0
<1>1. PICK A : s \in Seq(A)
  BY DEF Headers
<1>2. SubSeq(s, 1, n) \in Seq(A) /\ Len(SubSeq(s, 1, n)) = n /\ \A i \in 1 .. n : SubSeq(s, 1, n)[i] = s[i]
  BY <1>1
<1>3. n \in Nat /\ n > 0 /\ \A i \in 1 .. n : i \in 1 .. Len(s)
  BY <1>1
<1> DEFINE p == SubSeq(s, 1, n)
<1>4. \A i \in 1 .. n : p[i].time \in Nat
  BY <1>2, <1>3 DEF Headers, Timed
<1>5. p \in Seq(A) /\ Len(p) = n
  BY <1>2
<1> HIDE DEF p
<1>6. Headers(p)
  BY ONLY <1>4, <1>5 DEF Headers, Timed
<1> QED  BY ONLY <1>3, <1>5, <1>6 DEF p

(* Headers that come or go at the end. *)
LEMMA HeadersMove ==
    ASSUME HeadersRight, Headers(hdrs'), Len(hdrs') > 0, now' \in Nat,
           \A j \in 1 .. Least(Len(hdrs), Len(hdrs')) : hdrs'[j] = hdrs[j],
           \A n \in Len(hdrs) .. Len(hdrs') - 1 : hdrs'[n + 1].time > medianTimePast(SubSeq(hdrs', 1, n))
    PROVE  HeadersRight'
<1>1. Len(hdrs) \in Nat /\ Len(hdrs') \in Nat /\ (\E A : hdrs \in Seq(A)) /\ (\E A : hdrs' \in Seq(A))
  BY DEF HeadersRight, Headers
<1>2. ASSUME NEW n \in 1 .. Len(hdrs') - 1, n < Len(hdrs)
      PROVE  hdrs'[n + 1].time > medianTimePast(SubSeq(hdrs', 1, n))
  <2>1. /\ n \in Nat /\ n <= Len(hdrs) /\ n <= Len(hdrs') /\ n \in 1 .. Len(hdrs) - 1
        /\ n + 1 \in 1 .. Least(Len(hdrs), Len(hdrs'))
        /\ \A j \in 1 .. n : j \in 1 .. Least(Len(hdrs), Len(hdrs'))
    BY ONLY <1>1, <1>2 DEF Least
  <2>2. \A j \in 1 .. n : hdrs'[j] = hdrs[j]
    BY <2>1
  <2>3. SubSeq(hdrs', 1, n) = SubSeq(hdrs, 1, n)
    BY <1>1, <2>1, <2>2, PrefixSame
  <2>4. hdrs'[n + 1] = hdrs[n + 1]
    BY <2>1
  <2>5. hdrs[n + 1].time > medianTimePast(SubSeq(hdrs, 1, n))
    BY <2>1 DEF HeadersRight
  <2> QED  BY ONLY <2>3, <2>4, <2>5
<1>3. \A n \in 1 .. Len(hdrs') - 1 : hdrs'[n + 1].time > medianTimePast(SubSeq(hdrs', 1, n))
  <2> TAKE n \in 1 .. Len(hdrs') - 1
  <2>1. n < Len(hdrs) \/ n \in Len(hdrs) .. Len(hdrs') - 1
    BY <1>1
  <2> QED  BY <1>2, <2>1
<1> QED  BY <1>3 DEF HeadersRight

LEMMA WorksMove ==
    ASSUME HeadersRight, WorksRight, Headers(hdrs'), \E A : works' \in Seq(A), Len(works') = Len(hdrs'),
           \A j \in 1 .. Least(Len(hdrs), Len(hdrs')) : hdrs'[j] = hdrs[j] /\ works'[j] = works[j],
           \A i \in Len(hdrs) + 1 .. Len(hdrs') : works'[i] = WorkUpTo(hdrs', i) /\ hdrs'[i].saved \in {-1, works'[i]}
    PROVE  WorksRight'
<1> DEFINE m == Least(Len(hdrs), Len(hdrs'))
<1>1. /\ Len(hdrs) \in Nat /\ Len(hdrs') \in Nat /\ Len(works) = Len(hdrs)
      /\ DOMAIN hdrs = 1 .. Len(hdrs) /\ DOMAIN hdrs' = 1 .. Len(hdrs')
  BY DEF HeadersRight, WorksRight, Headers
<1>2. m \in Nat /\ \A j \in 1 .. m : j \in DOMAIN hdrs /\ j \in DOMAIN hdrs' /\ hdrs'[j] = hdrs[j]
  BY <1>1 DEF Least
<1>3. \A i \in 0 .. m : WorkUpTo(hdrs', i) = WorkUpTo(hdrs, i)
  <2> HIDE DEF m
  <2> SUFFICES ASSUME NEW i \in 0 .. m PROVE WorkUpTo(hdrs', i) = WorkUpTo(hdrs, i)
    OBVIOUS
  <2>1. i \in Nat /\ \A j \in 1 .. i : j \in 1 .. m
    BY <1>2
  <2>2. \A j \in 1 .. i : j \in DOMAIN hdrs /\ j \in DOMAIN hdrs' /\ hdrs'[j] = hdrs[j]
    BY <1>2, <2>1
  <2> QED  BY ONLY <2>1, <2>2, WorkKept
<1>4. ASSUME NEW i \in 1 .. Len(works') PROVE works'[i] = WorkUpTo(hdrs', i) /\ hdrs'[i].saved \in {-1, works'[i]}
  <2>1. CASE i \in 1 .. m
    <3>1. i \in 0 .. m /\ i \in 1 .. Len(works)
      BY <1>1, <2>1 DEF Least
    <3>2. works[i] = WorkUpTo(hdrs, i) /\ hdrs[i].saved \in {-1, works[i]}
      BY <3>1 DEF WorksRight
    <3>3. hdrs'[i] = hdrs[i] /\ works'[i] = works[i]
      BY <2>1
    <3>4. WorkUpTo(hdrs', i) = WorkUpTo(hdrs, i)
      BY <1>3, <3>1
    <3> QED  BY ONLY <3>2, <3>3, <3>4
  <2>2. CASE i \notin 1 .. m
    <3>1. i \in Len(hdrs) + 1 .. Len(hdrs')
      BY <1>1, <2>2 DEF Least
    <3> QED  BY <3>1
  <2> QED  BY <2>1, <2>2
<1> QED  BY <1>4 DEF WorksRight

LEMMA HeadersStart == HeaderInit => HeaderInv
<1> SUFFICES ASSUME HeaderInit PROVE HeaderInv
  OBVIOUS
<1> DEFINE w == WorkForBits(GenesisBits)
<1> DEFINE e == Entry(0, GenesisBits, IF Older > 0 THEN -1 ELSE w)
<1>1. hdrs = <<e>> /\ works = <<w>> /\ now = 1 /\ batch = NoBatch
  BY DEF HeaderInit
<1>2. e.time = 0 /\ e.saved \in {-1, w} /\ e.bits = GenesisBits
  BY DEF Entry
<1>3. w \in Int
  BY WorkTyped
<1> HIDE DEF w, e
<1>4. hdrs \in Seq({e}) /\ Len(hdrs) = 1 /\ hdrs[1] = e /\ works \in Seq({w}) /\ Len(works) = 1 /\ works[1] = w
  BY <1>1
<1>5. Headers(hdrs)
  BY <1>2, <1>4 DEF Headers, Timed
<1>6. HeadersRight
  <2>1. 1 .. Len(hdrs) - 1 = {}
    BY <1>4
  <2> QED  BY <1>1, <1>4, <1>5, <2>1 DEF HeadersRight
<1>7. WorkUpTo(hdrs, 1) = w
  <2>1. 1 \in 1 .. Len(hdrs) /\ 1 - 1 = 0
    BY <1>4
  <2>2. WorkUpTo(hdrs, 1) = WorkUpTo(hdrs, 1 - 1) + WorkForBits(hdrs[1].bits) /\ WorkUpTo(hdrs, 0) = 0
    BY <1>5, <2>1, WorkNext
  <2> QED  BY <1>2, <1>3, <1>4, <2>2 DEF w
<1>8. WorksRight
  <2>1. 1 .. Len(works) = {1}
    BY <1>4
  <2> QED  BY <1>2, <1>4, <1>7, <2>1 DEF WorksRight
<1>9. BatchRight
  BY <1>1 DEF BatchRight, NoBatch
<1> QED  BY <1>6, <1>8, <1>9 DEF HeaderInv

(* The same chain and the same saved work. *)
LEMMA ChainSame ==
    ASSUME HeaderInv, UNCHANGED <<hdrs, works>>, now' \in Nat
    PROVE  HeadersRight' /\ WorksRight'
<1>1. HeadersRight'
  BY DEF HeaderInv, HeadersRight
<1>2. WorksRight'
  BY DEF HeaderInv, WorksRight
<1> QED  BY <1>1, <1>2

(* A batch stays allowed as the clock runs. *)
LEMMA BatchSame ==
    ASSUME HeaderInv, batch' = batch, now' \in Nat, now' >= now
    PROVE  BatchRight'
<1>1. now \in Nat /\ Drift \in Nat
  BY HeaderAssumption DEF HeaderInv, HeadersRight
<1>2. SUFFICES ASSUME batch.phase # "none"
               PROVE  WouldConnect(batch.on, batch.headers)'
  BY DEF HeaderInv, BatchRight
<1>3. SUFFICES ASSUME NEW i \in 1 .. Len(batch.headers)
               PROVE  HeaderAllowed(Extended(batch.on, batch.headers, i - 1), batch.headers[i])'
  BY <1>2 DEF WouldConnect
<1>4. HeaderAllowed(Extended(batch.on, batch.headers, i - 1), batch.headers[i])
  BY <1>2 DEF HeaderInv, BatchRight, WouldConnect
<1>5. batch.headers[i].time \in Nat
  BY <1>2 DEF HeaderInv, BatchRight, Headers, Timed
<1>6. batch.headers[i].time <= now' + Drift
  BY <1>1, <1>4, <1>5 DEF HeaderAllowed, TimeAllowed
<1> QED  BY <1>4, <1>6 DEF HeaderAllowed, TimeAllowed

LEMMA ConnectKeeps ==
    ASSUME HeaderInv, ConnectHeader
    PROVE  HeaderInv'
<1> DEFINE n == Len(hdrs)
<1> DEFINE bits == requiredBits(hdrs)
<1> DEFINE work == Last(works) + WorkForBits(bits)
<1>1. PICK time \in Times(hdrs) :
         /\ HeaderAllowed(hdrs, Entry(time, bits, 0))
         /\ hdrs' = Append(hdrs, Entry(time, bits, IF Len(hdrs) < Older THEN -1 ELSE work))
         /\ works' = Append(works, work)
  BY DEF ConnectHeader
<1> DEFINE e == Entry(time, bits, IF Len(hdrs) < Older THEN -1 ELSE work)
<1>2. e.time = time /\ e.bits = bits /\ e.saved \in {-1, work} /\ Entry(time, bits, 0).time = time
  BY DEF Entry
<1>3. time \in Nat /\ time > medianTimePast(hdrs)
  BY <1>1, <1>2 DEF Times, HeaderAllowed, TimeAllowed
<1>4. /\ Headers(hdrs) /\ n \in Nat /\ n > 0 /\ (\E A : hdrs \in Seq(A)) /\ (\E A : works \in Seq(A)) /\ Len(works) = n
      /\ now \in Nat /\ DOMAIN hdrs = 1 .. n
  BY DEF HeaderInv, HeadersRight, WorksRight, Headers
<1>5. hdrs' = Append(hdrs, e) /\ works' = Append(works, work) /\ UNCHANGED <<now, batch>>
  BY <1>1 DEF ConnectHeader
<1>6. work = works[n] + WorkForBits(bits)
  BY <1>4 DEF Last
<1> HIDE DEF bits, work, e
<1>7. Headers(hdrs') /\ Len(hdrs') = n + 1
  BY <1>2, <1>3, <1>4, <1>5, RecentAppend
<1> HIDE DEF n
<1>8. hdrs'[n + 1] = e /\ \A j \in 1 .. n : hdrs'[j] = hdrs[j]
  <2>1. PICK A : hdrs \in Seq(A)
    BY <1>4
  <2> QED  BY <1>5, <2>1 DEF n
<1>9. (\E A : works' \in Seq(A)) /\ Len(works') = n + 1 /\ works'[n + 1] = work /\ \A j \in 1 .. n : works'[j] = works[j]
  <2>1. PICK A : works \in Seq(A)
    BY <1>4
  <2>2. works' \in Seq(A \cup {work})
    BY <1>5, <2>1
  <2> QED  BY <1>4, <1>5, <2>1, <2>2
<1>10. Least(n, n + 1) = n
  BY <1>4 DEF Least
<1>11. SubSeq(hdrs', 1, n) = hdrs
  <2>1. PICK A : hdrs \in Seq(A)
    BY <1>4
  <2>2. hdrs' \in Seq(A \cup {e})
    BY <1>5, <2>1
  <2>3. n \in Nat /\ n <= Len(hdrs') /\ n <= Len(hdrs)
    BY <1>4, <1>7 DEF n
  <2>4. SubSeq(hdrs', 1, n) = SubSeq(hdrs, 1, n)
    BY <1>8, <2>1, <2>2, <2>3, PrefixSame
  <2>5. SubSeq(hdrs, 1, n) = hdrs
    BY <2>1 DEF n
  <2> QED  BY <2>4, <2>5
<1>12. HeadersRight'
  <2>1. \A k \in n .. n : hdrs'[k + 1].time > medianTimePast(SubSeq(hdrs', 1, k))
    <3>1. \A k \in n .. n : k = n
      BY <1>4
    <3>2. hdrs'[n + 1].time > medianTimePast(SubSeq(hdrs', 1, n))
      BY <1>2, <1>3, <1>8, <1>11
    <3> QED  BY ONLY <3>1, <3>2
  <2>2. Len(hdrs') - 1 = n /\ Len(hdrs') > 0 /\ now' \in Nat
    BY <1>4, <1>5, <1>7
  <2> QED  BY <1>7, <1>8, <1>10, <2>1, <2>2, HeadersMove DEF HeaderInv, n
<1>13. WorkUpTo(hdrs', n + 1) = work
  <2>1. n + 1 \in 1 .. Len(hdrs') /\ n \in 1 .. Len(hdrs) /\ n + 1 - 1 = n
    BY <1>4, <1>7 DEF n
  <2>2. WorkUpTo(hdrs', n + 1) = WorkUpTo(hdrs', n) + WorkForBits(e.bits)
    BY <1>7, <1>8, <2>1, WorkNext
  <2>3. \A j \in 1 .. n : j \in DOMAIN hdrs /\ j \in DOMAIN hdrs' /\ hdrs'[j] = hdrs[j]
    <3>1. DOMAIN hdrs' = 1 .. n + 1
      BY <1>7 DEF Headers
    <3> QED  BY <1>4, <1>8, <3>1
  <2>4. WorkUpTo(hdrs', n) = WorkUpTo(hdrs, n)
    BY <1>4, <2>3, WorkKept
  <2>5. works[n] = WorkUpTo(hdrs, n)
    BY <1>4, <2>1 DEF HeaderInv, WorksRight, n
  <2> QED  BY ONLY <1>2, <1>6, <2>2, <2>4, <2>5
<1>14. WorksRight'
  <2>1. \A i \in n + 1 .. n + 1 : works'[i] = WorkUpTo(hdrs', i) /\ hdrs'[i].saved \in {-1, works'[i]}
    <3>1. \A i \in n + 1 .. n + 1 : i = n + 1
      BY <1>4
    <3> QED  BY ONLY <1>2, <1>8, <1>9, <1>13, <3>1
  <2>2. Len(works') = Len(hdrs')
    BY <1>7, <1>9
  <2> QED  BY <1>7, <1>8, <1>9, <1>10, <2>1, <2>2, WorksMove DEF HeaderInv, n
<1>15. BatchRight'
  BY <1>4, <1>5, BatchSame
<1> QED  BY <1>12, <1>14, <1>15 DEF HeaderInv

LEMMA DisconnectKeeps ==
    ASSUME HeaderInv, DisconnectHeader
    PROVE  HeaderInv'
<1> DEFINE n == Len(hdrs)
<1>1. hdrs' = Front(hdrs) /\ works' = Front(works) /\ UNCHANGED <<now, batch>> /\ n > 1
  BY DEF DisconnectHeader
<1>2. /\ Headers(hdrs) /\ n \in Nat /\ (\E A : works \in Seq(A)) /\ Len(works) = n /\ now \in Nat
  BY DEF HeaderInv, HeadersRight, WorksRight, Headers
<1> HIDE DEF n
<1>3. n - 1 \in 1 .. n /\ n - 1 > 0 /\ n - 1 \in Nat
  BY ONLY <1>1, <1>2
<1>4. hdrs' = SubSeq(hdrs, 1, n - 1) /\ works' = SubSeq(works, 1, n - 1)
  BY <1>1, <1>2 DEF Front, n
<1>5. Headers(hdrs') /\ Len(hdrs') = n - 1
  BY <1>2, <1>3, <1>4, PrefixIs DEF n
<1>6. \A j \in 1 .. n - 1 : hdrs'[j] = hdrs[j]
  <2>1. PICK A : hdrs \in Seq(A)
    BY <1>2 DEF Headers
  <2> QED  BY <1>3, <1>4, <2>1 DEF n
<1>7. (\E A : works' \in Seq(A)) /\ Len(works') = n - 1 /\ \A j \in 1 .. n - 1 : works'[j] = works[j]
  <2>1. PICK A : works \in Seq(A)
    BY <1>2
  <2> DEFINE p == SubSeq(works, 1, n - 1)
  <2>2. p \in Seq(A) /\ Len(p) = n - 1 /\ \A j \in 1 .. n - 1 : p[j] = works[j]
    BY <1>2, <1>3, <2>1
  <2> HIDE DEF p
  <2> QED  BY ONLY <1>4, <2>2 DEF p
<1>8. Least(n, n - 1) = n - 1 /\ n .. n - 1 - 1 = {} /\ n + 1 .. n - 1 = {}
  BY <1>2 DEF Least
<1>9. HeadersRight'
  BY <1>1, <1>2, <1>3, <1>5, <1>6, <1>8, HeadersMove DEF HeaderInv, n
<1>10. WorksRight'
  BY <1>5, <1>6, <1>7, <1>8, WorksMove DEF HeaderInv, n
<1>11. BatchRight'
  BY <1>1, <1>2, BatchSame
<1> QED  BY <1>9, <1>10, <1>11 DEF HeaderInv

LEMMA BatchKeeps ==
    ASSUME HeaderInv, BatchBegins \/ BatchEnds \/ BatchUsed
    PROVE  HeaderInv'
<1>1. UNCHANGED <<hdrs, works, now>>
  BY DEF BatchBegins, BatchEnds, BatchUsed
<1>2. Headers(hdrs) /\ Len(hdrs) > 0 /\ now \in Nat
  BY DEF HeaderInv, HeadersRight
<1>3. HeadersRight' /\ WorksRight'
  BY <1>1, <1>2, ChainSame
<1>4. CASE BatchBegins
  <2>1. PICK t1 \in Times(hdrs), wrong \in BOOLEAN :
          LET headers == SubSeq(Grown(t1, wrong)[MaxBatch], Len(hdrs) + 1, Len(hdrs) + MaxBatch)
          IN  BatchAllowed(hdrs, headers) /\ batch' = [phase |-> "hashed", on |-> hdrs, headers |-> headers]
    BY <1>4 DEF BatchBegins
  <2> DEFINE headers == SubSeq(Grown(t1, wrong)[MaxBatch], Len(hdrs) + 1, Len(hdrs) + MaxBatch)
  <2>2. BatchAllowed(hdrs, headers) /\ batch' = [phase |-> "hashed", on |-> hdrs, headers |-> headers]
    BY <2>1
  <2>3. t1 \in Nat
    BY DEF Times
  <2>4. Headers(headers)
    BY <1>2, <2>3, BatchHeaders
  <2> HIDE DEF headers
  <2>5. \A i \in 1 .. Len(headers) : HeaderAllowed(Extended(hdrs, headers, i - 1), headers[i])
    BY <1>2, <2>2, <2>4, BatchIs
  <2>7. /\ batch'.phase = "hashed" /\ batch'.on = hdrs /\ batch'.headers = headers
        /\ batch' = [phase |-> batch'.phase, on |-> batch'.on, headers |-> batch'.headers]
    BY ONLY <2>2
  <2>8. ASSUME NEW i \in 1 .. Len(batch'.headers)
        PROVE  HeaderAllowed(Extended(batch.on, batch.headers, i - 1), batch.headers[i])'
    <3>1. i \in 1 .. Len(headers)
      BY <2>7
    <3>2. HeaderAllowed(Extended(hdrs, headers, i - 1), headers[i])
      BY <2>5, <3>1
    <3>3. Extended(batch.on, batch.headers, i - 1)' = Extended(hdrs, headers, i - 1)
      BY <2>7 DEF Extended
    <3>4. batch'.headers[i] = headers[i] /\ now' = now
      BY <1>1, <2>7
    <3> QED  BY ONLY <3>2, <3>3, <3>4 DEF HeaderAllowed, TimeAllowed
  <2>9. WouldConnect(batch.on, batch.headers)'
    BY <2>8 DEF WouldConnect
  <2>10. BatchRight'
    BY ONLY <1>2, <2>4, <2>7, <2>9 DEF BatchRight
  <2> QED  BY <1>3, <2>10 DEF HeaderInv
<1>5. CASE BatchEnds /\ batch' # NoBatch
  <2>1. batch.phase = "hashed" /\ batch' = [batch EXCEPT !.phase = "valid"]
    BY <1>5 DEF BatchEnds
  <2>2. /\ batch = [phase |-> batch.phase, on |-> batch.on, headers |-> batch.headers]
        /\ Headers(batch.on) /\ Len(batch.on) > 0 /\ Headers(batch.headers)
        /\ WouldConnect(batch.on, batch.headers)
    BY <2>1 DEF HeaderInv, BatchRight
  <2>3. batch' = [phase |-> "valid", on |-> batch.on, headers |-> batch.headers]
    BY ONLY <2>1, <2>2
  <2> QED  BY ONLY <1>1, <1>3, <2>2, <2>3 DEF BatchRight, HeaderInv, WouldConnect, HeaderAllowed, TimeAllowed
<1>6. CASE batch' = NoBatch
  <2>1. BatchRight'
    BY <1>6 DEF BatchRight, NoBatch
  <2> QED  BY <1>3, <2>1 DEF HeaderInv
<1> QED  BY <1>4, <1>5, <1>6 DEF BatchUsed

LEMMA HeadersStep ==
    ASSUME HeaderInv, [HeaderNext]_hdrvars
    PROVE  HeaderInv'
<1>1. now \in Nat /\ Drift \in Nat
  BY HeaderAssumption DEF HeaderInv, HeadersRight
<1>2. CASE Tick
  <2>1. UNCHANGED <<hdrs, works, batch>> /\ now' \in Nat /\ now' >= now
    BY <1>1, <1>2 DEF Tick
  <2> QED  BY <2>1, ChainSame, BatchSame DEF HeaderInv
<1>3. CASE RestartHeaders
  <2>1. works' = works
    BY <1>3, RebuiltIs DEF RestartHeaders, HeaderInv
  <2>2. HeadersRight' /\ WorksRight'
    BY <1>1, <1>3, <2>1, ChainSame DEF RestartHeaders
  <2>3. BatchRight'
    BY <1>3 DEF RestartHeaders, BatchRight, NoBatch
  <2> QED  BY <2>2, <2>3 DEF HeaderInv
<1>4. CASE UNCHANGED hdrvars
  <2>1. UNCHANGED <<hdrs, works, batch>> /\ now' \in Nat /\ now' >= now
    BY <1>1, <1>4 DEF hdrvars
  <2> QED  BY <2>1, ChainSame, BatchSame DEF HeaderInv
<1> QED  BY <1>2, <1>3, <1>4, ConnectKeeps, DisconnectKeeps, BatchKeeps DEF HeaderNext

LEMMA HeadersHold ==
    ASSUME HeaderInv
    PROVE  HeaderRulesHold
<1>1. Headers(hdrs) /\ Len(hdrs) \in Nat
  BY DEF HeaderInv, HeadersRight, Headers
<1>2. MedianNeverFalls
  <2> SUFFICES ASSUME NEW n \in 1 .. Len(hdrs) - 1
               PROVE  medianTimePast(SubSeq(hdrs, 1, n + 1)) >= medianTimePast(SubSeq(hdrs, 1, n))
    BY DEF MedianNeverFalls
  <2> DEFINE p == SubSeq(hdrs, 1, n)
  <2>1. n \in 1 .. Len(hdrs) /\ n + 1 \in 1 .. Len(hdrs)
    BY <1>1
  <2>2. Headers(p) /\ Len(p) > 0
    BY <1>1, <2>1, PrefixIs
  <2>3. hdrs[n + 1].time \in Nat /\ hdrs[n + 1].time > medianTimePast(p)
    BY <2>1 DEF HeaderInv, HeadersRight, Headers, Timed
  <2>4. SubSeq(hdrs, 1, n + 1) = Append(p, hdrs[n + 1])
    <3>1. PICK A : hdrs \in Seq(A)
      BY <1>1 DEF Headers
    <3>2. p \in Seq(A) /\ Len(p) = n /\ \A i \in 1 .. n : p[i] = hdrs[i]
      BY <2>1, <3>1
    <3>3. SubSeq(hdrs, 1, n + 1) = [i \in 1 .. n + 1 |-> hdrs[i]]
      BY <2>1, <3>1
    <3> DEFINE q == Append(p, hdrs[n + 1])
    <3> HIDE DEF p
    <3>4. hdrs[n + 1] \in A
      BY <2>1, <3>1
    <3>5. q \in Seq(A) /\ Len(q) = n + 1 /\ q[n + 1] = hdrs[n + 1] /\ \A i \in 1 .. n : q[i] = p[i]
      BY <3>2, <3>4
    <3> HIDE DEF q
    <3>6. \A i \in 1 .. n + 1 : q[i] = hdrs[i]
      BY <2>1, <3>2, <3>5
    <3>7. q = [i \in 1 .. n + 1 |-> q[i]]
      BY <3>5
    <3> QED  BY ONLY <3>3, <3>6, <3>7 DEF q
  <2> HIDE DEF p
  <2>5. medianTimePast(Append(p, hdrs[n + 1])) >= medianTimePast(p)
    BY <2>2, <2>3, MedianRises
  <2> QED  BY ONLY <2>4, <2>5 DEF p
<1>3. HeadersWouldConnect
  <2> SUFFICES ASSUME batch.phase = "valid", batch.on = hdrs, NEW i \in DOMAIN batch.headers
               PROVE  HeaderAllowed(hdrs \o SubSeq(batch.headers, 1, i - 1), batch.headers[i])
    BY DEF HeadersWouldConnect
  <2>1. Headers(batch.headers) /\ WouldConnect(hdrs, batch.headers)
    BY DEF HeaderInv, BatchRight
  <2>2. i \in 1 .. Len(batch.headers)
    BY <2>1 DEF Headers
  <2> QED  BY <2>1, <2>2 DEF WouldConnect, Extended
<1>4. ChainworkExact
  <2>1. DOMAIN works = 1 .. Len(works) /\ DOMAIN hdrs = 1 .. Len(hdrs) /\ Len(works) = Len(hdrs)
    BY <1>1 DEF HeaderInv, WorksRight, Headers
  <2>2. \A i \in 1 .. Len(works) : works[i] = WorkUpTo(hdrs, i)
    BY DEF HeaderInv, WorksRight
  <2> QED  BY <2>1, <2>2 DEF ChainworkExact, WorkUpTo, WeightOf
<1> QED  BY <1>2, <1>3, <1>4 DEF HeaderRulesHold

(* However headers are accepted, one by one, in batches checked without the lock, after    *)
(* disconnects and restarts: the median time past never falls as the chain grows, a batch  *)
(* found valid on the tip would connect header by header, and the chainwork kept in memory *)
(* is the sum of the work of the blocks.                                                   *)
THEOREM HeaderRulesKept == HeaderSpec => []HeaderRulesHold
<1>1. HeaderInit => HeaderInv
  BY HeadersStart
<1>2. HeaderInv /\ [HeaderNext]_hdrvars => HeaderInv'
  BY HeadersStep
<1>3. HeaderInv => HeaderRulesHold
  BY HeadersHold
<1> QED  BY <1>1, <1>2, <1>3, PTL DEF HeaderSpec

-----------------------------------------------------------------------------
(* BlockRules *)

(* A function computed step by step from a, each step a function on S. *)
Steps(f, n, a, step) == f = [i \in 0 .. n |-> IF i = 0 THEN a ELSE step[i][f[i - 1]]]

LEMMA StepsExist ==
    ASSUME NEW S, NEW m \in Nat, NEW a \in S, NEW step \in [1 .. m -> [S -> S]]
    PROVE  \E f \in [0 .. m -> S] : Steps(f, m, a, step)
<1> DEFINE Body(f, i) == IF i = 0 THEN a ELSE step[i][f[i - 1]]
<1> DEFINE Part(f, n) == f \in [0 .. n -> S] /\ \A i \in 0 .. n : f[i] = Body(f, i)
<1> DEFINE Bad == {n \in 0 .. m : ~\E f : Part(f, n)}
<1>1. Bad = {}
  <2> SUFFICES ASSUME Bad # {} PROVE FALSE
    OBVIOUS
  <2>1. PICK n \in Bad : \A k \in Bad : n <= k
    <3>1. Bad \subseteq Nat
      OBVIOUS
    <3> HIDE DEF Bad
    <3> QED  BY <3>1, LeastNumber
  <2>2. n \in 0 .. m /\ ~\E f : Part(f, n)
    OBVIOUS
  <2>3. CASE n = 0
    <3> DEFINE f == [i \in 0 .. n |-> a]
    <3>1. f \in [0 .. n -> S] /\ \A i \in 0 .. n : i = 0 /\ f[i] = a
      BY <2>3
    <3> HIDE DEF f
    <3>2. Part(f, n)
      BY <3>1
    <3> HIDE DEF Part
    <3> QED  BY <2>2, <3>2
  <2>4. CASE n # 0
    <3>1. n - 1 \in 0 .. m /\ ~(n <= n - 1)
      BY <2>2, <2>4
    <3>2. n - 1 \notin Bad
      BY <2>1, <3>1
    <3>3. PICK g : Part(g, n - 1)
      BY <3>1, <3>2
    <3>4. g \in [0 .. n - 1 -> S] /\ \A i \in 0 .. n - 1 : g[i] = Body(g, i)
      BY <3>3
    <3>5. step[n] \in [S -> S] /\ g[n - 1] \in S
      BY <2>2, <2>4, <3>4
    <3> DEFINE f == [i \in 0 .. n |-> IF i = n THEN step[n][g[n - 1]] ELSE g[i]]
    <3>6. f \in [0 .. n -> S]
      BY <2>2, <3>4, <3>5
    <3>7. (\A i \in 0 .. n - 1 : f[i] = g[i]) /\ f[n] = step[n][g[n - 1]]
      BY <2>2
    <3> HIDE DEF f
    <3>8. ASSUME NEW i \in 0 .. n PROVE f[i] = Body(f, i)
      <4>1. CASE i = n
        <5>1. n - 1 \in 0 .. n - 1
          BY <2>2, <2>4
        <5> QED  BY ONLY <2>4, <3>7, <4>1, <5>1
      <4>2. CASE i # n /\ i # 0
        <5>1. i \in 0 .. n - 1 /\ i - 1 \in 0 .. n - 1
          BY <2>2, <4>2
        <5> QED  BY ONLY <3>4, <3>7, <4>2, <5>1
      <4>3. CASE i = 0
        <5>1. 0 \in 0 .. n - 1
          BY <2>2, <2>4
        <5> QED  BY ONLY <3>4, <3>7, <4>3, <5>1
      <4> QED  BY <4>1, <4>2, <4>3
    <3>9. Part(f, n)
      BY <3>6, <3>8
    <3> HIDE DEF Part
    <3> QED  BY <2>2, <3>9
  <2> QED  BY <2>3, <2>4
<1>2. m \notin Bad
  BY ONLY <1>1
<1>3. PICK f : Part(f, m)
  BY <1>2
<1>4. Steps(f, m, a, step)
  BY <1>3 DEF Steps
<1> QED  BY <1>3, <1>4

(* A subsidy is a natural number, the first that of the genesis block. *)
LEMMA SubsidyIs ==
    ASSUME NEW h \in Nat
    PROVE  BlockSubsidy(h) \in Nat /\ BlockSubsidy(0) = Subsidy /\ Subsidy \in 0 .. MaxMoney
<1> DEFINE Halves(f) == f = [n \in 0 .. 63 |-> IF n = 0 THEN Subsidy ELSE f[n - 1] \div 2]
<1> DEFINE step == [n \in 1 .. 63 |-> [x \in Nat |-> x \div 2]]
<1>1. Subsidy \in Nat /\ MaxMoney \in Nat /\ Subsidy \in 0 .. MaxMoney /\ HalvingInterval \in Nat \ {0}
  BY BlockAssumption
<1>2. step \in [1 .. 63 -> [Nat -> Nat]]
  <2>1. \A x \in Nat : x \div 2 \in Nat
    OBVIOUS
  <2> QED  BY <2>1
<1>3. PICK f \in [0 .. 63 -> Nat] : Steps(f, 63, Subsidy, step)
  <2> HIDE DEF step
  <2> QED  BY <1>1, <1>2, StepsExist
<1>4. ASSUME NEW n \in 0 .. 63, n # 0 PROVE step[n][f[n - 1]] = f[n - 1] \div 2
  <2>1. n - 1 \in 0 .. 63 /\ n \in 1 .. 63
    BY <1>4
  <2> QED  BY <2>1
<1> HIDE DEF step
<1>5. Halves(f)
  <2>1. [n \in 0 .. 63 |-> IF n = 0 THEN Subsidy ELSE step[n][f[n - 1]]]
          = [n \in 0 .. 63 |-> IF n = 0 THEN Subsidy ELSE f[n - 1] \div 2]
    BY <1>4
  <2> QED  BY <1>3, <2>1 DEF Steps
<1> DEFINE halved == CHOOSE g : Halves(g)
<1>6. Halves(halved)
  <2> HIDE DEF Halves
  <2> QED  BY <1>5
<1>7. halved = f
  <2> DEFINE Bad == {n \in 0 .. 63 : halved[n] # f[n]}
  <2>1. DOMAIN halved = 0 .. 63 /\ DOMAIN f = 0 .. 63
    BY <1>5, <1>6
  <2>2. /\ \A n \in 0 .. 63 : halved[n] = IF n = 0 THEN Subsidy ELSE halved[n - 1] \div 2
        /\ \A n \in 0 .. 63 : f[n] = IF n = 0 THEN Subsidy ELSE f[n - 1] \div 2
    BY <1>5, <1>6
  <2>3. Bad = {}
    <3> SUFFICES ASSUME Bad # {} PROVE FALSE
      OBVIOUS
    <3> HIDE DEF halved, Halves
    <3>1. PICK n \in Bad : \A k \in Bad : n <= k
      <4>1. Bad \subseteq Nat
        OBVIOUS
      <4> HIDE DEF Bad
      <4> QED  BY <4>1, LeastNumber
    <3>2. n \in 0 .. 63 /\ halved[n] # f[n]
      OBVIOUS
    <3>3. n # 0
      BY <2>2, <3>2
    <3>4. n - 1 \in 0 .. 63 /\ ~(n <= n - 1)
      BY ONLY <3>2, <3>3
    <3>5. halved[n - 1] = f[n - 1]
      BY <3>1, <3>4
    <3> QED  BY <2>2, <3>2, <3>3, <3>5
  <2>4. \A n \in 0 .. 63 : halved[n] = f[n]
    BY <2>3
  <2>5. halved = [n \in DOMAIN halved |-> halved[n]] /\ f = [n \in DOMAIN f |-> f[n]]
    BY <1>3, <1>6
  <2> QED  BY <2>1, <2>4, <2>5
<1> DEFINE times == h \div HalvingInterval
<1>8. times \in Nat /\ 0 \div HalvingInterval = 0
  BY <1>1
<1>9. f[0] = Subsidy
  BY <1>5
<1>10. \A k \in Nat : BlockSubsidy(k) = IF k \div HalvingInterval >= 64 THEN 0 ELSE f[k \div HalvingInterval]
  <2> TAKE k \in Nat
  <2>1. ~(k < 0)
    OBVIOUS
  <2>2. BlockSubsidy(k) = IF k < 0 \/ k \div HalvingInterval >= 64 THEN 0 ELSE halved[k \div HalvingInterval]
    BY DEF BlockSubsidy
  <2> HIDE DEF halved
  <2> QED  BY ONLY <1>7, <2>1, <2>2
<1>11. BlockSubsidy(0) = Subsidy
  BY <1>8, <1>9, <1>10
<1>12. BlockSubsidy(h) \in Nat
  <2>1. BlockSubsidy(h) = IF times >= 64 THEN 0 ELSE f[times]
    BY <1>10
  <2>2. ~(times >= 64) => times \in 0 .. 63
    BY <1>8
  <2> HIDE DEF times
  <2> QED  BY <1>3, <2>1, <2>2
<1> QED  BY <1>1, <1>11, <1>12

(* An int64 in the range of money is the sum it was computed from. *)
LEMMA Int64Is ==
    ASSUME NEW n \in Int
    PROVE  /\ Int64(n) \in Int
           /\ n \in 0 .. 2 * MaxMoney /\ MoneyRange(Int64(n)) => Int64(n) = n
<1> DEFINE half == Wrap \div 2
<1>1. Wrap \in Nat /\ Wrap > 0 /\ MaxMoney \in Nat /\ 2 * MaxMoney < Wrap
  BY BlockAssumption
<1>2. half \in Nat /\ half < Wrap
  BY <1>1
<1>3. Int64(n) = ((n + half) % Wrap) - half
  BY DEF Int64
<1> HIDE DEF half
<1>4. Int64(n) \in Int
  <2>1. (n + half) % Wrap \in Int
    BY ONLY <1>1, <1>2, n \in Int
  <2> QED  BY ONLY <1>2, <1>3, <2>1
<1>5. ASSUME n \in 0 .. 2 * MaxMoney, MoneyRange(Int64(n)) PROVE Int64(n) = n
  <2>1. n \in Nat /\ n < Wrap
    BY <1>1, <1>5
  <2>2. CASE n + half < Wrap
    <3>1. (n + half) % Wrap = n + half
      BY ONLY <1>1, <1>2, <2>1, <2>2
    <3> QED  BY ONLY <1>2, <1>3, <2>1, <3>1
  <2>3. CASE ~(n + half < Wrap)
    <3>1. (n + half) % Wrap = n + half - Wrap
      BY ONLY <1>1, <1>2, <2>1, <2>3
    <3>2. Int64(n) < 0 /\ Int64(n) >= 0
      BY ONLY <1>1, <1>2, <1>3, <1>5, <2>1, <3>1 DEF MoneyRange
    <3> QED  BY ONLY <1>4, <3>2
  <2> QED  BY <2>2, <2>3
<1> QED  BY <1>4, <1>5

(* Amounts that were found in range, and their sum. *)
LEMMA TotalIs ==
    ASSUME NEW amounts \in Seq(Int), Total(amounts).ok
    PROVE  /\ \A i \in DOMAIN amounts : amounts[i] \in 0 .. MaxMoney
           /\ Total(amounts).sum = WeightOf(amounts, DOMAIN amounts)
           /\ Total(amounts).sum \in 0 .. MaxMoney
<1> DEFINE n == Len(amounts)
<1> DEFINE Right(g) == g = [i \in 0 .. n |-> IF i = 0 THEN 0 ELSE Int64(g[i - 1] + amounts[i])]
<1> DEFINE step == [i \in 1 .. n |-> [x \in Int |-> Int64(x + amounts[i])]]
<1> DEFINE sum == CHOOSE g : Right(g)
<1>1. n \in Nat /\ DOMAIN amounts = 1 .. n /\ \A i \in 1 .. n : amounts[i] \in Int
  OBVIOUS
<1>2. MaxMoney \in Nat
  BY BlockAssumption
<1> HIDE DEF n
<1>3. Right(sum)
  <2>1. step \in [1 .. n -> [Int -> Int]]
    <3>1. ASSUME NEW i \in 1 .. n, NEW x \in Int PROVE Int64(x + amounts[i]) \in Int
      <4>1. x + amounts[i] \in Int
        BY <1>1
      <4> QED  BY <4>1, Int64Is
    <3> QED  BY <3>1
  <2>2. PICK f \in [0 .. n -> Int] : Steps(f, n, 0, step)
    <3>1. n \in Nat /\ 0 \in Int
      BY <1>1
    <3> HIDE DEF step
    <3> QED  BY ONLY <2>1, <3>1, StepsExist
  <2>3. ASSUME NEW i \in 0 .. n, i # 0 PROVE step[i][f[i - 1]] = Int64(f[i - 1] + amounts[i])
    <3>1. i - 1 \in 0 .. n /\ i \in 1 .. n
      BY <1>1, <2>3
    <3> QED  BY <3>1
  <2> HIDE DEF step
  <2>4. Right(f)
    <3>1. [i \in 0 .. n |-> IF i = 0 THEN 0 ELSE step[i][f[i - 1]]]
            = [i \in 0 .. n |-> IF i = 0 THEN 0 ELSE Int64(f[i - 1] + amounts[i])]
      BY <2>3
    <3> QED  BY <2>2, <3>1 DEF Steps
  <2> HIDE DEF Right
  <2> QED  BY <2>4
<1>4. /\ \A i \in 1 .. n : MoneyRange(amounts[i]) /\ MoneyRange(sum[i])
      /\ Total(amounts).sum = sum[n]
  BY <1>1 DEF Total, n
<1>5. \A i \in 0 .. n : sum[i] = IF i = 0 THEN 0 ELSE Int64(sum[i - 1] + amounts[i])
  BY <1>3
<1> HIDE DEF sum, Right
<1>6. \A i \in 1 .. n : amounts[i] \in 0 .. MaxMoney
  <2> TAKE i \in 1 .. n
  <2> QED  BY <1>1, <1>2, <1>4 DEF MoneyRange
<1> DEFINE Good(i) == sum[i] = WeightOf(amounts, 1 .. i) /\ sum[i] \in 0 .. MaxMoney
<1>7. Good(0)
  <2>1. 1 .. 0 = {} /\ 0 \in 0 .. n
    BY <1>1
  <2>2. WeightOf(amounts, {}) = 0
    BY FS_EmptySet, WeightNext
  <2> QED  BY <1>2, <1>5, <2>1, <2>2
<1>8. ASSUME NEW i \in 1 .. n, Good(i - 1) PROVE Good(i)
  <2>1. i \in 0 .. n /\ i # 0 /\ i \in Nat
    BY <1>1
  <2>2. sum[i] = Int64(sum[i - 1] + amounts[i])
    BY <1>5, <2>1
  <2> DEFINE S == 1 .. i - 1
  <2> DEFINE T == 1 .. i
  <2>3. IsFiniteSet(S) /\ i \notin S /\ T = S \cup {i} /\ \A x \in S \cup {i} : amounts[x] \in Int
    <3>1. i - 1 \in Int
      BY <2>1
    <3>2. IsFiniteSet(S)
      BY <3>1, FS_Interval
    <3> QED  BY <1>1, <2>1, <3>2
  <2> HIDE DEF S, T
  <2>4. WeightOf(amounts, S \cup {i}) = WeightOf(amounts, S) + amounts[i]
    <3>1. Addable(S, i, amounts)
      BY ONLY <2>3 DEF Addable
    <3> QED  BY ONLY <3>1, WeightAddTo
  <2>5. sum[i - 1] = WeightOf(amounts, S) /\ sum[i - 1] \in 0 .. MaxMoney
    BY <1>8 DEF S
  <2>6. amounts[i] \in 0 .. MaxMoney /\ MoneyRange(sum[i])
    BY <1>4, <1>6
  <2>7. sum[i - 1] + amounts[i] \in 0 .. 2 * MaxMoney /\ sum[i - 1] + amounts[i] \in Int
    BY ONLY <1>2, <2>5, <2>6
  <2>8. sum[i] = sum[i - 1] + amounts[i]
    BY <2>2, <2>6, <2>7, Int64Is
  <2>9. sum[i] \in 0 .. MaxMoney
    BY ONLY <1>2, <2>5, <2>6, <2>8 DEF MoneyRange
  <2> QED  BY <2>3, <2>4, <2>5, <2>8, <2>9 DEF T
<1> DEFINE Bad == {i \in 0 .. n : ~Good(i)}
<1> HIDE DEF Good
<1>9. Bad = {}
  <2> SUFFICES ASSUME Bad # {} PROVE FALSE
    OBVIOUS
  <2>1. PICK i \in Bad : \A k \in Bad : i <= k
    <3>1. Bad \subseteq Nat
      OBVIOUS
    <3> HIDE DEF Bad
    <3> QED  BY <3>1, LeastNumber
  <2>2. i \in 0 .. n /\ ~Good(i)
    OBVIOUS
  <2>3. i # 0
    BY <1>7, <2>2
  <2>4. i \in 1 .. n /\ i - 1 \in 0 .. n /\ ~(i <= i - 1)
    BY <1>1, <2>2, <2>3
  <2>5. Good(i - 1)
    BY <2>1, <2>4
  <2> QED  BY <1>8, <2>2, <2>4, <2>5
<1>10. Good(n)
  BY <1>1, <1>9
<1>11. sum[n] = WeightOf(amounts, 1 .. n) /\ sum[n] \in 0 .. MaxMoney
  BY ONLY <1>10 DEF Good
<1> QED  BY <1>1, <1>4, <1>6, <1>11

(* The value of a set of entries as a sum. *)
ValuesOf(S) == [e \in S |-> e.value]
Valued(S) == \A e \in S : e.value \in 0 .. MaxMoney

LEMMA ValueIs ==
    ASSUME NEW S, IsFiniteSet(S)
    PROVE  Value(S) = WeightOf(ValuesOf(S), S)
<1> DEFINE wt == ValuesOf(S)
<1> DEFINE Own(g) == g = [s \in SUBSET S |-> IF s = {} THEN 0 ELSE (Some(s)).value + g[s \ {Some(s)}]]
<1>1. ASSUME NEW g PROVE Own(g) <=> Adds(g, S, wt)
  <2>1. ASSUME NEW s \in SUBSET S, s # {} PROVE wt[Some(s)] = (Some(s)).value
    <3>1. Some(s) \in S
      BY <2>1 DEF Some
    <3> QED  BY <3>1 DEF ValuesOf
  <2>2. [s \in SUBSET S |-> IF s = {} THEN 0 ELSE (Some(s)).value + g[s \ {Some(s)}]]
         = [s \in SUBSET S |-> IF s = {} THEN 0 ELSE wt[Some(s)] + g[s \ {Some(s)}]]
    <3> HIDE DEF wt
    <3> QED  BY <2>1
  <2> QED  BY <2>2 DEF Adds
<1>2. PICK g : Adds(g, S, wt) /\ WeightOf(wt, S) = g[S]
  BY WeightIs
<1> DEFINE iter == CHOOSE h : Own(h)
<1>3. Own(iter)
  <2> HIDE DEF Own
  <2> QED  BY <1>1, <1>2
<1>4. Value(S) = iter[S]
  BY DEF Value, MapThenSumSet, MapThenFoldSet, Some
<1>5. Adds(iter, S, wt)
  BY <1>1, <1>3
<1>6. iter[S] = g[S]
  <2> HIDE DEF iter, wt
  <2> QED  BY <1>2, <1>5, AddsAgree
<1> QED  BY <1>2, <1>4, <1>6

LEMMA ValueType ==
    ASSUME NEW S, IsFiniteSet(S), Valued(S)
    PROVE  Value(S) \in Nat /\ Value({}) = 0
<1>1. \A e \in S : ValuesOf(S)[e] \in Nat
  BY DEF Valued, ValuesOf
<1>2. WeightOf(ValuesOf(S), S) \in Nat
  BY <1>1, WeightType
<1>3. WeightOf(ValuesOf({}), {}) = 0 /\ IsFiniteSet({})
  BY FS_EmptySet, WeightNext
<1> QED  BY <1>2, <1>3, ValueIs

(* Entries are worth what a part and the rest of them are. *)
LEMMA ValuePart ==
    ASSUME NEW S, IsFiniteSet(S), Valued(S), NEW T \in SUBSET S
    PROVE  Value(T) \in Nat /\ Value(S \ T) \in Nat /\ Value(S) = Value(T) + Value(S \ T)
<1> DEFINE wt == ValuesOf(S)
<1> DEFINE R == S \ T
<1>1. \A e \in S : wt[e] \in Nat
  BY DEF Valued, ValuesOf
<1>2. IsFiniteSet(T) /\ IsFiniteSet(R)
  BY FS_Subset
<1>3. WeightOf(wt, T) \in Nat /\ WeightOf(wt, R) \in Nat /\ WeightOf(wt, S) = WeightOf(wt, T) + WeightOf(wt, R)
  BY <1>1, WeightPart
<1>4. WeightOf(wt, T) = WeightOf(ValuesOf(T), T)
  <2>1. \A x \in T : wt[x] = ValuesOf(T)[x]
    BY DEF ValuesOf
  <2> QED  BY ONLY <2>1, <1>2, WeightSame
<1>5. WeightOf(wt, R) = WeightOf(ValuesOf(R), R)
  <2>1. \A x \in R : wt[x] = ValuesOf(R)[x]
    BY DEF ValuesOf
  <2> QED  BY ONLY <2>1, <1>2, WeightSame
<1>6. Value(S) = WeightOf(wt, S) /\ Value(T) = WeightOf(wt, T) /\ Value(R) = WeightOf(wt, R)
  BY <1>2, <1>4, <1>5, ValueIs
<1> QED  BY <1>3, <1>6

LEMMA ValueUnion ==
    ASSUME NEW S, IsFiniteSet(S), Valued(S), NEW T, IsFiniteSet(T), Valued(T), S \cap T = {}
    PROVE  Value(S \cup T) = Value(S) + Value(T) /\ IsFiniteSet(S \cup T) /\ Valued(S \cup T)
<1>1. IsFiniteSet(S \cup T) /\ Valued(S \cup T) /\ S \in SUBSET (S \cup T)
  BY FS_Union DEF Valued
<1>2. Value(S \cup T) = Value(S) + Value((S \cup T) \ S)
  BY <1>1, ValuePart
<1>3. (S \cup T) \ S = T
  OBVIOUS
<1> QED  BY <1>1, <1>2, <1>3

(* The subsidies up to a height. *)
Paid(h) == MapThenSumSet(BlockSubsidy, 0 .. h)

LEMMA PaidIs ==
    ASSUME NEW h \in Nat
    PROVE  Paid(h) = WeightOf([x \in 0 .. h |-> BlockSubsidy(x)], 0 .. h)
<1> DEFINE S == 0 .. h
<1> DEFINE wt == [x \in S |-> BlockSubsidy(x)]
<1> DEFINE Own(g) == g = [s \in SUBSET S |-> IF s = {} THEN 0 ELSE BlockSubsidy(Some(s)) + g[s \ {Some(s)}]]
<1>0. IsFiniteSet(S)
  BY FS_Interval
<1>1. ASSUME NEW g PROVE Own(g) <=> Adds(g, S, wt)
  <2>1. ASSUME NEW s \in SUBSET S, s # {} PROVE wt[Some(s)] = BlockSubsidy(Some(s))
    <3>1. Some(s) \in S
      BY <2>1 DEF Some
    <3> QED  BY <3>1
  <2>2. [s \in SUBSET S |-> IF s = {} THEN 0 ELSE BlockSubsidy(Some(s)) + g[s \ {Some(s)}]]
         = [s \in SUBSET S |-> IF s = {} THEN 0 ELSE wt[Some(s)] + g[s \ {Some(s)}]]
    <3> HIDE DEF wt, S
    <3> QED  BY <2>1
  <2> QED  BY <2>2 DEF Adds
<1> HIDE DEF wt
<1>2. PICK g : Adds(g, S, wt) /\ WeightOf(wt, S) = g[S]
  <2> HIDE DEF S
  <2> QED  BY <1>0, WeightIs
<1> DEFINE iter == CHOOSE f : Own(f)
<1>3. Own(iter)
  <2> HIDE DEF Own, S
  <2> QED  BY <1>1, <1>2
<1>4. Paid(h) = iter[S]
  BY DEF Paid, MapThenSumSet, MapThenFoldSet, Some
<1>5. Adds(iter, S, wt)
  BY <1>1, <1>3
<1>6. iter[S] = g[S]
  <2> HIDE DEF iter, S, Own
  <2> QED  BY <1>0, <1>2, <1>5, AddsAgree
<1> QED  BY <1>2, <1>4, <1>6 DEF wt

LEMMA PaidNext ==
    ASSUME NEW h \in Nat
    PROVE  /\ Paid(h) \in Nat /\ Paid(0) = BlockSubsidy(0)
           /\ h > 0 => Paid(h) = Paid(h - 1) + BlockSubsidy(h)
<1>1. ASSUME NEW k \in Nat
      PROVE  LET w == [x \in 0 .. k |-> BlockSubsidy(x)]
             IN  IsFiniteSet(0 .. k) /\ (\A x \in 0 .. k : w[x] \in Nat) /\ Paid(k) \in Nat /\ Paid(k) = WeightOf(w, 0 .. k)
  <2> DEFINE S == 0 .. k
  <2> DEFINE w == [x \in S |-> BlockSubsidy(x)]
  <2>1. IsFiniteSet(S)
    BY FS_Interval
  <2>2. \A x \in S : w[x] \in Nat
    BY SubsidyIs
  <2>3. Paid(k) = WeightOf(w, S)
    BY PaidIs
  <2>4. WeightOf(w, S) \in Nat
    <3> HIDE DEF w, S
    <3> QED  BY <2>1, <2>2, WeightType
  <2> QED  BY <2>1, <2>2, <2>3, <2>4
<1>2. Paid(0) = BlockSubsidy(0)
  <2> DEFINE S == 0 .. 0
  <2> DEFINE w == [x \in S |-> BlockSubsidy(x)]
  <2>1. Paid(0) = WeightOf(w, S) /\ IsFiniteSet(S) /\ S = {0}
    <3>1. 0 \in Nat /\ 0 \in Int
      OBVIOUS
    <3>2. IsFiniteSet(0 .. 0)
      BY ONLY <3>1, FS_Interval
    <3>3. Paid(0) = WeightOf(w, S)
      BY ONLY <3>1, PaidIs
    <3> QED  BY <3>2, <3>3
  <2>2. Some(S) = 0 /\ S \ {0} = {} /\ S # {}
    BY <2>1 DEF Some
  <2>3. w[0] = BlockSubsidy(0) /\ BlockSubsidy(0) \in Nat
    BY SubsidyIs
  <2> HIDE DEF w, S
  <2>4. WeightOf(w, S) = w[0] + WeightOf(w, {}) /\ WeightOf(w, {}) = 0
    BY <2>1, <2>2, WeightNext
  <2> QED  BY <2>1, <2>3, <2>4
<1>3. ASSUME h > 0 PROVE Paid(h) = Paid(h - 1) + BlockSubsidy(h)
  <2> DEFINE S == 0 .. h - 1
  <2> DEFINE T == 0 .. h
  <2> DEFINE v == [x \in S |-> BlockSubsidy(x)]
  <2> DEFINE w == [x \in T |-> BlockSubsidy(x)]
  <2>1. h - 1 \in Nat
    BY <1>3
  <2>2. Paid(h - 1) = WeightOf(v, S) /\ IsFiniteSet(S)
    BY <1>1, <2>1
  <2>3. Paid(h) = WeightOf(w, T) /\ \A x \in T : w[x] \in Nat
    BY <1>1
  <2>4. T = S \cup {h} /\ h \notin S /\ (\A x \in S : w[x] = v[x]) /\ w[h] = BlockSubsidy(h)
    BY <2>1
  <2> HIDE DEF S, T, v, w
  <2>5. Addable(S, h, w)
    BY <2>2, <2>3, <2>4 DEF Addable
  <2>6. WeightOf(w, S \cup {h}) = WeightOf(w, S) + w[h]
    BY ONLY <2>5, WeightAddTo
  <2>7. WeightOf(w, S) = WeightOf(v, S)
    BY <2>2, <2>4, WeightSame
  <2> QED  BY <2>2, <2>3, <2>4, <2>6, <2>7
<1> QED  BY <1>1, <1>2, <1>3

(* The outputs a transaction makes. *)
LEMMA CreatedIs ==
    ASSUME NEW id, NEW outs, NEW h
    PROVE  /\ \A e \in Created(id, outs, h) : e.id = id /\ e.vout \in DOMAIN outs /\ e.value = outs[e.vout]
                                              /\ Outpoint(e)[1] = id
           /\ \A e, f \in Created(id, outs, h) : Outpoint(e) = Outpoint(f) => e = f
<1>1. ASSUME NEW e \in Created(id, outs, h)
      PROVE  \E v \in DOMAIN outs :
                e = [id |-> id, vout |-> v, value |-> outs[v], height |-> h, coinbase |-> id <= MaxHeight]
  BY <1>1 DEF Created
<1> QED  BY <1>1 DEF Outpoint

LEMMA CreatedValue ==
    ASSUME NEW id, NEW outs \in Seq(Int), NEW h, \A i \in DOMAIN outs : outs[i] \in 0 .. MaxMoney
    PROVE  /\ IsFiniteSet(Created(id, outs, h)) /\ Valued(Created(id, outs, h))
           /\ Value(Created(id, outs, h)) = WeightOf(outs, DOMAIN outs)
<1> DEFINE S == DOMAIN outs
<1> DEFINE f == [v \in S |-> [id |-> id, vout |-> v, value |-> outs[v], height |-> h, coinbase |-> id <= MaxHeight]]
<1> DEFINE T == {f[v] : v \in S}
<1>1. S = 1 .. Len(outs) /\ Len(outs) \in Nat
  OBVIOUS
<1>2. IsFiniteSet(S)
  BY <1>1, FS_Interval
<1>3. Created(id, outs, h) = T
  BY DEF Created
<1>4. OneToOne(f, S)
  <2>1. \A x \in S : f[x].vout = x
    OBVIOUS
  <2> HIDE DEF f
  <2> QED  BY <2>1 DEF OneToOne
<1>5. \A v \in S : f[v].value = outs[v]
  OBVIOUS
<1>6. \A v \in S : outs[v] \in Int /\ outs[v] \in 0 .. MaxMoney
  OBVIOUS
<1> HIDE DEF f, S
<1>7. IsFiniteSet(T)
  BY <1>2, ImageSmall
<1>8. Valued(T)
  BY <1>5, <1>6 DEF Valued
<1>9. Value(T) = WeightOf(outs, S)
  <2>1. \A v \in S : ValuesOf(T)[f[v]] = outs[v]
    BY <1>5 DEF ValuesOf
  <2>2. WeightOf(ValuesOf(T), T) = WeightOf(outs, S)
    <3> DEFINE w == ValuesOf(T)
    <3>1. (\A v \in S : w[f[v]] = outs[v]) /\ \A v \in S : outs[v] \in Int
      BY <1>6, <2>1
    <3> HIDE DEF w
    <3>2. WeightOf(w, {f[v] : v \in S}) = WeightOf(outs, S)
      BY ONLY <1>2, <1>4, <3>1, WeightImage
    <3> QED  BY <3>2 DEF w
  <2> QED  BY <1>7, <2>2, ValueIs
<1> QED  BY <1>3, <1>7, <1>8, <1>9 DEF S

(* The transactions at these places have ids of their own, and each input spends an     *)
(* output of an earlier one, which no other input spends.                               *)
OwnIds(chain, P) == \A p, q \in P : IdAt(chain, p) = IdAt(chain, q) => p = q
FromEarlier(chain, P) ==
    \A p \in P : \A i \in DOMAIN InsAt(chain, p) :
        \E q \in P : Earlier(q, p) /\ \E e \in MadeAt(chain, q) : Outpoint(e) = InsAt(chain, p)[i]
SpentOnce(chain, P) ==
    \A p, q \in P : \A i \in DOMAIN InsAt(chain, p) : \A j \in DOMAIN InsAt(chain, q) :
        InsAt(chain, p)[i] = InsAt(chain, q)[j] => p = q /\ i = j
Clean(chain, P) == OwnIds(chain, P) /\ FromEarlier(chain, P) /\ SpentOnce(chain, P)

LEMMA MadeIs ==
    ASSUME NEW chain, NEW p, NEW e \in MadeAt(chain, p)
    PROVE  /\ e.id = IdAt(chain, p) /\ Outpoint(e) = <<e.id, e.vout>> /\ Outpoint(e)[1] = IdAt(chain, p)
           /\ \A f \in MadeAt(chain, p) : Outpoint(e) = Outpoint(f) => e = f
<1> DEFINE id == IdAt(chain, p)
<1> DEFINE outs == OutsAt(chain, p)
<1> DEFINE h == p[1] - 1
<1>1. MadeAt(chain, p) = Created(id, outs, h)
  BY DEF MadeAt
<1> HIDE DEF id, outs, h
<1>2. e \in Created(id, outs, h)
  BY <1>1
<1>3. e.id = id /\ \A f \in Created(id, outs, h) : Outpoint(e) = Outpoint(f) => e = f
  BY ONLY <1>2, CreatedIs
<1>4. Outpoint(e) = <<e.id, e.vout>> /\ Outpoint(e)[1] = e.id
  BY DEF Outpoint
<1> QED  BY <1>1, <1>3, <1>4 DEF id

(* An outpoint names one output. *)
LEMMA MadeOnce ==
    ASSUME NEW chain, NEW P, OwnIds(chain, P),
           NEW e \in Made(chain, P), NEW f \in Made(chain, P), Outpoint(e) = Outpoint(f)
    PROVE  e = f
<1>1. PICK p \in P : e \in MadeAt(chain, p)
  BY DEF Made
<1>2. PICK q \in P : f \in MadeAt(chain, q)
  BY DEF Made
<1>3. IdAt(chain, p) = IdAt(chain, q)
  <2>1. Outpoint(e)[1] = IdAt(chain, p)
    BY ONLY <1>1, MadeIs
  <2>2. Outpoint(f)[1] = IdAt(chain, q)
    BY ONLY <1>2, MadeIs
  <2> QED  BY <2>1, <2>2
<1>4. p = q
  BY <1>3 DEF OwnIds
<1> QED  BY <1>1, <1>2, <1>4, MadeIs

(* One more transaction: what it spends is no longer left, what it makes is. *)
Fits(chain, P, p) ==
    /\ Clean(chain, P)
    /\ \A q \in P : Earlier(q, p) /\ IdAt(chain, q) # IdAt(chain, p)
    /\ \A i, j \in DOMAIN InsAt(chain, p) : InsAt(chain, p)[i] = InsAt(chain, p)[j] => i = j
    /\ \A i \in DOMAIN InsAt(chain, p) : \E e \in Left(chain, P) : Outpoint(e) = InsAt(chain, p)[i]

LEMMA OneMore ==
    ASSUME NEW chain, NEW P, NEW p, Fits(chain, P, p)
    PROVE  /\ Clean(chain, P \cup {p})
           /\ Left(chain, P \cup {p})
                = {e \in Left(chain, P) : Outpoint(e) \notin ToSet(InsAt(chain, p))} \cup MadeAt(chain, p)
           /\ MadeAt(chain, p) \cap Made(chain, P) = {}
<1> DEFINE Q == P \cup {p}
<1> DEFINE in(q) == InsAt(chain, q)
<1>1. /\ OwnIds(chain, P) /\ FromEarlier(chain, P) /\ SpentOnce(chain, P)
      /\ \A q \in P : Earlier(q, p) /\ IdAt(chain, q) # IdAt(chain, p)
      /\ \A i, j \in DOMAIN in(p) : in(p)[i] = in(p)[j] => i = j
      /\ \A i \in DOMAIN in(p) : \E e \in Left(chain, P) : Outpoint(e) = in(p)[i]
  BY DEF Fits, Clean
<1>2. ASSUME NEW e \in Left(chain, P)
      PROVE  e \in Made(chain, P) /\ \E q \in P : e \in MadeAt(chain, q)
                                  /\ \A r \in P : \A i \in DOMAIN in(r) : Outpoint(e) # in(r)[i]
  BY DEF Left, Made, SpentIn, ToSet
<1>3. OwnIds(chain, Q)
  BY <1>1 DEF OwnIds
<1>4. ASSUME NEW q \in Q, NEW i \in DOMAIN in(q)
      PROVE  \E r \in P : Earlier(r, q) /\ \E e \in MadeAt(chain, r) : Outpoint(e) = in(q)[i]
  <2>1. CASE q \in P
    BY <1>1, <2>1 DEF FromEarlier
  <2>2. CASE q = p
    BY <1>1, <1>2, <2>2
  <2> QED  BY <2>1, <2>2
<1>5. FromEarlier(chain, Q)
  BY <1>4 DEF FromEarlier
<1>6. SpentOnce(chain, Q)
  <2> SUFFICES ASSUME NEW a \in Q, NEW b \in Q, NEW i \in DOMAIN in(a), NEW j \in DOMAIN in(b), in(a)[i] = in(b)[j]
               PROVE  a = b /\ i = j
    BY DEF SpentOnce
  <2>1. CASE a \in P /\ b \in P
    BY <1>1, <2>1 DEF SpentOnce
  <2>2. CASE a = p /\ b = p
    BY <1>1, <2>2
  <2>3. CASE a \in P /\ b = p
    <3>1. PICK e \in Left(chain, P) : Outpoint(e) = in(b)[j]
      BY <1>1, <2>3
    <3> QED  BY <1>2, <2>3, <3>1
  <2>4. CASE a = p /\ b \in P
    <3>1. PICK e \in Left(chain, P) : Outpoint(e) = in(a)[i]
      BY <1>1, <2>4
    <3> QED  BY <1>2, <2>4, <3>1
  <2> QED  BY <2>1, <2>2, <2>3, <2>4
<1>7. ASSUME NEW e \in MadeAt(chain, p) PROVE Outpoint(e) \notin SpentIn(chain, Q) /\ e \notin Made(chain, P)
  <2>1. Outpoint(e)[1] = IdAt(chain, p) /\ e.id = IdAt(chain, p)
    BY MadeIs
  <2>2. ASSUME NEW q \in Q, NEW i \in DOMAIN in(q) PROVE in(q)[i] # Outpoint(e)
    <3>1. PICK r \in P : \E f \in MadeAt(chain, r) : Outpoint(f) = in(q)[i]
      BY <1>4
    <3>2. PICK f \in MadeAt(chain, r) : Outpoint(f) = in(q)[i]
      BY <3>1
    <3>3. Outpoint(f)[1] = IdAt(chain, r)
      BY MadeIs
    <3> QED  BY <1>1, <2>1, <3>2, <3>3
  <2>3. ASSUME NEW q \in P PROVE e \notin MadeAt(chain, q)
    <3> SUFFICES ASSUME e \in MadeAt(chain, q) PROVE FALSE
      OBVIOUS
    <3>1. e.id = IdAt(chain, q)
      BY MadeIs
    <3> QED  BY <1>1, <2>1, <3>1
  <2> QED  BY <2>2, <2>3 DEF SpentIn, ToSet, Made
<1>8. Made(chain, Q) = Made(chain, P) \cup MadeAt(chain, p)
  BY DEF Made
<1>9. SpentIn(chain, Q) = SpentIn(chain, P) \cup ToSet(in(p))
  BY DEF SpentIn
<1>10. Left(chain, Q) = {e \in Left(chain, P) : Outpoint(e) \notin ToSet(in(p))} \cup MadeAt(chain, p)
  BY <1>7, <1>8, <1>9 DEF Left
<1> QED  BY <1>3, <1>5, <1>6, <1>7, <1>10 DEF Clean

(* Chains with the same transactions at these places. *)
SameAt(chain, other, P) ==
    \A p \in P : /\ IdAt(chain, p) = IdAt(other, p) /\ InsAt(chain, p) = InsAt(other, p)
                 /\ OutsAt(chain, p) = OutsAt(other, p)

LEMMA SameLeft ==
    ASSUME NEW chain, NEW other, NEW P, SameAt(chain, other, P)
    PROVE  /\ Left(chain, P) = Left(other, P) /\ Made(chain, P) = Made(other, P)
           /\ Clean(chain, P) => Clean(other, P)
<1>1. \A p \in P : /\ IdAt(chain, p) = IdAt(other, p) /\ InsAt(chain, p) = InsAt(other, p)
                   /\ MadeAt(chain, p) = MadeAt(other, p)
  BY DEF SameAt, MadeAt
<1>2. Made(chain, P) = Made(other, P) /\ SpentIn(chain, P) = SpentIn(other, P)
  BY <1>1 DEF Made, SpentIn
<1>3. OwnIds(chain, P) => OwnIds(other, P)
  BY <1>1 DEF OwnIds
<1>4. FromEarlier(chain, P) => FromEarlier(other, P)
  BY <1>1 DEF FromEarlier
<1>5. SpentOnce(chain, P) => SpentOnce(other, P)
  BY <1>1 DEF SpentOnce
<1> QED  BY <1>2, <1>3, <1>4, <1>5 DEF Left, Clean

(* The places up to a block. *)
UpTo(chain, n) == {p \in Positions(chain) : p[1] <= n}

Blocks(chain) == (\E A : chain \in Seq(A)) /\ \A h \in 1 .. Len(chain) : chain[h].txs \in Seq(TxId)

LEMMA BlocksFacts ==
    ASSUME NEW chain, Blocks(chain)
    PROVE  /\ Len(chain) \in Nat /\ DOMAIN chain = 1 .. Len(chain)
           /\ \A p \in Positions(chain) : /\ p = <<p[1], p[2]>> /\ p[1] \in 1 .. Len(chain)
                                          /\ p[2] \in 0 .. Len(chain[p[1]].txs)
           /\ \A h \in 1 .. Len(chain) : \A k \in 0 .. Len(chain[h].txs) : <<h, k>> \in Positions(chain)
           /\ UpTo(chain, Len(chain)) = Positions(chain)
<1>1. Len(chain) \in Nat /\ DOMAIN chain = 1 .. Len(chain)
  BY DEF Blocks
<1>2. ASSUME NEW p \in Positions(chain)
      PROVE  p = <<p[1], p[2]>> /\ p[1] \in 1 .. Len(chain) /\ p[2] \in 0 .. Len(chain[p[1]].txs)
  <2>1. PICK h \in 1 .. Len(chain) : p \in {h} \X (0 .. Len(chain[h].txs))
    BY <1>1 DEF Positions
  <2> QED  BY <2>1
<1>3. ASSUME NEW h \in 1 .. Len(chain), NEW k \in 0 .. Len(chain[h].txs) PROVE <<h, k>> \in Positions(chain)
  <2>1. <<h, k>> \in {h} \X (0 .. Len(chain[h].txs))
    OBVIOUS
  <2> QED  BY <1>1, <2>1 DEF Positions
<1>4. UpTo(chain, Len(chain)) = Positions(chain)
  BY <1>1, <1>2 DEF UpTo
<1> QED  BY <1>1, <1>2, <1>3, <1>4

(* Chains that begin with the same blocks have the same transactions there. *)
LEMMA SameStart ==
    ASSUME NEW chain, Blocks(chain), NEW other, Blocks(other),
           NEW n \in Nat, n <= Len(chain), n <= Len(other),
           \A h \in 1 .. n : chain[h] = other[h]
    PROVE  /\ UpTo(chain, n) = UpTo(other, n) /\ SameAt(chain, other, UpTo(chain, n))
           /\ Left(chain, UpTo(chain, n)) = Left(other, UpTo(other, n))
<1>0. Len(chain) \in Nat /\ Len(other) \in Nat
  BY BlocksFacts
<1>1. ASSUME NEW c, NEW d, Blocks(c), Blocks(d), n <= Len(d), Len(d) \in Nat, \A h \in 1 .. n : c[h] = d[h], NEW p \in UpTo(c, n)
      PROVE  p \in UpTo(d, n)
  <2>1. p \in Positions(c) /\ p[1] <= n
    BY DEF UpTo
  <2>2. p = <<p[1], p[2]>> /\ p[1] \in 1 .. Len(c) /\ p[2] \in 0 .. Len(c[p[1]].txs)
    BY <1>1, <2>1, BlocksFacts
  <2>3. p[1] \in 1 .. n /\ p[1] \in 1 .. Len(d)
    BY <1>1, <2>1, <2>2
  <2>4. c[p[1]] = d[p[1]]
    BY <1>1, <2>3
  <2>5. <<p[1], p[2]>> \in Positions(d)
    BY <1>1, <2>2, <2>3, <2>4, BlocksFacts
  <2> QED  BY <2>1, <2>2, <2>5 DEF UpTo
<1>2. UpTo(chain, n) = UpTo(other, n)
  <2>1. UpTo(chain, n) \subseteq UpTo(other, n)
    BY <1>0, <1>1
  <2>2. \A h \in 1 .. n : other[h] = chain[h]
    OBVIOUS
  <2>3. UpTo(other, n) \subseteq UpTo(chain, n)
    BY <1>0, <1>1, <2>2
  <2> QED  BY <2>1, <2>3
<1>3. SameAt(chain, other, UpTo(chain, n))
  <2> SUFFICES ASSUME NEW p \in UpTo(chain, n)
               PROVE  /\ IdAt(chain, p) = IdAt(other, p) /\ InsAt(chain, p) = InsAt(other, p)
                      /\ OutsAt(chain, p) = OutsAt(other, p)
    BY DEF SameAt
  <2>1. p[1] \in 1 .. n
    <3>1. p \in Positions(chain) /\ p[1] <= n
      BY DEF UpTo
    <3>2. p[1] \in 1 .. Len(chain)
      BY <3>1, BlocksFacts
    <3> QED  BY <1>0, <3>1, <3>2
  <2>2. chain[p[1]] = other[p[1]]
    BY <2>1
  <2> QED  BY <2>2 DEF IdAt, InsAt, OutsAt
<1>4. Left(chain, UpTo(chain, n)) = Left(other, UpTo(chain, n))
  BY <1>3, SameLeft
<1> QED  BY <1>2, <1>3, <1>4

(* In the loop over the transactions of a block: what the view holds, when the          *)
(* transactions at these places of the chain were taken.                                *)
Shape(r) == r = [ok |-> r.ok, ids |-> r.ids, fees |-> r.fees, ops |-> r.ops,
                 pending |-> r.pending, spent |-> r.spent, seen |-> r.seen]
Viewed(c, P, r) ==
    /\ Clean(c, P) /\ coins \subseteq Made(c, P)
    /\ Left(c, P) = (coins \ r.spent) \cup r.pending
    /\ r.spent \subseteq coins /\ r.pending \cap coins = {}
    /\ \A e \in r.spent : Outpoint(e) \in r.seen
Counted(r, value) ==
    /\ IsFiniteSet(coins) /\ Valued(coins) /\ IsFiniteSet(r.pending) /\ Valued(r.pending)
    /\ r.fees \in 0 .. MaxMoney /\ Value(r.pending) + r.fees = Value(r.spent) + value

LEMMA SeqDomain ==
    ASSUME NEW A, NEW s \in Seq(A)
    PROVE  Len(s) \in Nat /\ DOMAIN s = 1 .. Len(s)
<1> QED  OBVIOUS

(* What the inputs of a transaction take. *)
Taken(c, P, tx) == {e \in Left(c, P) : Outpoint(e) \in ToSet(tx.ins)}

Ready(r, tx, height) == \A i \in DOMAIN tx.ins : Spendable(r, tx, i, height)

EachTakesOne(c, P, r, tx) ==
    /\ \A i \in DOMAIN tx.ins : \E e \in Left(c, P) : Outpoint(e) = tx.ins[i] /\ Previous(r, tx.ins[i]) = {e}
    /\ \A i, j \in DOMAIN tx.ins : tx.ins[i] = tx.ins[j] => i = j
TakesFrom(c, P, r, tx) ==
    /\ UNION {Found(r, out) : out \in ToSet(tx.ins)} = Taken(c, P, tx) \cap r.pending
    /\ UNION {Stored(out) : out \in {o \in ToSet(tx.ins) : Found(r, o) = {}}} = Taken(c, P, tx) \cap coins

LEMMA InputsAre ==
    ASSUME NEW c, NEW P, NEW r, Viewed(c, P, r),
           NEW tx, tx.ins \in Seq(Nat \X Nat), NEW height, Ready(r, tx, height)
    PROVE  EachTakesOne(c, P, r, tx) /\ TakesFrom(c, P, r, tx)
<1> DEFINE L == Left(c, P)
<1> DEFINE S == ToSet(tx.ins)
<1>1. /\ L = (coins \ r.spent) \cup r.pending /\ r.spent \subseteq coins /\ r.pending \cap coins = {}
      /\ \A e \in r.spent : Outpoint(e) \in r.seen
  BY DEF Viewed
<1>2. \A e, f \in L : Outpoint(e) = Outpoint(f) => e = f
  <2>1. OwnIds(c, P) /\ L \subseteq Made(c, P)
    BY DEF Viewed, Clean, Left
  <2> QED  BY <2>1, MadeOnce
<1>3. ASSUME NEW i \in DOMAIN tx.ins
      PROVE  /\ tx.ins[i] \notin r.seen /\ Previous(r, tx.ins[i]) # {}
             /\ \A j \in 1 .. i - 1 : tx.ins[j] # tx.ins[i]
  BY DEF Ready, Spendable
<1>4. S = {tx.ins[i] : i \in DOMAIN tx.ins}
  BY DEF ToSet
<1> HIDE DEF L, S
<1>5. ASSUME NEW e \in coins, Outpoint(e) \in S PROVE e \in L
  BY <1>1, <1>3, <1>4, <1>5
<1>6. ASSUME NEW i \in DOMAIN tx.ins
      PROVE  \E e \in L : Outpoint(e) = tx.ins[i] /\ Previous(r, tx.ins[i]) = {e}
  <2> DEFINE out == tx.ins[i]
  <2>1. out \in S
    BY <1>4
  <2>2. \A e \in Previous(r, out) : e \in L /\ Outpoint(e) = out
    <3>1. CASE Found(r, out) # {}
      BY <1>1, <3>1 DEF Previous, Found
    <3>2. CASE Found(r, out) = {}
      BY <1>5, <2>1, <3>2 DEF Previous, Stored
    <3> QED  BY <3>1, <3>2
  <2>3. PICK e : e \in Previous(r, out)
    BY <1>3
  <2> HIDE DEF out
  <2>4. Previous(r, out) = {e}
    BY <1>2, <2>2, <2>3
  <2> QED  BY <2>2, <2>3, <2>4 DEF out
<1>7. ASSUME NEW i \in DOMAIN tx.ins, NEW j \in DOMAIN tx.ins, tx.ins[i] = tx.ins[j] PROVE i = j
  <2>0. tx.ins \in Seq(Nat \X Nat) /\ i \in DOMAIN tx.ins /\ j \in DOMAIN tx.ins
    BY <1>7
  <2>1. Len(tx.ins) \in Nat /\ i \in 1 .. Len(tx.ins) /\ j \in 1 .. Len(tx.ins)
    <3>1. Len(tx.ins) \in Nat /\ DOMAIN tx.ins = 1 .. Len(tx.ins)
      BY ONLY <2>0, SeqDomain
    <3> QED  BY ONLY <2>0, <3>1
  <2>2. i \in Nat /\ j \in Nat /\ i > 0 /\ j > 0
    BY ONLY <2>1
  <2>3. ~(i < j)
    <3> SUFFICES ASSUME i < j PROVE FALSE
      OBVIOUS
    <3>1. i \in 1 .. j - 1
      BY <2>2
    <3> QED  BY <1>3, <1>7, <3>1
  <2>4. ~(j < i)
    <3> SUFFICES ASSUME j < i PROVE FALSE
      OBVIOUS
    <3>1. j \in 1 .. i - 1
      BY <2>2
    <3> QED  BY <1>3, <1>7, <3>1
  <2> QED  BY <2>2, <2>3, <2>4
<1>8. Taken(c, P, tx) = {e \in L : Outpoint(e) \in S}
  BY DEF Taken, L, S
<1>9. UNION {Found(r, out) : out \in S} = Taken(c, P, tx) \cap r.pending
  BY <1>1, <1>8 DEF Found
<1>10. UNION {Stored(out) : out \in {o \in S : Found(r, o) = {}}} = Taken(c, P, tx) \cap coins
  <2>1. ASSUME NEW o \in S, Found(r, o) = {}, NEW e \in Stored(o) PROVE e \in Taken(c, P, tx) \cap coins
    BY <1>5, <1>8, <2>1 DEF Stored
  <2>2. ASSUME NEW e \in Taken(c, P, tx) \cap coins
        PROVE  Outpoint(e) \in S /\ Found(r, Outpoint(e)) = {} /\ e \in Stored(Outpoint(e))
    <3>1. e \in L /\ Outpoint(e) \in S /\ e \in coins
      BY <1>8
    <3>2. ASSUME NEW f \in Found(r, Outpoint(e)) PROVE FALSE
      <4>1. f \in r.pending /\ Outpoint(f) = Outpoint(e)
        BY DEF Found
      <4> QED  BY <1>1, <1>2, <3>1, <4>1
    <3> QED  BY <3>1, <3>2 DEF Stored
  <2> QED  BY <2>1, <2>2
<1> QED  BY <1>6, <1>7, <1>9, <1>10 DEF L, S, EachTakesOne, TakesFrom

(* The sum of the inputs is the value of what they take. *)
InputValues(r, tx) == [i \in DOMAIN tx.ins |-> (CHOOSE e \in Previous(r, tx.ins[i]) : TRUE).value]

LEMMA InputsValue ==
    ASSUME NEW c, NEW P, NEW r, Viewed(c, P, r), Valued(Left(c, P)),
           NEW tx, tx.ins \in Seq(Nat \X Nat), NEW height, Ready(r, tx, height),
           Total(InputValues(r, tx)).ok
    PROVE  /\ Total(InputValues(r, tx)).sum = Value(Taken(c, P, tx))
           /\ Total(InputValues(r, tx)).sum \in 0 .. MaxMoney
<1> DEFINE L == Left(c, P)
<1> DEFINE D == DOMAIN tx.ins
<1> DEFINE f == [i \in D |-> CHOOSE e \in Previous(r, tx.ins[i]) : TRUE]
<1> DEFINE w == InputValues(r, tx)
<1> DEFINE T == {f[i] : i \in D}
<1>0. /\ \A i \in D : \E e \in L : Outpoint(e) = tx.ins[i] /\ Previous(r, tx.ins[i]) = {e}
      /\ \A i, j \in D : tx.ins[i] = tx.ins[j] => i = j
  <2>1. Viewed(c, P, r) /\ tx.ins \in Seq(Nat \X Nat) /\ Ready(r, tx, height)
    OBVIOUS
  <2>2. EachTakesOne(c, P, r, tx)
    BY ONLY <2>1, InputsAre
  <2> QED  BY <2>2 DEF EachTakesOne
<1>1. ASSUME NEW i \in D PROVE f[i] \in L /\ Outpoint(f[i]) = tx.ins[i] /\ w[i] = f[i].value
  <2>1. PICK e \in L : Outpoint(e) = tx.ins[i] /\ Previous(r, tx.ins[i]) = {e}
    BY <1>0
  <2>2. (CHOOSE x \in Previous(r, tx.ins[i]) : TRUE) = e
    BY <2>1
  <2>3. w[i] = f[i].value
    BY DEF InputValues
  <2> QED  BY <2>1, <2>2, <2>3
<1>2. \A i, j \in D : tx.ins[i] = tx.ins[j] => i = j
  BY <1>0
<1>3. D = 1 .. Len(tx.ins) /\ Len(tx.ins) \in Nat /\ DOMAIN w = D
  <2>1. tx.ins \in Seq(Nat \X Nat)
    OBVIOUS
  <2>2. Len(tx.ins) \in Nat /\ DOMAIN tx.ins = 1 .. Len(tx.ins)
    BY ONLY <2>1, SeqDomain
  <2> QED  BY <2>2 DEF InputValues
<1>4. IsFiniteSet(D)
  BY <1>3, FS_Interval
<1>5. \A i \in D : w[i] \in 0 .. MaxMoney /\ w[i] \in Int
  <2> HIDE DEF f, w, D
  <2> TAKE i \in D
  <2>1. f[i] \in L /\ w[i] = f[i].value
    BY <1>1
  <2>2. f[i].value \in 0 .. MaxMoney
    BY <2>1 DEF Valued
  <2> QED  BY <2>1, <2>2
<1>6. w \in Seq(Int)
  <2>1. w = [i \in 1 .. Len(tx.ins) |-> w[i]]
    BY <1>3 DEF InputValues
  <2> HIDE DEF w
  <2>2. \A i \in 1 .. Len(tx.ins) : w[i] \in Int
    BY <1>3, <1>5
  <2>3. Len(tx.ins) \in Nat
    BY <1>3
  <2>4. w \in [1 .. Len(tx.ins) -> Int]
    BY ONLY <2>1, <2>2
  <2> QED  BY ONLY <2>3, <2>4, SeqDef
<1>7. Total(w).sum = WeightOf(w, D) /\ Total(w).sum \in 0 .. MaxMoney
  <2> HIDE DEF w, D
  <2> QED  BY <1>3, <1>6, TotalIs DEF w
<1>8. Taken(c, P, tx) = T
  <2>1. \A e, g \in L : Outpoint(e) = Outpoint(g) => e = g
    <3>1. OwnIds(c, P) /\ L \subseteq Made(c, P)
      BY DEF Viewed, Clean, Left
    <3> QED  BY <3>1, MadeOnce
  <2>2. Taken(c, P, tx) = {e \in L : \E i \in D : Outpoint(e) = tx.ins[i]}
    BY DEF Taken, ToSet
  <2> HIDE DEF L, D, f
  <2> QED  BY <1>1, <2>1, <2>2
<1> HIDE DEF f, w, D
<1>9. OneToOne(f, D)
  BY <1>1, <1>2 DEF OneToOne
<1>10. IsFiniteSet(T)
  BY <1>4, ImageSmall
<1> DEFINE v == ValuesOf(T)
<1>11. \A i \in D : v[f[i]] = w[i]
  BY <1>1 DEF ValuesOf
<1> HIDE DEF v
<1>12. WeightOf(v, {f[i] : i \in D}) = WeightOf(w, D)
  <2>1. \A i \in D : w[i] \in Int
    BY <1>5
  <2> QED  BY ONLY <1>4, <1>9, <1>11, <2>1, WeightImage
<1>13. Value(T) = WeightOf(w, D)
  BY <1>10, <1>12, ValueIs DEF v
<1> QED  BY <1>7, <1>8, <1>13 DEF w

(* What it means that a transaction passed, and what it changed. *)
Passed(r, tx, height) ==
    /\ tx.ins # <<>> /\ Ready(r, tx, height)
    /\ Total(tx.outs).ok /\ Total(InputValues(r, tx)).ok
    /\ Total(InputValues(r, tx)).sum >= Total(tx.outs).sum
    /\ MoneyRange(Int64(r.fees + (Total(InputValues(r, tx)).sum - Total(tx.outs).sum)))
Applied(s, r, id, tx, height) ==
    /\ s.pending = (r.pending \ UNION {Found(r, out) : out \in ToSet(tx.ins)}) \cup Created(id, tx.outs, height)
    /\ s.spent = r.spent \cup UNION {Stored(out) : out \in {o \in ToSet(tx.ins) : Found(r, o) = {}}}
    /\ s.seen = r.seen \cup ToSet(tx.ins)
    /\ s.fees = Int64(r.fees + (Total(InputValues(r, tx)).sum - Total(tx.outs).sum))

LEMMA CheckTxIs ==
    ASSUME NEW r, Shape(r), NEW id, NEW height
    PROVE  LET s == CheckTx(r, id, height)
           IN  /\ Shape(s)
               /\ \/ r.ok /\ Passed(r, TxOf[id], height) /\ Applied(s, r, id, TxOf[id], height)
                  \/ ~s.ok /\ s.fees = r.fees
<1> DEFINE tx == TxOf[id]
<1> DEFINE in == Total(InputValues(r, tx))
<1> DEFINE out == Total(tx.outs)
<1> DEFINE fees == Int64(r.fees + (in.sum - out.sum))
<1> DEFINE found == UNION {Found(r, o) : o \in ToSet(tx.ins)}
<1> DEFINE fromStore == UNION {Stored(o) : o \in {x \in ToSet(tx.ins) : Found(r, x) = {}}}
<1> DEFINE good == /\ r.ok /\ id \notin r.ids /\ tx.ins # <<>>
                   /\ IsFinalizedTx(tx, height)
                   /\ out.ok /\ Ready(r, tx, height) /\ in.ok
                   /\ tx.ops <= MaxTxSigOps /\ r.ops + tx.ops <= MaxBlockSigOps
                   /\ in.sum >= out.sum /\ MoneyRange(fees)
<1> DEFINE s == CheckTx(r, id, height)
<1> DEFINE after == [r EXCEPT !.seen = @ \cup ToSet(tx.ins), !.pending = @ \ found, !.spent = @ \cup fromStore]
<1> DEFINE new == Created(id, tx.outs, height)
<1>1. s = IF good
          THEN [after EXCEPT !.ids = @ \cup {id}, !.fees = fees, !.ops = @ + tx.ops, !.pending = @ \cup new]
          ELSE [r EXCEPT !.ok = FALSE]
  BY DEF CheckTx, Spend, Ready, InputValues
<1>2. good => r.ok /\ Passed(r, tx, height)
  BY DEF Passed
<1> HIDE DEF good, fees, found, fromStore, new, s
<1>3. CASE good
  <2>1. s = [ok |-> r.ok, ids |-> r.ids \cup {id}, fees |-> fees, ops |-> r.ops + tx.ops,
             pending |-> (r.pending \ found) \cup new, spent |-> r.spent \cup fromStore, seen |-> r.seen \cup ToSet(tx.ins)]
    BY <1>1, <1>3 DEF Shape
  <2>2. Shape(s)
    BY <2>1 DEF Shape
  <2>3. Applied(s, r, id, tx, height)
    BY <2>1 DEF Applied, fees, found, fromStore, new
  <2> QED  BY <1>2, <1>3, <2>2, <2>3 DEF s
<1>4. CASE ~good
  <2>1. s = [ok |-> FALSE, ids |-> r.ids, fees |-> r.fees, ops |-> r.ops,
             pending |-> r.pending, spent |-> r.spent, seen |-> r.seen]
    BY <1>1, <1>4 DEF Shape
  <2>2. Shape(s) /\ ~s.ok /\ s.fees = r.fees
    BY <2>1 DEF Shape
  <2> QED  BY <2>2 DEF s
<1> QED  BY <1>3, <1>4

(* The next transaction of a block, at a place after all others. *)
NextAt(c, P, p, id, height) ==
    /\ id \in TxId /\ IdAt(c, p) = id /\ p[2] # 0 /\ p[1] - 1 = height
    /\ \A q \in P : Earlier(q, p) /\ (q[2] = 0 => IdAt(c, q) <= MaxHeight)

LEMMA NextFits ==
    ASSUME NEW c, NEW P, NEW p, NEW id, NEW height, NextAt(c, P, p, id, height),
           NEW r, Viewed(c, P, r), Passed(r, TxOf[id], height)
    PROVE  /\ Fits(c, P, p) /\ InsAt(c, p) = TxOf[id].ins
           /\ MadeAt(c, p) = Created(id, TxOf[id].outs, height)
<1> DEFINE ins == TxOf[id].ins
<1>1. /\ InsAt(c, p) = ins /\ MadeAt(c, p) = Created(id, TxOf[id].outs, height)
      /\ id > MaxHeight /\ id \in Nat /\ MaxHeight \in Nat /\ ins \in Seq(Nat \X Nat)
  BY BlockAssumption DEF NextAt, InsAt, OutsAt, MadeAt
<1>2. EachTakesOne(c, P, r, TxOf[id])
  <2>1. Viewed(c, P, r) /\ TxOf[id].ins \in Seq(Nat \X Nat) /\ Ready(r, TxOf[id], height)
    BY <1>1 DEF Passed
  <2> QED  BY ONLY <2>1, InputsAre
<1>3. /\ \A i \in DOMAIN ins : \E e \in Left(c, P) : Outpoint(e) = ins[i]
      /\ \A i, j \in DOMAIN ins : ins[i] = ins[j] => i = j
  BY <1>2 DEF EachTakesOne
<1>4. ins # <<>>
  BY DEF Passed
<1> HIDE DEF ins
<1>5. 1 \in DOMAIN ins
  BY <1>1, <1>4
<1>6. PICK e \in Left(c, P) : Outpoint(e) = ins[1]
  BY <1>3, <1>5
<1>7. ASSUME NEW q \in P, IdAt(c, q) = id PROVE FALSE
  <2>1. q[2] # 0
    BY <1>1, <1>7 DEF NextAt
  <2>2. InsAt(c, q) = ins
    BY <1>7, <2>1 DEF InsAt, ins
  <2>3. ins[1] \in SpentIn(c, P)
    BY <1>5, <2>2 DEF SpentIn, ToSet
  <2> QED  BY <1>6, <2>3 DEF Left
<1>8. Fits(c, P, p)
  <2>1. Clean(c, P)
    BY DEF Viewed
  <2>2. \A q \in P : Earlier(q, p) /\ IdAt(c, q) # IdAt(c, p)
    BY <1>7 DEF NextAt
  <2> QED  BY <1>1, <1>3, <2>1, <2>2 DEF Fits
<1> QED  BY <1>1, <1>8 DEF ins

LEMMA NextKeepsView ==
    ASSUME NEW c, NEW P, NEW p, NEW id, NEW height, NextAt(c, P, p, id, height),
           NEW r, Viewed(c, P, r), Passed(r, TxOf[id], height),
           NEW s, Applied(s, r, id, TxOf[id], height)
    PROVE  Viewed(c, P \cup {p}, s)
<1> DEFINE tx == TxOf[id]
<1> DEFINE L == Left(c, P)
<1> DEFINE T == Taken(c, P, tx)
<1> DEFINE new == Created(id, tx.outs, height)
<1>1. Fits(c, P, p) /\ InsAt(c, p) = tx.ins /\ MadeAt(c, p) = new
  BY NextFits
<1>2. /\ Clean(c, P \cup {p}) /\ new \cap Made(c, P) = {}
      /\ Left(c, P \cup {p}) = {e \in L : Outpoint(e) \notin ToSet(tx.ins)} \cup new
  BY <1>1, OneMore
<1>3. T = {e \in L : Outpoint(e) \in ToSet(tx.ins)}
  BY DEF Taken
<1>4. TakesFrom(c, P, r, tx)
  <2>1. Viewed(c, P, r) /\ tx.ins \in Seq(Nat \X Nat) /\ Ready(r, tx, height)
    BY BlockAssumption DEF Passed, NextAt
  <2> HIDE DEF tx
  <2> QED  BY ONLY <2>1, InputsAre
<1>5. /\ s.pending = (r.pending \ (T \cap r.pending)) \cup new /\ s.spent = r.spent \cup (T \cap coins)
      /\ s.seen = r.seen \cup ToSet(tx.ins)
  BY <1>4 DEF Applied, TakesFrom
<1>6. /\ L = (coins \ r.spent) \cup r.pending /\ r.spent \subseteq coins /\ r.pending \cap coins = {}
      /\ coins \subseteq Made(c, P) /\ \A e \in r.spent : Outpoint(e) \in r.seen
  BY DEF Viewed
<1> HIDE DEF L, T, new, tx
<1>7. Left(c, P \cup {p}) = (coins \ s.spent) \cup s.pending
  BY <1>2, <1>3, <1>5, <1>6
<1>8. s.spent \subseteq coins /\ s.pending \cap coins = {} /\ \A e \in s.spent : Outpoint(e) \in s.seen
  BY <1>2, <1>3, <1>5, <1>6
<1>9. coins \subseteq Made(c, P \cup {p})
  BY <1>6 DEF Made
<1> QED  BY <1>2, <1>7, <1>8, <1>9 DEF Viewed

LEMMA NextKeepsCount ==
    ASSUME NEW c, NEW P, NEW p, NEW id, NEW height, NextAt(c, P, p, id, height),
           NEW r, Viewed(c, P, r), Passed(r, TxOf[id], height),
           NEW value \in Int, Counted(r, value),
           NEW s, Applied(s, r, id, TxOf[id], height)
    PROVE  Counted(s, value)
<1> DEFINE tx == TxOf[id]
<1> DEFINE L == Left(c, P)
<1> DEFINE T == Taken(c, P, tx)
<1> DEFINE new == Created(id, tx.outs, height)
<1> DEFINE in == Total(InputValues(r, tx)).sum
<1> DEFINE out == Total(tx.outs).sum
<1>1. Fits(c, P, p) /\ MadeAt(c, p) = new /\ new \cap Made(c, P) = {}
  <2>1. Fits(c, P, p) /\ MadeAt(c, p) = new
    BY NextFits
  <2>2. MadeAt(c, p) \cap Made(c, P) = {}
    BY ONLY <2>1, OneMore
  <2> QED  BY <2>1, <2>2
<1>2. tx.ins \in Seq(Nat \X Nat) /\ tx.outs \in Seq(Int) /\ Ready(r, tx, height)
  BY BlockAssumption DEF Passed, NextAt
<1>3. TakesFrom(c, P, r, tx)
  <2> HIDE DEF tx
  <2> QED  BY <1>2, InputsAre
<1>4. /\ s.pending = (r.pending \ (T \cap r.pending)) \cup new /\ s.spent = r.spent \cup (T \cap coins)
      /\ s.fees = Int64(r.fees + (in - out))
  BY <1>3 DEF Applied, TakesFrom
<1>5. /\ L = (coins \ r.spent) \cup r.pending /\ r.spent \subseteq coins /\ r.pending \cap coins = {}
      /\ r.pending \subseteq Made(c, P) /\ T \subseteq L
  BY DEF Viewed, Left, Taken
<1>6. /\ IsFiniteSet(coins) /\ Valued(coins) /\ IsFiniteSet(r.pending) /\ Valued(r.pending)
      /\ r.fees \in 0 .. MaxMoney /\ Value(r.pending) + r.fees = Value(r.spent) + value
  BY DEF Counted
<1>7. Valued(L)
  BY <1>5, <1>6 DEF Valued
<1>8. Total(InputValues(r, tx)).ok /\ Total(tx.outs).ok /\ in >= out /\ MoneyRange(s.fees)
  BY <1>4 DEF Passed
<1>9. in = Value(T) /\ in \in 0 .. MaxMoney
  <2>1. Viewed(c, P, r) /\ Valued(Left(c, P))
    BY <1>7
  <2> HIDE DEF tx
  <2> QED  BY <1>2, <1>8, <2>1, InputsValue
<1>10. /\ out = WeightOf(tx.outs, DOMAIN tx.outs) /\ out \in 0 .. MaxMoney
       /\ \A i \in DOMAIN tx.outs : tx.outs[i] \in 0 .. MaxMoney
  <2> HIDE DEF tx
  <2> QED  BY <1>2, <1>8, TotalIs
<1>11. IsFiniteSet(new) /\ Valued(new) /\ Value(new) = out
  <2> HIDE DEF tx
  <2> QED  BY <1>2, <1>10, CreatedValue
<1>12. MaxMoney \in Nat
  BY BlockAssumption
<1> HIDE DEF L, T, new, tx, in, out
<1>13. s.fees = r.fees + (in - out) /\ s.fees \in 0 .. MaxMoney
  <2>1. r.fees + (in - out) \in 0 .. 2 * MaxMoney /\ r.fees + (in - out) \in Int
    BY ONLY <1>6, <1>8, <1>9, <1>10, <1>12
  <2>2. s.fees = r.fees + (in - out)
    BY <1>4, <1>8, <2>1, Int64Is
  <2>3. MoneyRange(s.fees)
    BY <1>8
  <2> QED  BY ONLY <1>12, <2>1, <2>2, <2>3 DEF MoneyRange
<1> DEFINE old == T \cap coins
<1> DEFINE own == T \cap r.pending
<1> DEFINE kept == r.pending \ own
<1>14. /\ own \in SUBSET r.pending /\ old \in SUBSET coins /\ r.spent \in SUBSET coins
       /\ old \cap own = {} /\ old \cup own = T /\ r.spent \cap old = {} /\ kept \cap new = {}
  BY <1>1, <1>5
<1>15. /\ IsFiniteSet(own) /\ IsFiniteSet(old) /\ IsFiniteSet(r.spent) /\ IsFiniteSet(kept)
       /\ Valued(own) /\ Valued(old) /\ Valued(r.spent) /\ Valued(kept)
  BY <1>6, <1>14, FS_Subset DEF Valued
<1> HIDE DEF old, own
<1>16. Value(own) \in Nat /\ Value(kept) \in Nat /\ Value(r.pending) = Value(own) + Value(kept)
  BY <1>6, <1>14, ValuePart
<1> HIDE DEF kept
<1>17. Value(T) = Value(old) + Value(own)
  BY <1>14, <1>15, ValueUnion
<1>18. Value(r.spent \cup old) = Value(r.spent) + Value(old)
  BY <1>14, <1>15, ValueUnion
<1>19. /\ Value(kept \cup new) = Value(kept) + Value(new)
       /\ IsFiniteSet(kept \cup new) /\ Valued(kept \cup new)
  BY <1>11, <1>14, <1>15, ValueUnion
<1>20. Value(old) \in Nat /\ Value(r.spent) \in Nat
  BY <1>15, ValueType
<1>21. s.pending = kept \cup new /\ s.spent = r.spent \cup old
  BY <1>4 DEF kept, own, old
<1>22. Value(s.pending) + s.fees = Value(s.spent) + value
  <2>1. Value(s.pending) = Value(kept) + out /\ Value(s.spent) = Value(r.spent) + Value(old) /\ in = Value(old) + Value(own)
    BY <1>9, <1>11, <1>17, <1>18, <1>19, <1>21
  <2>2. in \in Int /\ out \in Int /\ r.fees \in Int
    BY <1>6, <1>9, <1>10
  <2>3. Value(own) + Value(kept) + r.fees = Value(r.spent) + value
    BY <1>6, <1>16
  <2> DEFINE A == Value(own)
  <2> DEFINE B == Value(kept)
  <2> DEFINE C == Value(old)
  <2> DEFINE D == Value(r.spent)
  <2>4. A \in Int /\ B \in Int /\ C \in Int /\ D \in Int /\ value \in Int
    BY <1>16, <1>20
  <2> HIDE DEF A, B, C, D
  <2>5. (B + out) + (r.fees + (in - out)) = (D + C) + value
    <3>1. A + B + r.fees = D + value /\ in = C + A
      BY <2>1, <2>3 DEF A, B, C, D
    <3> QED  BY ONLY <2>2, <2>4, <3>1
  <2> QED  BY <1>13, <2>1, <2>5 DEF B, C, D
<1> QED  BY <1>6, <1>13, <1>19, <1>21, <1>22 DEF Counted

(* The loop over the transactions of a block. *)
Begun(value, height) ==
    [ok |-> MoneyRange(value), ids |-> {}, fees |-> 0, ops |-> 0,
     pending |-> Created(height, <<value>>, height), spent |-> {}, seen |-> {}]
RunOf(f, value, txs, height) ==
    f = [k \in 0 .. Len(txs) |-> IF k = 0 THEN Begun(value, height) ELSE CheckTx(f[k - 1], txs[k], height)]

LEMMA RunExists ==
    ASSUME NEW value, NEW txs, Len(txs) \in Nat, NEW height
    PROVE  \E f : RunOf(f, value, txs, height)
<1> DEFINE start == Begun(value, height)
<1> DEFINE Next1(r, k) == CheckTx(r, txs[k], height)
<1> DEFINE Body(g, k) == IF k = 0 THEN start ELSE Next1(g[k - 1], k)
<1> DEFINE Part(g, n) == g = [k \in 0 .. n |-> Body(g, k)]
<1> DEFINE Bad == {n \in Nat : ~\E g : Part(g, n)}
<1>1. Bad = {}
  <2> HIDE DEF start, Next1
  <2> SUFFICES ASSUME Bad # {} PROVE FALSE
    OBVIOUS
  <2>1. PICK n \in Bad : \A m \in Bad : n <= m
    <3>1. Bad \subseteq Nat
      OBVIOUS
    <3> HIDE DEF Bad
    <3> QED  BY <3>1, LeastNumber
  <2>2. n \in Nat /\ ~\E g : Part(g, n)
    OBVIOUS
  <2>3. CASE n = 0
    <3> DEFINE g == [k \in 0 .. n |-> start]
    <3>1. Part(g, n)
      BY <2>3
    <3> HIDE DEF Part
    <3> QED  BY <2>2, <3>1
  <2>4. CASE n # 0
    <3>1. n - 1 \in Nat /\ ~(n <= n - 1)
      BY <2>2, <2>4
    <3>2. n - 1 \notin Bad
      BY <2>1, <3>1
    <3>3. PICK g : Part(g, n - 1)
      BY <3>1, <3>2
    <3> DEFINE h == [k \in 0 .. n |-> Body(g, k)]
    <3>4. ASSUME NEW k \in 0 .. n - 1 PROVE h[k] = g[k]
      <4>1. h[k] = Body(g, k)
        BY <2>2
      <4>2. g[k] = Body(g, k)
        BY <3>3
      <4> QED  BY <4>1, <4>2
    <3>5. ASSUME NEW k \in 0 .. n PROVE h[k] = Body(h, k)
      <4>1. CASE k = 0
        BY <4>1
      <4>2. CASE k # 0
        <5>1. k - 1 \in 0 .. n - 1
          BY <2>2, <4>2
        <5>2. h[k - 1] = g[k - 1]
          BY <3>4, <5>1
        <5> QED  BY <4>2, <5>2
      <4> QED  BY <4>1, <4>2
    <3>6. Part(h, n)
      BY <3>5
    <3> HIDE DEF Part
    <3> QED  BY <2>2, <3>6
  <2> QED  BY <2>3, <2>4
<1>2. \E g : Part(g, Len(txs))
  BY <1>1
<1> QED  BY <1>2 DEF RunOf

LEMMA RunIs ==
    ASSUME NEW value, NEW txs, Len(txs) \in Nat, NEW height
    PROVE  \E f : /\ RunOf(f, value, txs, height)
                  /\ validateBlockTransactions(value, txs, height)
                       = [f[Len(txs)] EXCEPT !.ok = @ /\ value <= BlockSubsidy(height) + f[Len(txs)].fees]
<1> DEFINE f == CHOOSE g : RunOf(g, value, txs, height)
<1>1. RunOf(f, value, txs, height)
  BY RunExists
<1>2. validateBlockTransactions(value, txs, height)
        = [f[Len(txs)] EXCEPT !.ok = @ /\ value <= BlockSubsidy(height) + f[Len(txs)].fees]
  BY DEF validateBlockTransactions, RunOf, Begun
<1> QED  BY <1>1, <1>2

(* The transactions below block n, and the first k of block n after its coinbase. *)
Until(c, n, k) == UpTo(c, n - 1) \cup {<<n, j>> : j \in 0 .. k}

(* The last block of a chain whose other blocks left the coins there are. *)
OnTop(c, n, value) ==
    /\ Blocks(c) /\ n = Len(c) /\ n > 0 /\ n - 1 <= MaxHeight /\ value \in Int /\ c[n].value = value
    /\ Clean(c, UpTo(c, n - 1)) /\ coins = Left(c, UpTo(c, n - 1))
    /\ IsFiniteSet(coins) /\ Valued(coins)

Held(c, n, k, r, value) == Viewed(c, Until(c, n, k), r) /\ Counted(r, value)

Follows(c, n, k) ==
    /\ Until(c, n, k + 1) = Until(c, n, k) \cup {<<n, k + 1>>}
    /\ \A q \in Until(c, n, k) : Earlier(q, <<n, k + 1>>) /\ (q[2] = 0 => IdAt(c, q) <= MaxHeight)

LEMMA UntilIs ==
    ASSUME NEW c, NEW n, NEW value, OnTop(c, n, value), NEW k \in Nat
    PROVE  /\ Follows(c, n, k)
           /\ Until(c, n, 0) = UpTo(c, n - 1) \cup {<<n, 0>>}
           /\ \A q \in UpTo(c, n - 1) : Earlier(q, <<n, 0>>) /\ IdAt(c, q) # n - 1
<1>1. n \in Nat /\ MaxHeight \in Nat /\ n - 1 <= MaxHeight /\ n = Len(c) /\ Blocks(c) /\ n > 0
  BY BlocksFacts, BlockAssumption DEF OnTop
<1>2. {<<n, j>> : j \in 0 .. k + 1} = {<<n, j>> : j \in 0 .. k} \cup {<<n, k + 1>>}
  <2>1. 0 .. k + 1 = (0 .. k) \cup {k + 1}
    OBVIOUS
  <2> QED  BY <2>1
<1>3. {<<n, j>> : j \in 0 .. 0} = {<<n, 0>>}
  <2>1. 0 .. 0 = {0}
    OBVIOUS
  <2> QED  BY <2>1
<1>4. ASSUME NEW q \in UpTo(c, n - 1)
      PROVE  q[1] \in Nat /\ q[1] < n /\ (q[2] = 0 => IdAt(c, q) = q[1] - 1) /\ (q[2] # 0 => IdAt(c, q) \in TxId)
  <2>1. q \in Positions(c) /\ q[1] <= n - 1
    BY DEF UpTo
  <2>2. q[1] \in 1 .. Len(c) /\ q[2] \in 0 .. Len(c[q[1]].txs)
    BY <1>1, <2>1, BlocksFacts
  <2>3. c[q[1]].txs \in Seq(TxId)
    BY <1>1, <2>2 DEF Blocks
  <2>4. q[2] # 0 => c[q[1]].txs[q[2]] \in TxId
    BY <2>2, <2>3
  <2> QED  BY <1>1, <2>1, <2>2, <2>4 DEF IdAt
<1>5. ASSUME NEW q \in UpTo(c, n - 1)
      PROVE  Earlier(q, <<n, 0>>) /\ Earlier(q, <<n, k + 1>>) /\ IdAt(c, q) # n - 1 /\ (q[2] = 0 => IdAt(c, q) <= MaxHeight)
  <2>1. q[1] \in Nat /\ q[1] < n
    BY <1>4
  <2>2. CASE q[2] = 0
    BY <1>1, <1>4, <2>1, <2>2 DEF Earlier
  <2>3. CASE q[2] # 0
    <3>1. IdAt(c, q) \in Nat /\ IdAt(c, q) > MaxHeight
      BY <1>4, <2>3, BlockAssumption
    <3> QED  BY <1>1, <2>1, <2>3, <3>1 DEF Earlier
  <2> QED  BY <2>2, <2>3
<1>6. ASSUME NEW j \in 0 .. k
      PROVE  Earlier(<<n, j>>, <<n, k + 1>>) /\ (<<n, j>>[2] = 0 => IdAt(c, <<n, j>>) <= MaxHeight)
  <2>1. j < k + 1
    OBVIOUS
  <2> QED  BY <1>1, <2>1 DEF Earlier, IdAt
<1>7. Until(c, n, k + 1) = Until(c, n, k) \cup {<<n, k + 1>>}
  BY <1>2 DEF Until
<1>8. \A q \in Until(c, n, k) : Earlier(q, <<n, k + 1>>) /\ (q[2] = 0 => IdAt(c, q) <= MaxHeight)
  BY <1>5, <1>6 DEF Until
<1> QED  BY <1>3, <1>5, <1>7, <1>8 DEF Until, Follows


(* What a coinbase is worth. *)
LEMMA CoinbaseValue ==
    ASSUME NEW value \in 0 .. MaxMoney, NEW h
    PROVE  /\ IsFiniteSet(Created(h, <<value>>, h)) /\ Valued(Created(h, <<value>>, h))
           /\ Value(Created(h, <<value>>, h)) = value
<1> DEFINE outs == <<value>>
<1>0. value \in Int
  BY BlockAssumption
<1>1. outs \in Seq(Int) /\ DOMAIN outs = {1} /\ outs[1] = value
  BY <1>0
<1> HIDE DEF outs
<1>2. \A i \in DOMAIN outs : outs[i] \in 0 .. MaxMoney
  BY <1>1
<1>3. /\ IsFiniteSet(Created(h, outs, h)) /\ Valued(Created(h, outs, h))
      /\ Value(Created(h, outs, h)) = WeightOf(outs, DOMAIN outs)
  BY <1>1, <1>2, CreatedValue
<1>4. WeightOf(outs, {1}) = value
  <2>1. IsFiniteSet({1}) /\ IsFiniteSet({}) /\ \A x \in {1} : outs[x] \in Int
    BY <1>0, <1>1, FS_EmptySet, FS_Singleton
  <2>2. WeightOf(outs, {1}) = outs[1] + WeightOf(outs, {1} \ {1})
    BY <2>1, WeightRemove
  <2>3. {1} \ {1} = {} /\ WeightOf(outs, {}) = 0
    BY <2>1, WeightNext
  <2>4. WeightOf(outs, {1}) = outs[1] + 0 /\ outs[1] = value
    BY <1>1, <2>2, <2>3
  <2> QED  BY ONLY <1>0, <2>4
<1> QED  BY <1>1, <1>3, <1>4 DEF outs

LEMMA Starts ==
    ASSUME NEW c, NEW n, NEW value, OnTop(c, n, value), MoneyRange(value)
    PROVE  Held(c, n, 0, Begun(value, n - 1), value)
<1> DEFINE P == UpTo(c, n - 1)
<1> DEFINE p == <<n, 0>>
<1> DEFINE new == Created(n - 1, <<value>>, n - 1)
<1> DEFINE r == Begun(value, n - 1)
<1>1. /\ Clean(c, P) /\ coins = Left(c, P) /\ IsFiniteSet(coins) /\ Valued(coins)
      /\ value \in Int /\ c[n].value = value
  BY DEF OnTop
<1>2. InsAt(c, p) = <<>> /\ IdAt(c, p) = n - 1 /\ MadeAt(c, p) = new
  BY <1>1 DEF InsAt, IdAt, MadeAt, OutsAt
<1>3. Until(c, n, 0) = P \cup {p} /\ \A q \in P : Earlier(q, p) /\ IdAt(c, q) # n - 1
  BY UntilIs
<1> HIDE DEF P, p
<1>4. Fits(c, P, p)
  BY <1>1, <1>2, <1>3 DEF Fits
<1>5. /\ Clean(c, P \cup {p}) /\ new \cap Made(c, P) = {}
      /\ Left(c, P \cup {p}) = {e \in Left(c, P) : Outpoint(e) \notin ToSet(InsAt(c, p))} \cup MadeAt(c, p)
  BY <1>2, <1>4, OneMore
<1>6. Left(c, P \cup {p}) = coins \cup new
  <2>1. ToSet(InsAt(c, p)) = {}
    BY <1>2 DEF ToSet
  <2> QED  BY <1>1, <1>2, <1>5, <2>1
<1>7. coins \subseteq Made(c, P) /\ coins \subseteq Made(c, P \cup {p})
  BY <1>1 DEF Left, Made
<1>8. r.pending = new /\ r.spent = {} /\ r.fees = 0
  BY DEF Begun
<1> HIDE DEF r
<1>9. Viewed(c, P \cup {p}, r)
  BY <1>5, <1>6, <1>7, <1>8 DEF Viewed
<1>10. MaxMoney \in Nat /\ value \in 0 .. MaxMoney
  BY <1>1, BlockAssumption DEF MoneyRange
<1>11. IsFiniteSet(new) /\ Valued(new) /\ Value(new) = value
  BY <1>10, CoinbaseValue
<1>12. Value({}) = 0
  BY <1>11, ValueType
<1>13. Counted(r, value)
  BY <1>1, <1>8, <1>10, <1>11, <1>12 DEF Counted
<1> QED  BY <1>3, <1>9, <1>13 DEF Held, r

LEMMA Continues ==
    ASSUME NEW c, NEW n, NEW value, OnTop(c, n, value), NEW k \in Nat, k + 1 \in DOMAIN c[n].txs,
           NEW r, Held(c, n, k, r, value),
           Passed(r, TxOf[c[n].txs[k + 1]], n - 1),
           NEW s, Applied(s, r, c[n].txs[k + 1], TxOf[c[n].txs[k + 1]], n - 1)
    PROVE  Held(c, n, k + 1, s, value)
<1> DEFINE P == Until(c, n, k)
<1> DEFINE p == <<n, k + 1>>
<1> DEFINE id == c[n].txs[k + 1]
<1> DEFINE height == n - 1
<1>1. Blocks(c) /\ n = Len(c) /\ n > 0 /\ value \in Int
  BY DEF OnTop
<1>2. n \in 1 .. Len(c)
  BY <1>1, BlocksFacts
<1>3. id \in TxId
  <2>1. c[n].txs \in Seq(TxId)
    BY <1>1, <1>2 DEF Blocks
  <2> QED  BY <2>1
<1>4. IdAt(c, p) = id /\ p[2] # 0 /\ p[1] - 1 = height
  BY DEF IdAt
<1>5. Until(c, n, k + 1) = P \cup {p} /\ \A q \in P : Earlier(q, p) /\ (q[2] = 0 => IdAt(c, q) <= MaxHeight)
  <2>1. OnTop(c, n, value) /\ k \in Nat
    OBVIOUS
  <2>2. Follows(c, n, k)
    BY ONLY <2>1, UntilIs
  <2> QED  BY <2>2 DEF Follows
<1>6. /\ Viewed(c, P, r) /\ Counted(r, value)
      /\ Passed(r, TxOf[id], height) /\ Applied(s, r, id, TxOf[id], height)
  BY DEF Held
<1> HIDE DEF P, p, id, height
<1>7. NextAt(c, P, p, id, height)
  BY <1>3, <1>4, <1>5 DEF NextAt
<1>8. Viewed(c, P \cup {p}, s)
  BY ONLY <1>6, <1>7, NextKeepsView
<1>9. Counted(s, value)
  BY ONLY <1>1, <1>6, <1>7, NextKeepsCount
<1> QED  BY <1>5, <1>8, <1>9 DEF Held, P

(* Every record of the loop holds what the transactions so far leave. *)
KeptAt(c, n, value, f, k) ==
    /\ Shape(f[k]) /\ f[k].fees \in Int
    /\ f[k].ok => Held(c, n, k, f[k], value)


LEMMA RunKeeps ==
    ASSUME NEW c, NEW n, NEW value, OnTop(c, n, value),
           NEW f, RunOf(f, value, c[n].txs, n - 1)
    PROVE  \A k \in 0 .. Len(c[n].txs) : KeptAt(c, n, value, f, k)
<1> DEFINE txs == c[n].txs
<1> DEFINE Bad == {k \in 0 .. Len(txs) : ~KeptAt(c, n, value, f, k)}
<1>0. Len(txs) \in Nat /\ DOMAIN txs = 1 .. Len(txs)
  <2>1. Blocks(c) /\ n = Len(c) /\ n > 0
    BY DEF OnTop
  <2>2. n \in 1 .. Len(c)
    BY <2>1, BlocksFacts
  <2>3. txs \in Seq(TxId)
    BY <2>1, <2>2 DEF Blocks
  <2> QED  BY <2>3
<1>1. \A k \in 0 .. Len(txs) : f[k] = IF k = 0 THEN Begun(value, n - 1) ELSE CheckTx(f[k - 1], txs[k], n - 1)
  BY DEF RunOf
<1> HIDE DEF txs
<1>2. Bad = {}
  <2> SUFFICES ASSUME Bad # {} PROVE FALSE
    OBVIOUS
  <2>1. PICK k \in Bad : \A m \in Bad : k <= m
    <3>1. Bad \subseteq Nat
      BY <1>0
    <3> HIDE DEF Bad
    <3> QED  BY <3>1, LeastNumber
  <2>2. k \in 0 .. Len(txs) /\ k \in Nat /\ ~KeptAt(c, n, value, f, k)
    BY <1>0
  <2>3. CASE k = 0
    <3>1. f[0] = Begun(value, n - 1)
      BY <1>1, <2>2, <2>3
    <3>2. Shape(Begun(value, n - 1)) /\ Begun(value, n - 1).fees \in Int
      BY DEF Shape, Begun
    <3>3. Begun(value, n - 1).ok => Held(c, n, 0, Begun(value, n - 1), value)
      <4>1. Begun(value, n - 1).ok = MoneyRange(value)
        BY DEF Begun
      <4> QED  BY <4>1, Starts
    <3> QED  BY <2>2, <2>3, <3>1, <3>2, <3>3 DEF KeptAt
  <2>4. CASE k # 0
    <3> DEFINE j == k - 1
    <3> DEFINE r == f[j]
    <3> DEFINE s == f[k]
    <3> DEFINE id == txs[k]
    <3>1. j \in Nat /\ j \in 0 .. Len(txs) /\ ~(k <= j) /\ k = j + 1 /\ k \in DOMAIN txs
      BY <1>0, <2>2, <2>4
    <3>2. KeptAt(c, n, value, f, j)
      BY <2>1, <3>1
    <3>3. s = CheckTx(r, id, n - 1)
      BY <1>1, <2>2, <2>4
    <3>4. Shape(r) /\ r.fees \in Int /\ (r.ok => Held(c, n, j, r, value))
      BY <3>2 DEF KeptAt
    <3> HIDE DEF r, s, id, j
    <3>5. /\ Shape(s)
          /\ \/ r.ok /\ Passed(r, TxOf[id], n - 1) /\ Applied(s, r, id, TxOf[id], n - 1)
             \/ ~s.ok /\ s.fees = r.fees
      BY <3>3, <3>4, CheckTxIs
    <3>6. CASE r.ok /\ Passed(r, TxOf[id], n - 1) /\ Applied(s, r, id, TxOf[id], n - 1)
      <4>1. Held(c, n, j + 1, s, value)
        <5>1. id = c[n].txs[j + 1] /\ j + 1 \in DOMAIN c[n].txs
          BY <3>1 DEF id, txs
        <5> QED  BY <3>1, <3>4, <3>6, <5>1, Continues
      <4>2. s.fees \in Int
        <5>1. s.fees \in 0 .. MaxMoney /\ MaxMoney \in Nat
          BY <4>1, BlockAssumption DEF Held, Counted
        <5> QED  BY <5>1
      <4> QED  BY <2>2, <3>1, <3>5, <4>1, <4>2 DEF KeptAt, s
    <3>7. CASE ~s.ok /\ s.fees = r.fees
      BY <2>2, <3>4, <3>5, <3>7 DEF KeptAt, s
    <3> QED  BY <3>5, <3>6, <3>7
  <2> QED  BY <2>3, <2>4
<1> QED  BY <1>2 DEF txs


(* What validateBlockTransactions says of a block on top of a chain. *)
LEMMA ValidatedIs ==
    ASSUME NEW c, NEW n, NEW value, OnTop(c, n, value),
           NEW v, v = validateBlockTransactions(value, c[n].txs, n - 1)
    PROVE  /\ v.fees \in Int
           /\ v.ok => /\ Viewed(c, Positions(c), v) /\ Counted(v, value)
                      /\ value <= BlockSubsidy(n - 1) + v.fees
<1> DEFINE txs == c[n].txs
<1>1. Blocks(c) /\ n = Len(c) /\ n > 0 /\ n \in Nat
  BY BlocksFacts DEF OnTop
<1>2. Len(txs) \in Nat
  <2>1. n \in 1 .. Len(c)
    BY <1>1
  <2>2. txs \in Seq(TxId)
    BY <1>1, <2>1 DEF Blocks
  <2> QED  BY <2>2
<1> DEFINE height == n - 1
<1> HIDE DEF txs, height
<1>3. PICK f : /\ RunOf(f, value, txs, height)
               /\ validateBlockTransactions(value, txs, height)
                    = [f[Len(txs)] EXCEPT !.ok = @ /\ value <= BlockSubsidy(height) + f[Len(txs)].fees]
  BY ONLY <1>2, RunIs
<1> DEFINE r == f[Len(txs)]
<1>4. KeptAt(c, n, value, f, Len(txs))
  <2>1. RunOf(f, value, c[n].txs, n - 1)
    BY <1>3 DEF txs, height
  <2>2. \A k \in 0 .. Len(c[n].txs) : KeptAt(c, n, value, f, k)
    BY <2>1, RunKeeps
  <2> QED  BY <1>2, <2>2 DEF txs
<1>5. Shape(r) /\ r.fees \in Int /\ (r.ok => Held(c, n, Len(txs), r, value))
  BY <1>4 DEF KeptAt
<1>6. v = [r EXCEPT !.ok = @ /\ value <= BlockSubsidy(n - 1) + r.fees]
  BY <1>3 DEF txs, height
<1> HIDE DEF r
<1>7. /\ v.fees = r.fees /\ v.pending = r.pending /\ v.spent = r.spent /\ v.seen = r.seen
      /\ v.ok = (r.ok /\ value <= BlockSubsidy(n - 1) + r.fees)
  <2> DEFINE enough == value <= BlockSubsidy(n - 1) + r.fees
  <2>1. v = [r EXCEPT !.ok = @ /\ enough]
    BY <1>6
  <2> HIDE DEF enough
  <2>2. v = [ok |-> r.ok /\ enough, ids |-> r.ids, fees |-> r.fees, ops |-> r.ops,
             pending |-> r.pending, spent |-> r.spent, seen |-> r.seen]
    BY <1>5, <2>1 DEF Shape
  <2> QED  BY <2>2 DEF enough
<1>8. Until(c, n, Len(txs)) = Positions(c)
  <2> USE DEF txs
  <2>1. ASSUME NEW p \in Positions(c) PROVE p \in Until(c, n, Len(txs))
    <3>1. p = <<p[1], p[2]>> /\ p[1] \in 1 .. n /\ p[2] \in 0 .. Len(c[p[1]].txs)
      BY <1>1, BlocksFacts
    <3>2. CASE p[1] = n
      BY <3>1, <3>2 DEF Until
    <3>3. CASE p[1] # n
      <4>1. p[1] <= n - 1
        BY <1>1, <3>1, <3>3
      <4> QED  BY <4>1 DEF Until, UpTo
    <3> QED  BY <3>2, <3>3
  <2>2. ASSUME NEW j \in 0 .. Len(txs) PROVE <<n, j>> \in Positions(c)
    <3>1. n \in 1 .. Len(c)
      BY <1>1
    <3> QED  BY <1>1, <2>2, <3>1, BlocksFacts
  <2> QED  BY <2>1, <2>2 DEF Until, UpTo
<1>9. ASSUME v.ok
      PROVE  Viewed(c, Positions(c), v) /\ Counted(v, value) /\ value <= BlockSubsidy(n - 1) + v.fees
  <2>1. Viewed(c, Positions(c), r) /\ Counted(r, value)
    BY <1>5, <1>7, <1>8, <1>9 DEF Held
  <2>2. Viewed(c, Positions(c), v)
    BY <1>7, <2>1 DEF Viewed
  <2>3. Counted(v, value)
    BY <1>7, <2>1 DEF Counted
  <2> QED  BY <1>7, <1>9, <2>2, <2>3
<1> QED  BY <1>5, <1>7, <1>9

(* What each block of a chain leaves. *)
Undoes(chain, n) ==
    LET old == Left(chain, UpTo(chain, n - 1))
    IN  /\ chain[n].spent \subseteq old /\ chain[n].adds \cap old = {}
        /\ Left(chain, UpTo(chain, n)) = (old \ chain[n].spent) \cup chain[n].adds
Worth(left, h) == IsFiniteSet(left) /\ Valued(left) /\ Value(left) <= Paid(h)
Settled(chain, n) ==
    /\ Clean(chain, UpTo(chain, n)) /\ Worth(Left(chain, UpTo(chain, n)), n - 1)
    /\ n > 1 => Undoes(chain, n)

ChainRules(chain) ==
    /\ Blocks(chain) /\ Len(chain) \in 1 .. MaxHeight + 1
    /\ \A n \in 1 .. Len(chain) : Settled(chain, n)

RulesInv == ChainRules(blocks) /\ CoinsAreUnspent

LEMMA SettledSame ==
    ASSUME NEW chain, Blocks(chain), NEW other, Blocks(other),
           NEW n \in Nat, n > 0, n <= Len(chain), n <= Len(other),
           \A h \in 1 .. n : chain[h] = other[h], Settled(chain, n)
    PROVE  Settled(other, n)
<1>1. /\ UpTo(chain, n) = UpTo(other, n) /\ SameAt(chain, other, UpTo(chain, n))
      /\ Left(chain, UpTo(chain, n)) = Left(other, UpTo(other, n))
  BY SameStart
<1>2. Clean(other, UpTo(other, n))
  <2>1. Clean(chain, UpTo(chain, n))
    BY DEF Settled
  <2>2. Clean(other, UpTo(chain, n))
    BY <1>1, <2>1, SameLeft
  <2> QED  BY <1>1, <2>2
<1>3. Left(chain, UpTo(chain, n - 1)) = Left(other, UpTo(other, n - 1))
  <2>0. Len(chain) \in Nat /\ Len(other) \in Nat
    BY BlocksFacts
  <2> DEFINE m == n - 1
  <2>1. m \in Nat /\ m <= Len(chain) /\ m <= Len(other)
    BY <2>0
  <2>2. \A h \in 1 .. m : chain[h] = other[h]
    OBVIOUS
  <2> HIDE DEF m
  <2>3. Left(chain, UpTo(chain, m)) = Left(other, UpTo(other, m))
    BY <2>1, <2>2, SameStart
  <2> QED  BY <2>3 DEF m
<1>4. chain[n] = other[n]
  OBVIOUS
<1>5. n > 1 => Undoes(other, n)
  BY <1>1, <1>3, <1>4 DEF Settled, Undoes
<1> QED  BY <1>1, <1>2, <1>5 DEF Settled

(* A block that was validated, on top of the chain. *)
LEMMA BlockAdded ==
    ASSUME NEW chain, ChainRules(chain), coins = Left(chain, Positions(chain)), Len(chain) <= MaxHeight,
           NEW b, b.txs \in Seq(TxId), b.value \in Int,
           NEW v, v = validateBlockTransactions(b.value, b.txs, Len(chain)),
           b.adds = v.pending, b.spent = v.spent
    PROVE  /\ v.fees \in Int
           /\ v.ok => /\ ChainRules(Append(chain, b))
                      /\ (coins \ v.spent) \cup v.pending = Left(Append(chain, b), Positions(Append(chain, b)))
<1> DEFINE N == Len(chain)
<1> DEFINE c == Append(chain, b)
<1> DEFINE n == N + 1
<1>1. /\ Blocks(chain) /\ N \in 1 .. MaxHeight + 1 /\ \A i \in 1 .. N : Settled(chain, i)
      /\ N \in Nat /\ N > 0
  BY BlocksFacts DEF ChainRules
<1>2. Len(c) = n /\ c[n] = b /\ \A h \in 1 .. N : c[h] = chain[h]
  <2>1. PICK A : chain \in Seq(A)
    BY <1>1 DEF Blocks
  <2>2. chain \in Seq(A \cup {b}) /\ b \in A \cup {b}
    BY <2>1
  <2> QED  BY <2>2
<1>3. Blocks(c)
  <2>1. PICK A : chain \in Seq(A)
    BY <1>1 DEF Blocks
  <2>2. chain \in Seq(A \cup {b}) /\ b \in A \cup {b}
    BY <2>1
  <2>3. c \in Seq(A \cup {b})
    BY <2>2
  <2>4. \A h \in 1 .. Len(c) : c[h].txs \in Seq(TxId)
    <3> TAKE h \in 1 .. Len(c)
    <3> HIDE DEF c
    <3>1. CASE h \in 1 .. N
      BY <1>1, <1>2, <3>1 DEF Blocks
    <3>2. CASE h = n
      BY <1>2, <3>2
    <3> QED  BY <1>1, <1>2, <3>1, <3>2
  <2> QED  BY <2>3, <2>4 DEF Blocks
<1> HIDE DEF c
<1>4. \A i \in 1 .. N : Settled(c, i)
  <2> TAKE i \in 1 .. N
  <2>1. \A h \in 1 .. i : chain[h] = c[h]
    BY <1>1, <1>2
  <2>2. i \in Nat /\ i > 0 /\ i <= Len(chain) /\ i <= Len(c) /\ Settled(chain, i)
    BY <1>1, <1>2
  <2> QED  BY <1>1, <1>3, <2>1, <2>2, SettledSame
<1>5. /\ UpTo(chain, N) = Positions(chain) /\ UpTo(c, n) = Positions(c)
      /\ coins = Left(c, UpTo(c, N))
  <2>1. UpTo(chain, N) = Positions(chain) /\ UpTo(c, n) = Positions(c)
    BY <1>1, <1>2, <1>3, BlocksFacts
  <2>2. Left(chain, UpTo(chain, N)) = Left(c, UpTo(c, N))
    <3>1. N <= Len(chain) /\ N <= Len(c) /\ \A h \in 1 .. N : chain[h] = c[h]
      BY <1>1, <1>2
    <3> HIDE DEF N
    <3> QED  BY <1>1, <1>3, <3>1, SameStart
  <2> QED  BY <2>1, <2>2
<1>6. Clean(c, UpTo(c, N)) /\ Worth(coins, N - 1)
  <2>1. Settled(c, N)
    BY <1>1, <1>4
  <2> QED  BY <1>5, <2>1 DEF Settled
<1>7. n - 1 = N /\ n > 0 /\ n > 1
  BY <1>1
<1> HIDE DEF N
<1>8. OnTop(c, n, b.value)
  <2>1. IsFiniteSet(coins) /\ Valued(coins)
    BY <1>6 DEF Worth
  <2>2. N <= MaxHeight
    BY DEF N
  <2> HIDE DEF n
  <2> QED  BY <1>2, <1>3, <1>5, <1>6, <1>7, <2>1, <2>2 DEF OnTop
<1>9. v = validateBlockTransactions(b.value, c[n].txs, n - 1)
  BY <1>2, <1>7 DEF N
<1> HIDE DEF n
<1>10. /\ v.fees \in Int
       /\ v.ok => /\ Viewed(c, Positions(c), v) /\ Counted(v, b.value)
                  /\ b.value <= BlockSubsidy(n - 1) + v.fees
  BY ONLY <1>8, <1>9, ValidatedIs
<1>11. ASSUME v.ok
       PROVE  ChainRules(c) /\ (coins \ v.spent) \cup v.pending = Left(c, Positions(c))
  <2> DEFINE L == Left(c, UpTo(c, n))
  <2>1. /\ Clean(c, UpTo(c, n)) /\ L = (coins \ v.spent) \cup v.pending
        /\ v.spent \subseteq coins /\ v.pending \cap coins = {}
    BY <1>5, <1>10, <1>11 DEF Viewed
  <2>2. Undoes(c, n)
    BY <1>2, <1>5, <1>7, <2>1 DEF Undoes
  <2>3. Worth(L, n - 1)
    <3> DEFINE rest == coins \ v.spent
    <3>1. /\ IsFiniteSet(coins) /\ Valued(coins) /\ IsFiniteSet(v.pending) /\ Valued(v.pending)
          /\ v.fees \in 0 .. MaxMoney /\ Value(v.pending) + v.fees = Value(v.spent) + b.value
      BY <1>10, <1>11 DEF Counted
    <3>2. /\ Value(v.spent) \in Nat /\ Value(rest) \in Nat /\ Value(coins) = Value(v.spent) + Value(rest)
      BY <2>1, <3>1, ValuePart
    <3>3. IsFiniteSet(rest) /\ Valued(rest) /\ rest \cap v.pending = {}
      BY <2>1, <3>1, FS_Subset DEF Valued
    <3>4. /\ Value(rest \cup v.pending) = Value(rest) + Value(v.pending)
          /\ IsFiniteSet(rest \cup v.pending) /\ Valued(rest \cup v.pending)
      BY <3>1, <3>3, ValueUnion
    <3>5. Value(v.pending) \in Nat
      BY <3>1, ValueType
    <3>6. /\ Paid(N) = Paid(N - 1) + BlockSubsidy(N) /\ BlockSubsidy(N) \in Nat /\ Paid(N - 1) \in Nat
      <4>1. N - 1 \in Nat
        BY <1>1
      <4> QED  BY <1>1, <4>1, PaidNext, SubsidyIs
    <3>7. Value(coins) <= Paid(N - 1) /\ b.value <= BlockSubsidy(N) + v.fees
      BY <1>6, <1>7, <1>10, <1>11 DEF Worth
    <3>8. MaxMoney \in Nat
      BY BlockAssumption
    <3> HIDE DEF rest
    <3> DEFINE X == Value(v.spent)
    <3> DEFINE Y == Value(rest)
    <3> DEFINE Z == Value(v.pending)
    <3> DEFINE S == BlockSubsidy(N)
    <3> DEFINE D == Paid(N - 1)
    <3> DEFINE fees == v.fees
    <3> DEFINE val == b.value
    <3>9. /\ X \in Nat /\ Y \in Nat /\ Z \in Nat /\ S \in Nat /\ D \in Nat /\ fees \in 0 .. MaxMoney /\ val \in Int
          /\ Z + fees = X + val /\ X + Y <= D /\ val <= S + fees
      BY <3>1, <3>2, <3>5, <3>6, <3>7
    <3>10. Value(L) = Y + Z /\ Paid(n - 1) = D + S
      BY <1>7, <2>1, <3>4, <3>6 DEF rest
    <3> HIDE DEF X, Y, Z, S, D, fees, val
    <3>11. Y + Z <= D + S
      BY ONLY <3>8, <3>9
    <3> QED  BY <2>1, <3>4, <3>10, <3>11 DEF Worth, rest
  <2>4. Settled(c, n)
    BY <2>1, <2>2, <2>3 DEF Settled
  <2>5. \A i \in 1 .. Len(c) : Settled(c, i)
    <3> TAKE i \in 1 .. Len(c)
    <3>1. i \in 1 .. N \/ i = n
      BY <1>1, <1>2 DEF n
    <3> QED  BY <1>4, <2>4, <3>1
  <2>6. Len(c) \in 1 .. MaxHeight + 1
    <3>1. N <= MaxHeight /\ MaxHeight \in Nat
      BY BlockAssumption DEF N
    <3> QED  BY <1>1, <1>2, <3>1 DEF n
  <2> QED  BY <1>3, <1>5, <2>1, <2>5, <2>6 DEF ChainRules
<1> QED  BY <1>10, <1>11 DEF c


LEMMA RulesInit == BlockRulesInit => RulesInv
<1> SUFFICES ASSUME BlockRulesInit PROVE RulesInv
  OBVIOUS
<1> DEFINE c == <<GenesisBlock>>
<1> DEFINE p == <<1, 0>>
<1> DEFINE new == Created(0, <<Subsidy>>, 0)
<1>1. /\ coins = new /\ blocks = c /\ GenesisBlock.adds = new
      /\ GenesisBlock.txs = <<>> /\ GenesisBlock.value = Subsidy
  BY DEF BlockRulesInit, GenesisBlock
<1>2. c \in Seq({GenesisBlock}) /\ Len(c) = 1 /\ c[1] = GenesisBlock
  OBVIOUS
<1> HIDE DEF c
<1>3. Blocks(c)
  <2>1. c[1].txs \in Seq(TxId)
    <3>1. <<>> \in Seq(TxId)
      OBVIOUS
    <3>2. c[1].txs = <<>>
      BY <1>1, <1>2
    <3> QED  BY ONLY <3>1, <3>2
  <2>2. \A h \in 1 .. Len(c) : h = 1
    BY <1>2
  <2> QED  BY <1>2, <2>1, <2>2 DEF Blocks
<1>4. Positions(c) = {p} /\ UpTo(c, 1) = {p}
  <2>1. UpTo(c, 1) = Positions(c) /\ DOMAIN c = {1}
    <3>1. UpTo(c, Len(c)) = Positions(c) /\ DOMAIN c = 1 .. Len(c)
      BY ONLY <1>3, BlocksFacts
    <3>2. 1 .. 1 = {1}
      OBVIOUS
    <3> QED  BY <1>2, <3>1, <3>2
  <2>2. {1} \X (0 .. Len(c[1].txs)) = {p}
    <3>1. Len(c[1].txs) = 0
      BY <1>1, <1>2
    <3>2. 0 .. Len(c[1].txs) = {0}
      BY <3>1
    <3> QED  BY <3>2
  <2>3. Positions(c) = {p}
    BY <2>1, <2>2 DEF Positions
  <2> QED  BY <2>1, <2>3
<1>5. IdAt(c, p) = 0 /\ InsAt(c, p) = <<>> /\ MadeAt(c, p) = new
  BY <1>1, <1>2 DEF IdAt, InsAt, OutsAt, MadeAt
<1> HIDE DEF p, new
<1>6. Fits(c, {}, p)
  <2>1. Clean(c, {})
    BY DEF Clean, OwnIds, FromEarlier, SpentOnce
  <2> QED  BY <1>5, <2>1 DEF Fits
<1>7. Clean(c, {p}) /\ Left(c, {p}) = new
  <2>1. /\ Clean(c, {} \cup {p})
        /\ Left(c, {} \cup {p}) = {e \in Left(c, {}) : Outpoint(e) \notin ToSet(InsAt(c, p))} \cup MadeAt(c, p)
    BY <1>6, OneMore
  <2>2. Left(c, {}) = {}
    BY DEF Left, Made
  <2>3. {} \cup {p} = {p}
    OBVIOUS
  <2> QED  BY <1>5, <2>1, <2>2, <2>3
<1>8. Worth(new, 0)
  <2>1. Subsidy \in 0 .. MaxMoney /\ Subsidy \in Nat
    BY BlockAssumption
  <2>2. IsFiniteSet(new) /\ Valued(new) /\ Value(new) = Subsidy
    BY <2>1, CoinbaseValue DEF new
  <2>3. Paid(0) = Subsidy
    BY PaidNext, SubsidyIs
  <2> QED  BY <2>1, <2>2, <2>3 DEF Worth
<1>9. Settled(c, 1)
  BY <1>4, <1>7, <1>8 DEF Settled
<1>10. ChainRules(c)
  <2>1. MaxHeight \in Nat
    BY BlockAssumption
  <2>2. Len(c) \in 1 .. MaxHeight + 1
    BY <1>2, <2>1
  <2>3. \A n \in 1 .. Len(c) : Settled(c, n)
    BY <1>2, <1>9
  <2> QED  BY <1>3, <2>2, <2>3 DEF ChainRules
<1> QED  BY <1>1, <1>4, <1>7, <1>10 DEF RulesInv, CoinsAreUnspent

LEMMA ConnectKeepsRules ==
    ASSUME RulesInv, ConnectTxs
    PROVE  RulesInv'
<1>1. /\ ChainRules(blocks) /\ coins = Left(blocks, Positions(blocks))
      /\ Len(blocks) \in Nat /\ Len(blocks) > 0
  BY BlocksFacts DEF RulesInv, CoinsAreUnspent, ChainRules
<1> DEFINE height == Len(blocks)
<1>2. TipHeight + 1 = height /\ height <= MaxHeight
  <2>1. MaxHeight \in Nat
    BY BlockAssumption
  <2> QED  BY <1>1, <2>1 DEF TipHeight, ConnectTxs
<1> DEFINE Takes(txs, value) ==
             LET v == validateBlockTransactions(value, txs, height)
             IN  /\ v.ok
                 /\ coins' = (coins \ v.spent) \cup v.pending
                 /\ blocks' = Append(blocks, [txs |-> txs, value |-> value, adds |-> v.pending, spent |-> v.spent])
<1>3. PICK txs \in Candidates : \E value \in Amounts(txs, height) : Takes(txs, value)
  <2> HIDE DEF height
  <2> QED  BY <1>2 DEF ConnectTxs
<1>3a. PICK value \in Amounts(txs, height) : Takes(txs, value)
  BY <1>3
<1>4. txs \in Seq(TxId)
  <2>1. PICK n \in 0 .. MaxTxs : txs \in [1 .. n -> TxId]
    BY DEF Candidates
  <2>2. n \in Nat
    BY BlockAssumption
  <2> QED  BY <2>1, <2>2
<1>5. value \in Int
  <2> DEFINE none == validateBlockTransactions(0, txs, height)
  <2> DEFINE b == [txs |-> txs, value |-> 0, adds |-> none.pending, spent |-> none.spent]
  <2>1. b.txs \in Seq(TxId) /\ b.value = 0 /\ b.adds = none.pending /\ b.spent = none.spent
    BY <1>4
  <2> HIDE DEF b, height
  <2>2. none = validateBlockTransactions(b.value, b.txs, Len(blocks))
    BY DEF b, height
  <2> HIDE DEF none
  <2>3. none.fees \in Int
    BY <1>1, <1>2, <2>1, <2>2, BlockAdded DEF height
  <2>4. BlockSubsidy(height) \in Int
    BY <1>1, SubsidyIs DEF height
  <2>5. value \in {BlockSubsidy(height) + none.fees + d : d \in {0, 1}} \cup {BlockSubsidy(height)}
    BY DEF Amounts, none
  <2> QED  BY <2>3, <2>4, <2>5
<1> DEFINE v == validateBlockTransactions(value, txs, height)
<1> DEFINE b == [txs |-> txs, value |-> value, adds |-> v.pending, spent |-> v.spent]
<1>6. v.ok /\ coins' = (coins \ v.spent) \cup v.pending /\ blocks' = Append(blocks, b)
  BY <1>3a
<1>7. b.txs \in Seq(TxId) /\ b.value \in Int /\ b.adds = v.pending /\ b.spent = v.spent
  BY <1>4, <1>5
<1>8. v = validateBlockTransactions(b.value, b.txs, Len(blocks))
  BY DEF height
<1> HIDE DEF v, b
<1>9. /\ ChainRules(Append(blocks, b))
      /\ (coins \ v.spent) \cup v.pending = Left(Append(blocks, b), Positions(Append(blocks, b)))
  BY <1>1, <1>2, <1>6, <1>7, <1>8, BlockAdded
<1>10. ChainRules(blocks')
  BY <1>6, <1>9
<1>11. coins' = Left(blocks', Positions(blocks'))
  BY <1>6, <1>9
<1>12. (RulesInv)' <=> ChainRules(blocks') /\ coins' = Left(blocks', Positions(blocks'))
  BY DEF RulesInv, CoinsAreUnspent
<1> QED  BY <1>10, <1>11, <1>12

(* The chain below its last block. *)
LEMMA BlockTaken ==
    ASSUME NEW chain, ChainRules(chain), Len(chain) > 1, NEW left, left = Left(chain, Positions(chain))
    PROVE  /\ ChainRules(Front(chain))
           /\ (left \ Last(chain).adds) \cup Last(chain).spent = Left(Front(chain), Positions(Front(chain)))
<1> DEFINE n == Len(chain)
<1> DEFINE m == n - 1
<1> DEFINE c == Front(chain)
<1>1. /\ Blocks(chain) /\ n \in 1 .. MaxHeight + 1 /\ \A i \in 1 .. n : Settled(chain, i)
      /\ n \in Nat /\ n > 1 /\ m \in Nat /\ m > 0 /\ n = m + 1
  BY BlocksFacts DEF ChainRules
<1>2. /\ Len(c) = m /\ (\A h \in 1 .. m : c[h] = chain[h]) /\ Last(chain) = chain[n]
      /\ \E A : c \in Seq(A)
  <2>1. PICK A : chain \in Seq(A)
    BY <1>1 DEF Blocks
  <2>2. c = SubSeq(chain, 1, m)
    BY DEF Front
  <2>3. c \in Seq(A) /\ Len(c) = m /\ \A h \in 1 .. m : c[h] = chain[h]
    BY <1>1, <2>1, <2>2
  <2> QED  BY <2>3 DEF Last
<1> HIDE DEF c
<1>3. Blocks(c)
  BY <1>1, <1>2 DEF Blocks
<1>4. \A i \in 1 .. m : Settled(c, i)
  <2> TAKE i \in 1 .. m
  <2>1. \A h \in 1 .. i : chain[h] = c[h]
    BY <1>1, <1>2
  <2>2. i \in Nat /\ i > 0 /\ i <= Len(chain) /\ i <= Len(c) /\ Settled(chain, i)
    BY <1>1, <1>2
  <2> QED  BY <1>1, <1>3, <2>1, <2>2, SettledSame
<1>5. /\ UpTo(chain, n) = Positions(chain) /\ UpTo(c, m) = Positions(c)
      /\ Left(chain, UpTo(chain, m)) = Left(c, UpTo(c, m))
  <2>1. UpTo(chain, n) = Positions(chain) /\ UpTo(c, m) = Positions(c)
    BY <1>1, <1>2, <1>3, BlocksFacts
  <2>2. m \in Nat /\ m <= Len(chain) /\ m <= Len(c) /\ \A h \in 1 .. m : chain[h] = c[h]
    BY <1>1, <1>2
  <2> HIDE DEF m
  <2>3. Left(chain, UpTo(chain, m)) = Left(c, UpTo(c, m))
    BY ONLY <1>1, <1>3, <2>2, SameStart
  <2> QED  BY <2>1, <2>3
<1>6. ChainRules(c)
  <2>1. Len(c) \in 1 .. MaxHeight + 1 /\ Len(c) = m
    BY <1>1, <1>2, BlockAssumption
  <2> QED  BY <1>3, <1>4, <2>1 DEF ChainRules
<1>7. Undoes(chain, n)
  BY <1>1 DEF Settled
<1> DEFINE old == Left(c, UpTo(c, m))
<1>8. /\ chain[n].spent \subseteq old /\ chain[n].adds \cap old = {}
      /\ left = (old \ chain[n].spent) \cup chain[n].adds
  BY <1>1, <1>5, <1>7 DEF Undoes
<1> HIDE DEF old
<1>9. (left \ chain[n].adds) \cup chain[n].spent = old
  BY <1>8
<1> QED  BY <1>2, <1>5, <1>6, <1>9 DEF old, c

LEMMA DisconnectKeepsRules ==
    ASSUME RulesInv, DisconnectTxs
    PROVE  RulesInv'
<1>1. /\ ChainRules(blocks) /\ coins = Left(blocks, Positions(blocks)) /\ Len(blocks) > 1
      /\ coins' = (coins \ Last(blocks).adds) \cup Last(blocks).spent
      /\ blocks' = Front(blocks)
  <2>1. Len(blocks) \in Nat
    BY BlocksFacts DEF RulesInv, ChainRules
  <2> QED  BY <2>1 DEF RulesInv, CoinsAreUnspent, DisconnectTxs, TipHeight
<1>2. /\ ChainRules(Front(blocks))
      /\ (coins \ Last(blocks).adds) \cup Last(blocks).spent = Left(Front(blocks), Positions(Front(blocks)))
  BY <1>1, BlockTaken
<1>3. ChainRules(blocks') /\ coins' = Left(blocks', Positions(blocks'))
  BY <1>1, <1>2
<1>4. (RulesInv)' <=> ChainRules(blocks') /\ coins' = Left(blocks', Positions(blocks'))
  BY DEF RulesInv, CoinsAreUnspent
<1> QED  BY <1>3, <1>4

LEMMA RulesShow ==
    ASSUME RulesInv
    PROVE  UnspentExact
<1> DEFINE n == Len(blocks)
<1>1. /\ Blocks(blocks) /\ n \in 1 .. MaxHeight + 1 /\ \A i \in 1 .. n : Settled(blocks, i)
      /\ n \in Nat /\ n > 0
  BY BlocksFacts DEF RulesInv, ChainRules
<1>2. UpTo(blocks, n) = Positions(blocks)
  BY <1>1, BlocksFacts
<1>3. Settled(blocks, n)
  BY <1>1
<1>4. CoinsAreUnspent
  BY DEF RulesInv
<1>5. Clean(blocks, Positions(blocks)) /\ Worth(coins, n - 1)
  BY <1>2, <1>3, <1>4 DEF Settled, CoinsAreUnspent
<1>6. NoDoubleSpend
  <2>1. FromEarlier(blocks, Positions(blocks)) /\ SpentOnce(blocks, Positions(blocks))
    BY <1>5 DEF Clean
  <2>2. ASSUME NEW p \in Positions(blocks), NEW i \in DOMAIN InsAt(blocks, p)
        PROVE  \E q \in Positions(blocks) :
                 Earlier(q, p) /\ \E e \in MadeAt(blocks, q) : Outpoint(e) = InsAt(blocks, p)[i]
    BY <2>1 DEF FromEarlier
  <2>3. ASSUME NEW p \in Positions(blocks), NEW i \in DOMAIN InsAt(blocks, p),
               NEW q \in Positions(blocks), NEW j \in DOMAIN InsAt(blocks, q),
               InsAt(blocks, q)[j] = InsAt(blocks, p)[i]
        PROVE  q = p /\ j = i
    BY <2>1, <2>3 DEF SpentOnce
  <2> QED  BY <2>2, <2>3 DEF NoDoubleSpend
<1>7. SupplyBounded
  BY <1>5 DEF SupplyBounded, Worth, Paid, TipHeight
<1> QED  BY <1>4, <1>6, <1>7 DEF UnspentExact

(* The unspent outputs are those that the active chain leaves: every input spends an    *)
(* output of an earlier transaction of the chain and no other input spends it, what is  *)
(* left is in the store and nothing else is, through any blocks connected and taken off *)
(* again, and it is never worth more than the subsidies of the blocks, though amounts   *)
(* are 64-bit integers that wrap (validateBlockTransactions, seenSpends, pendingAdds,   *)
(* and the undo of DisconnectTip).                                                      *)
THEOREM UnspentAlwaysExact == BlockRulesSpec => []UnspentExact
<1>1. RulesInv /\ [BlockRulesNext]_rulevars => RulesInv'
  <2> SUFFICES ASSUME RulesInv, [BlockRulesNext]_rulevars PROVE RulesInv'
    OBVIOUS
  <2>1. CASE ConnectTxs
    BY <2>1, ConnectKeepsRules
  <2>2. CASE DisconnectTxs
    BY <2>2, DisconnectKeepsRules
  <2>3. CASE UNCHANGED rulevars
    <3>1. coins' = coins /\ blocks' = blocks
      BY <2>3 DEF rulevars
    <3>2. ChainRules(blocks) /\ coins = Left(blocks, Positions(blocks))
      BY DEF RulesInv, CoinsAreUnspent
    <3>3. (RulesInv)' <=> ChainRules(blocks') /\ coins' = Left(blocks', Positions(blocks'))
      BY DEF RulesInv, CoinsAreUnspent
    <3> QED  BY <3>1, <3>2, <3>3
  <2> QED  BY <2>1, <2>2, <2>3 DEF BlockRulesNext
<1> QED  BY <1>1, RulesInit, RulesShow, PTL DEF BlockRulesSpec
=============================================================================
