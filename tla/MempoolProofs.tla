--------------------------- MODULE MempoolProofs ----------------------------
(***************************************************************************)
(* The maps of the pool agree for every set of transactions, every number  *)
(* of threads and every limit: what one locked section leaves behind is    *)
(* consistent whatever the unlocked validation before it has seen          *)
(* (PoolInv).  What was found stays true until it is used, so that entries *)
(* can be mined (BuildInv) and no acceptable orphan is left behind         *)
(* (ForgetInv), only where nothing runs between: with one connection.      *)
(* The links have no circle and the limit on ancestors is kept whatever    *)
(* runs between (DepthInv).                                                *)
(***************************************************************************)
EXTENDS Mempool, Sums, FiniteSetTheorems, TLAPS

(* The consistency of the four maps, of a value of the variable pool. *)
MapsAgree(p) ==
    /\ \A t, u \in p.entries : t # u => Spends(t) \cap Spends(u) = {}
    /\ DOMAIN p.spent = SpendsAny(p.entries)
    /\ \A t \in p.entries : \A k \in Spends(t) : p.spent[k] = t
    /\ p.parents = p.childs
    /\ \A e \in p.parents : {e[1], e[2]} \subseteq p.entries /\ e[1] \in Spends(e[2])

MapsTyped(p) ==
    /\ p.entries \subseteq Tx
    /\ p.spent \in [DOMAIN p.spent -> Tx] /\ DOMAIN p.spent \subseteq OutPoint
    /\ p.parents \subseteq Tx \X Tx /\ p.childs \subseteq Tx \X Tx

(* The inputs of transactions are outputs. *)
LEMMA SpendsType ==
    /\ \A t \in Tx : Spends(t) \subseteq OutPoint
    /\ \A T \in SUBSET Tx : SpendsAny(T) \subseteq OutPoint
    /\ \A t \in Tx : Len(Inputs[t]) \in Nat /\ DOMAIN Inputs[t] = 1 .. Len(Inputs[t]) /\ Len(Inputs[t]) >= 1
    /\ \A t \in Tx : \A i \in DOMAIN Inputs[t] : Inputs[t][i] \in Spends(t)
<1>1. \A t \in Tx : Inputs[t] \in Seq(OutPoint) /\ Inputs[t] # <<>>
  BY TxAssumption DEF OutPoint
<1>2. \A t \in Tx : Spends(t) \subseteq OutPoint
  BY <1>1 DEF Spends
<1>3. \A T \in SUBSET Tx : SpendsAny(T) \subseteq OutPoint
  BY <1>2 DEF SpendsAny
<1>4. \A t \in Tx : Len(Inputs[t]) \in Nat /\ DOMAIN Inputs[t] = 1 .. Len(Inputs[t]) /\ Len(Inputs[t]) >= 1
  BY <1>1
<1> QED  BY <1>2, <1>3, <1>4 DEF Spends

(* WithDescendants contains what it starts from and is closed under childs. *)
LEMMA DescendantsClosed ==
    ASSUME NEW p, MapsAgree(p), NEW T
    PROVE  /\ WithDescendants(p, T) \subseteq p.entries
           /\ T \cap p.entries \subseteq WithDescendants(p, T)
           /\ \A e \in p.childs : e[1] \in WithDescendants(p, T) => e[2] \in WithDescendants(p, T)
  BY DEF WithDescendants, MapsAgree

(* removeEntryLocked keeps the maps in agreement. *)
LEMMA RemoveAgrees ==
    ASSUME NEW p, MapsAgree(p), MapsTyped(p), NEW T
    PROVE  /\ MapsAgree(RemoveEntries(p, T))
           /\ MapsTyped(RemoveEntries(p, T))
           /\ RemoveEntries(p, T).entries = p.entries \ WithDescendants(p, T)
<1> DEFINE gone == WithDescendants(p, T)
<1> DEFINE r == RemoveEntries(p, T)
<1>1. /\ r.entries = p.entries \ gone
      /\ r.spent = [k \in DOMAIN p.spent \ SpendsAny(gone) |-> p.spent[k]]
      /\ r.parents = {e \in p.parents : e[2] \notin gone}
      /\ r.childs = {e \in p.childs : e[1] \notin gone /\ ~(e[2] \in gone /\ e \in p.parents)}
  BY DEF RemoveEntries
<1>2. /\ gone \subseteq p.entries
      /\ \A e \in p.childs : e[1] \in gone => e[2] \in gone
  BY DescendantsClosed
<1> HIDE DEF gone, r
<1>3. DOMAIN r.spent = SpendsAny(r.entries)
  <2>1. \A k : k \in SpendsAny(p.entries) /\ k \notin SpendsAny(gone) <=> k \in SpendsAny(r.entries)
    BY <1>1, <1>2 DEF MapsAgree, SpendsAny
  <2> QED  BY <1>1, <2>1 DEF MapsAgree
<1>4. \A t \in r.entries : \A k \in Spends(t) : r.spent[k] = t
  <2> SUFFICES ASSUME NEW t \in r.entries, NEW k \in Spends(t) PROVE r.spent[k] = t
    OBVIOUS
  <2>1. k \in DOMAIN r.spent
    BY <1>3 DEF SpendsAny
  <2> QED  BY <1>1, <2>1 DEF MapsAgree
<1>5. r.parents = r.childs
  BY <1>1, <1>2 DEF MapsAgree
<1>6. \A e \in r.parents : {e[1], e[2]} \subseteq r.entries /\ e[1] \in Spends(e[2])
  BY <1>1, <1>2 DEF MapsAgree
<1>7. \A t, u \in r.entries : t # u => Spends(t) \cap Spends(u) = {}
  BY <1>1 DEF MapsAgree
<1>8. MapsTyped(r)
  BY <1>1 DEF MapsTyped
<1> QED  BY <1>1, <1>3, <1>4, <1>5, <1>6, <1>7, <1>8 DEF MapsAgree, r, gone

(* The insertion at the end of Add keeps the maps in agreement. *)
LEMMA InsertAgrees ==
    ASSUME NEW p, MapsAgree(p), MapsTyped(p), NEW t \in Tx, t \notin p.entries, ~Conflicts(p, t)
    PROVE  MapsAgree(InsertEntry(p, t)) /\ MapsTyped(InsertEntry(p, t))
<1> DEFINE r == InsertEntry(p, t)
<1> DEFINE links == (Spends(t) \cap p.entries) \X {t}
<1>1. /\ r.entries = p.entries \cup {t}
      /\ r.spent = [k \in DOMAIN p.spent \cup Spends(t) |-> IF k \in Spends(t) THEN t ELSE p.spent[k]]
      /\ r.parents = p.parents \cup links
      /\ r.childs = p.childs \cup links
  BY DEF InsertEntry
<1>2. Spends(t) \cap SpendsAny(p.entries) = {}
  BY DEF Conflicts, MapsAgree
<1>3. \A u \in p.entries : Spends(t) \cap Spends(u) = {}
  BY <1>2 DEF SpendsAny
<1> HIDE DEF r
<1>4. DOMAIN r.spent = SpendsAny(r.entries)
  BY <1>1 DEF MapsAgree, SpendsAny
<1>5. \A u \in r.entries : \A k \in Spends(u) : r.spent[k] = u
  <2> SUFFICES ASSUME NEW u \in r.entries, NEW k \in Spends(u) PROVE r.spent[k] = u
    OBVIOUS
  <2>1. k \in DOMAIN p.spent \cup Spends(t)
    BY <1>1, <1>4 DEF SpendsAny
  <2> QED  BY <1>1, <1>3, <2>1 DEF MapsAgree
<1>6. \A e \in links : e[1] \in Spends(t) \cap p.entries /\ e[2] = t
  OBVIOUS
<1>7. \A e \in r.parents : {e[1], e[2]} \subseteq r.entries /\ e[1] \in Spends(e[2])
  BY <1>1, <1>6 DEF MapsAgree
<1>8. \A u, v \in r.entries : u # v => Spends(u) \cap Spends(v) = {}
  BY <1>1, <1>3 DEF MapsAgree
<1>9. MapsTyped(r)
  <2>1. links \subseteq Tx \X Tx
    BY DEF MapsTyped
  <2>2. DOMAIN r.spent \subseteq OutPoint
    BY <1>1, SpendsType DEF MapsTyped
  <2>3. r.spent \in [DOMAIN r.spent -> Tx]
    BY <1>1 DEF MapsTyped
  <2> QED  BY <1>1, <2>1, <2>2, <2>3 DEF MapsTyped
<1> QED  BY <1>1, <1>4, <1>5, <1>7, <1>8, <1>9 DEF MapsAgree, r

(* The place Add makes by eviction: the maps agree and one more entry fits. *)
LEMMA RoomAgrees ==
    ASSUME NEW p, MapsAgree(p), MapsTyped(p), NEW t, NEW r \in MakeRoom(p, t),
           IsFiniteSet(p.entries), Cardinality(p.entries) <= MaxTx
    PROVE  /\ MapsAgree(r) /\ MapsTyped(r)
           /\ IsFiniteSet(r.entries) /\ Cardinality(r.entries) < MaxTx
<1>1. CASE Cardinality(p.entries) < MaxTx
  BY <1>1 DEF MakeRoom
<1>2. CASE ~(Cardinality(p.entries) < MaxTx)
  <2>1. PICK low \in EvictionCandidates(p) : r = RemoveEntries(p, {low})
    BY <1>2 DEF MakeRoom
  <2>2. low \in p.entries
    BY DEF EvictionCandidates
  <2>3. MapsAgree(r) /\ MapsTyped(r) /\ r.entries \subseteq p.entries /\ low \notin r.entries
    BY <2>1, <2>2, RemoveAgrees, DescendantsClosed
  <2>4. r.entries \subseteq p.entries \ {low}
    BY <2>3
  <2>5. /\ IsFiniteSet(p.entries \ {low})
        /\ Cardinality(p.entries \ {low}) = Cardinality(p.entries) - 1
    BY <2>2, FS_RemoveElement
  <2>6. IsFiniteSet(r.entries) /\ Cardinality(r.entries) <= Cardinality(p.entries \ {low})
    BY <2>4, <2>5, FS_Subset
  <2>7. Cardinality(p.entries) \in Nat /\ Cardinality(r.entries) \in Nat
    BY <2>6, FS_CardinalityType
  <2> QED  BY <2>3, <2>5, <2>6, <2>7, PoolAssumption
<1> QED  BY <1>1, <1>2

-----------------------------------------------------------------------------
(* The invariant: the maps are consistent, finite and within their limits. *)
PoolInv ==
    /\ TypeOK
    /\ PoolConsistent
    /\ OrphansConsistent
    /\ IsFiniteSet(pool.entries) /\ IsFiniteSet(orphans)
    /\ PoolBounded

(* The maps of the variable pool are the maps of its value. *)
LEMMA PoolMaps == /\ PoolConsistent <=> MapsAgree(pool)
                  /\ PoolConsistent' <=> MapsAgree(pool')
                  /\ TypeOK => MapsTyped(pool)
  BY DEF PoolConsistent, MapsAgree, TypeOK, MapsTyped

(* An empty pool satisfies the invariant. *)
LEMMA InitPoolInv == Init => PoolInv
<1> SUFFICES ASSUME Init PROVE PoolInv
  OBVIOUS
<1>1. Idle \in Calls
  BY DEF Idle, Call, Calls, PCs
<1>2. TypeOK
  BY <1>1 DEF Init, TypeOK, EmptyPool, In, Idle, Call
<1>3. PoolConsistent /\ OrphansConsistent
  BY DEF Init, PoolConsistent, OrphansConsistent, EmptyPool, SpendsAny
<1>4. IsFiniteSet({}) /\ Cardinality({}) = 0
  BY FS_EmptySet
<1> QED  BY <1>2, <1>3, <1>4, PoolAssumption DEF PoolInv, PoolBounded, Init, EmptyPool

(* The state of one call that TypeOK asks for. *)
CallOK(c) ==
    /\ c \in Calls
    /\ c.pc \notin {"idle", "promote", "reconcile"} => c.tx \in Tx /\ c.missing \subseteq Spends(c.tx)
    /\ c.pc \in {"conflict", "utxo", "parent"} => c.at \in DOMAIN Inputs[c.tx]
    /\ c.pc = "orphan" => c.missing # {}
    /\ c.pc = "promote" => c.stack # <<>>

(* A step of thread h keeps every call well-formed if its own is. *)
LEMMA CallsTyped ==
    ASSUME TypeOK, NEW h \in Thread, NEW c, CallOK(c), thread' = [thread EXCEPT ![h] = c],
           chain' \in Seq(SUBSET Tx), MapsTyped(pool'),
           orphans' \subseteq Tx, orphRef' \subseteq OutPoint \X Tx
    PROVE  TypeOK'
<1>1. thread' \in [Thread -> Calls]
  BY DEF TypeOK, CallOK
<1> SUFFICES ASSUME NEW g \in Thread
             PROVE  CallOK(thread'[g])
  BY <1>1 DEF CallOK, TypeOK, MapsTyped, In, Adding
<1>2. CASE g = h
  BY <1>2 DEF TypeOK
<1>3. CASE g # h
  <2>1. thread'[g] = thread[g]
    BY <1>3 DEF TypeOK
  <2> QED  BY <2>1 DEF TypeOK, CallOK, In, Adding
<1> QED  BY <1>2, <1>3

(* The call of thread h is well-formed now. *)
LEMMA CallNow ==
    ASSUME TypeOK, NEW h \in Thread
    PROVE  CallOK(thread[h])
  BY DEF TypeOK, CallOK, In, Adding

(* A step that moves only the call of one thread. *)
LEMMA CallStep ==
    ASSUME PoolInv, NEW h \in Thread, NEW c, CallOK(c), Goes(h, c),
           UNCHANGED <<chain, pool, orphans, orphRef>>
    PROVE  PoolInv'
<1>1. TypeOK'
  BY CallsTyped, PoolMaps DEF PoolInv, TypeOK, Goes
<1> QED  BY <1>1 DEF PoolInv, PoolConsistent, OrphansConsistent, PoolBounded

(* The calls the actions make are well-formed. *)
LEMMA CallMade ==
    ASSUME NEW pc \in PCs, NEW t \in Tx \cup {NoTx}, NEW i \in Nat,
           NEW m \in SUBSET OutPoint, NEW st \in Seq(Frames),
           pc \notin {"idle", "promote", "reconcile"} => t \in Tx /\ m \subseteq Spends(t),
           pc \in {"conflict", "utxo", "parent"} => i \in DOMAIN Inputs[t],
           pc = "orphan" => m # {},
           pc = "promote" => st # <<>>
    PROVE  CallOK(Call(pc, t, i, m, st))
  BY DEF CallOK, Call, Calls

(* A thread without a call, and one that promotes orphans. *)
LEMMA IdleMade ==
    /\ CallOK(Idle)
    /\ \A st \in Seq(Frames) : st # <<>> => CallOK(Promoting(st))
<1>1. CallOK(Idle)
  BY DEF CallOK, Idle, Call, Calls, PCs
<1>2. ASSUME NEW st \in Seq(Frames), st # <<>> PROVE CallOK(Promoting(st))
  BY <1>2, CallMade DEF Promoting, PCs
<1> QED  BY <1>1, <1>2

(* Add returns to a well-formed call. *)
LEMMA ReturnOK ==
    ASSUME TypeOK, NEW h \in Thread, Return(h)
    PROVE  \E c : CallOK(c) /\ Goes(h, c)
<1>1. Stack(h) \in Seq(Frames)
  BY DEF TypeOK, Calls, Stack
<1> QED  BY <1>1, IdleMade DEF Return

(* The loop over the inputs goes on to an input there is, or ends. *)
LEMMA NextInputOK ==
    ASSUME TypeOK, NEW h \in Thread, In(h, "utxo") \/ In(h, "parent"),
           NEW m \in SUBSET Spends(Adding(h)), NextInput(h, m)
    PROVE  \E c : CallOK(c) /\ Goes(h, c)
<1> DEFINE t == Adding(h)
<1>1. /\ t \in Tx /\ thread[h].at \in DOMAIN Inputs[t] /\ Stack(h) \in Seq(Frames)
      /\ thread[h].at \in Nat
  BY DEF TypeOK, In, Adding, Stack, Calls
<1>2. m \in SUBSET OutPoint /\ DOMAIN Inputs[t] = 1 .. Len(Inputs[t]) /\ Len(Inputs[t]) \in Nat
  BY <1>1, SpendsType
<1>3. CASE thread[h].at < Len(Inputs[t])
  <2>1. thread[h].at + 1 \in DOMAIN Inputs[t] /\ thread[h].at + 1 \in Nat
    BY <1>1, <1>2, <1>3
  <2>2. CallOK(Call("conflict", t, thread[h].at + 1, m, Stack(h)))
    BY <1>1, <1>2, <2>1, CallMade DEF PCs
  <2> QED  BY <1>3, <2>2 DEF NextInput
<1>4. CASE ~(thread[h].at < Len(Inputs[t]))
  <2>1. CallOK(Call(IF m = {} THEN "commit" ELSE "orphan", t, thread[h].at, m, Stack(h)))
    BY <1>1, <1>2, CallMade DEF PCs
  <2> QED  BY <1>4, <2>1 DEF NextInput
<1> QED  BY <1>3, <1>4

(* The same after the script of an input that was found. *)
LEMMA VerifyInputOK ==
    ASSUME TypeOK, NEW h \in Thread, In(h, "utxo") \/ In(h, "parent"), VerifyInput(h)
    PROVE  \E c : CallOK(c) /\ Goes(h, c)
<1>1. thread[h].missing \in SUBSET Spends(Adding(h))
  BY DEF TypeOK, In
<1> QED  BY <1>1, ReturnOK, NextInputOK DEF VerifyInput

(* The call that looks at the next map about the same input. *)
LEMMA GotoOK ==
    ASSUME TypeOK, NEW h \in Thread, In(h, "conflict") \/ In(h, "utxo"),
           NEW pc \in {"utxo", "parent"}, Goto(h, pc)
    PROVE  \E c : CallOK(c) /\ Goes(h, c)
<1>1. /\ Adding(h) \in Tx /\ thread[h].at \in DOMAIN Inputs[Adding(h)] /\ thread[h].at \in Nat
      /\ thread[h].missing \subseteq Spends(Adding(h)) /\ Stack(h) \in Seq(Frames)
  BY DEF TypeOK, In, Adding, Stack, Calls
<1>2. thread[h].missing \in SUBSET OutPoint
  BY <1>1, SpendsType
<1>3. CallOK(Call(pc, Adding(h), thread[h].at, thread[h].missing, Stack(h)))
  BY <1>1, <1>2, CallMade DEF PCs
<1> QED  BY <1>3 DEF Goto

-----------------------------------------------------------------------------
(* One lemma for each action. *)

(* A transaction is submitted. *)
LEMMA StepSubmit ==
    ASSUME PoolInv, NEW h \in Thread, NEW t \in Tx, Submit(h, t)
    PROVE  PoolInv'
<1>1. CallOK(Call("begin", t, 0, {}, <<>>))
  BY DEF CallOK, Call, Calls, PCs
<1> QED  BY <1>1, CallStep DEF Submit

(* Validation starts, or ends with a transaction the index knows. *)
LEMMA StepCheckConfirmed ==
    ASSUME PoolInv, NEW h \in Thread, CheckConfirmed(h)
    PROVE  PoolInv'
<1>1. CASE Return(h)
  BY <1>1, ReturnOK, CallStep DEF CheckConfirmed, PoolInv
<1>2. CASE Goes(h, Call("conflict", Adding(h), 1, {}, Stack(h)))
  <2>1. Adding(h) \in Tx /\ Stack(h) \in Seq(Frames)
    BY DEF CheckConfirmed, PoolInv, TypeOK, In, Stack, Calls
  <2>2. 1 \in DOMAIN Inputs[Adding(h)]
    BY <2>1, SpendsType
  <2>3. CallOK(Call("conflict", Adding(h), 1, {}, Stack(h)))
    BY <2>1, <2>2, CallMade DEF PCs
  <2> QED  BY <1>2, <2>3, CallStep DEF CheckConfirmed
<1> QED  BY <1>1, <1>2 DEF CheckConfirmed

(* The input is looked up in the outpoints the pool spends. *)
LEMMA StepCheckConflict ==
    ASSUME PoolInv, NEW h \in Thread, CheckConflict(h)
    PROVE  PoolInv'
  BY ReturnOK, GotoOK, CallStep DEF CheckConflict, PoolInv

(* The input is looked up in the chain. *)
LEMMA StepLookupUtxo ==
    ASSUME PoolInv, NEW h \in Thread, LookupUtxo(h)
    PROVE  PoolInv'
  BY VerifyInputOK, GotoOK, CallStep DEF LookupUtxo, PoolInv

(* The input is looked up in the entries, or found missing. *)
LEMMA StepLookupParent ==
    ASSUME PoolInv, NEW h \in Thread, LookupParent(h)
    PROVE  PoolInv'
<1>1. CASE VerifyInput(h)
  BY <1>1, VerifyInputOK, CallStep DEF LookupParent, PoolInv
<1>2. CASE NextInput(h, thread[h].missing \cup {Key(h)})
  <2>1. Adding(h) \in Tx /\ thread[h].missing \subseteq Spends(Adding(h)) /\ thread[h].at \in DOMAIN Inputs[Adding(h)]
    BY DEF PoolInv, TypeOK, LookupParent, In
  <2>2. thread[h].missing \cup {Key(h)} \in SUBSET Spends(Adding(h))
    BY <2>1, SpendsType DEF Key
  <2> QED  BY <1>2, <2>2, NextInputOK, CallStep DEF LookupParent, PoolInv
<1> QED  BY <1>1, <1>2 DEF LookupParent

(* A transaction that is not standard is turned away. *)
LEMMA StepRejectNonStandard ==
    ASSUME PoolInv, NEW h \in Thread, RejectNonStandard(h)
    PROVE  PoolInv'
  BY ReturnOK, CallStep DEF RejectNonStandard, PoolInv

(* The orphan map takes the transaction, in the place of another if full. *)
LEMMA StepAddOrphan ==
    ASSUME PoolInv, NEW h \in Thread, AddOrphan(h)
    PROVE  PoolInv'
<1> DEFINE t == Adding(h)
<1> DEFINE waits == thread[h].missing \X {t}
<1>1. /\ t \in Tx /\ thread[h].missing \subseteq Spends(t) /\ thread[h].missing # {}
      /\ TypeOK /\ OrphansConsistent /\ IsFiniteSet(orphans)
      /\ Cardinality(orphans) \in Nat /\ Cardinality(orphans) <= MaxOrphans
      /\ Return(h) /\ UNCHANGED <<chain, pool>>
  BY FS_CardinalityType DEF PoolInv, PoolBounded, TypeOK, AddOrphan, In
<1>2. thread[h].missing \subseteq OutPoint
  BY <1>1, SpendsType
<1>w. /\ \A e \in waits : e[1] \in Spends(t) /\ e[2] = t
      /\ \E e \in waits : e[2] = t
  <2>1. PICK m \in thread[h].missing : TRUE
    BY <1>1
  <2>2. <<m, t>> \in waits /\ <<m, t>>[2] = t
    OBVIOUS
  <2> QED  BY <1>1, <2>2
<1>3. PICK c : CallOK(c) /\ Goes(h, c)
  BY <1>1, ReturnOK
<1> HIDE DEF t, waits
<1>4. CASE t \in orphans /\ UNCHANGED <<orphans, orphRef>>
  BY <1>1, <1>3, <1>4, CallStep
<1>5. CASE /\ t \notin orphans /\ Cardinality(orphans) < MaxOrphans
           /\ orphans' = orphans \cup {t}
           /\ orphRef' = orphRef \cup waits
  <2>1. orphans' \subseteq Tx /\ orphRef' \subseteq OutPoint \X Tx
    BY <1>1, <1>2, <1>5 DEF TypeOK, waits
  <2>2. OrphansConsistent'
    BY <1>1, <1>5, <1>w DEF OrphansConsistent
  <2>3. IsFiniteSet(orphans') /\ Cardinality(orphans') = Cardinality(orphans) + 1
    BY <1>1, <1>5, FS_AddElement
  <2>4. TypeOK'
    BY <1>1, <1>3, <2>1, CallsTyped, PoolMaps DEF TypeOK, Goes
  <2> QED  BY <1>1, <1>5, <2>2, <2>3, <2>4, PoolAssumption DEF PoolInv, PoolConsistent, PoolBounded
<1>6. CASE /\ t \notin orphans /\ Cardinality(orphans) >= MaxOrphans
           /\ \E old \in orphans : /\ orphans' = (orphans \ {old}) \cup {t}
                                   /\ orphRef' = WithoutOrphan(old) \cup waits
  <2>1. PICK old \in orphans : /\ orphans' = (orphans \ {old}) \cup {t}
                               /\ orphRef' = WithoutOrphan(old) \cup waits
    BY <1>6
  <2>2. orphans' \subseteq Tx /\ orphRef' \subseteq OutPoint \X Tx
    BY <1>1, <1>2, <2>1 DEF TypeOK, WithoutOrphan, waits
  <2>3. OrphansConsistent'
    <3>1. \A u \in orphans' : \E e \in orphRef' : e[2] = u
      BY <1>1, <1>w, <2>1 DEF OrphansConsistent, WithoutOrphan
    <3>2. \A e \in orphRef' : e[2] \in orphans' /\ e[1] \in Spends(e[2])
      BY <1>1, <1>w, <2>1 DEF OrphansConsistent, WithoutOrphan
    <3> QED  BY <3>1, <3>2 DEF OrphansConsistent
  <2>4. IsFiniteSet(orphans \ {old}) /\ Cardinality(orphans \ {old}) = Cardinality(orphans) - 1
    BY <1>1, FS_RemoveElement
  <2>5. IsFiniteSet(orphans') /\ Cardinality(orphans') = Cardinality(orphans)
    <3>1. /\ IsFiniteSet((orphans \ {old}) \cup {t})
          /\ Cardinality((orphans \ {old}) \cup {t}) = Cardinality(orphans \ {old}) + 1
      BY <1>6, <2>4, FS_AddElement
    <3> QED  BY <1>1, <2>1, <2>4, <3>1
  <2>6. TypeOK'
    BY <1>1, <1>3, <2>2, CallsTyped, PoolMaps DEF TypeOK, Goes
  <2> QED  BY <1>1, <2>3, <2>5, <2>6 DEF PoolInv, PoolConsistent, PoolBounded
<1> QED  BY <1>4, <1>5, <1>6 DEF AddOrphan, t, waits

(* Pushing a frame. *)
LEMMA Pushed ==
    ASSUME NEW S, NEW st \in Seq(S), NEW f \in S
    PROVE  Append(st, f) \in Seq(S) /\ Append(st, f) # <<>>
<1>1. Append(st, f) \in Seq(S) /\ Len(Append(st, f)) = Len(st) + 1 /\ Len(st) \in Nat
  OBVIOUS
<1>2. Len(Append(st, f)) # 0
  BY <1>1
<1> QED  BY <1>1, <1>2

(* The locked part of Add: the orphan goes, room is made, the entry is in. *)
LEMMA StepCommit ==
    ASSUME PoolInv, NEW h \in Thread, Commit(h)
    PROVE  PoolInv'
<1> DEFINE t == Adding(h)
<1>1. /\ t \in Tx /\ TypeOK /\ OrphansConsistent /\ Stack(h) \in Seq(Frames)
      /\ orphans' = orphans \ {t} /\ orphRef' = WithoutOrphan(t) /\ chain' = chain
  BY DEF PoolInv, TypeOK, Commit, In, Stack, Calls
<1>2. MapsAgree(pool) /\ MapsTyped(pool)
  BY PoolMaps DEF PoolInv
<1>3. /\ IsFiniteSet(pool.entries) /\ IsFiniteSet(orphans)
      /\ Cardinality(pool.entries) <= MaxTx /\ Cardinality(orphans) <= MaxOrphans
  BY DEF PoolInv, PoolBounded
<1>4. OrphansConsistent' /\ orphans' \subseteq Tx /\ orphRef' \subseteq OutPoint \X Tx
  BY <1>1 DEF OrphansConsistent, WithoutOrphan, TypeOK
<1>5. IsFiniteSet(orphans') /\ Cardinality(orphans') <= MaxOrphans
  <2>1. IsFiniteSet(orphans') /\ Cardinality(orphans') <= Cardinality(orphans)
    BY <1>1, <1>3, FS_Subset
  <2>2. Cardinality(orphans') \in Nat /\ Cardinality(orphans) \in Nat
    BY <1>3, <2>1, FS_CardinalityType
  <2> QED  BY <1>3, <2>1, <2>2, PoolAssumption
<1>6. ASSUME NEW c, CallOK(c), Goes(h, c), MapsAgree(pool'), MapsTyped(pool'),
             IsFiniteSet(pool'.entries), Cardinality(pool'.entries) <= MaxTx
      PROVE  PoolInv'
  <2>1. TypeOK'
    BY <1>1, <1>4, <1>6, CallsTyped DEF TypeOK, Goes
  <2> QED  BY <1>4, <1>5, <1>6, <2>1, PoolMaps DEF PoolInv, PoolBounded
<1>7. CASE UNCHANGED pool /\ Return(h)
  BY <1>1, <1>2, <1>3, <1>6, <1>7, ReturnOK
<1>8. ASSUME NEW p \in MakeRoom(pool, t),
             \/ pool' = p /\ Return(h)
             \/ /\ t \notin p.entries /\ ~Conflicts(p, t)
                /\ pool' = InsertEntry(p, t)
                /\ Goes(h, Promoting(Append(Stack(h), Frame(t))))
      PROVE  PoolInv'
  <2>1. /\ MapsAgree(p) /\ MapsTyped(p)
        /\ IsFiniteSet(p.entries) /\ Cardinality(p.entries) < MaxTx
    BY <1>2, <1>3, RoomAgrees
  <2>2. Cardinality(p.entries) \in Nat
    BY <2>1, FS_CardinalityType
  <2>3. CASE pool' = p /\ Return(h)
    BY <1>1, <1>6, <2>1, <2>2, <2>3, ReturnOK, PoolAssumption
  <2>4. CASE /\ t \notin p.entries /\ ~Conflicts(p, t)
             /\ pool' = InsertEntry(p, t)
             /\ Goes(h, Promoting(Append(Stack(h), Frame(t))))
    <3>1. MapsAgree(pool') /\ MapsTyped(pool')
      BY <1>1, <2>1, <2>4, InsertAgrees
    <3>2. pool'.entries = p.entries \cup {t}
      BY <2>4 DEF InsertEntry
    <3>3. IsFiniteSet(pool'.entries) /\ Cardinality(pool'.entries) <= MaxTx
      <4>1. /\ IsFiniteSet(p.entries \cup {t})
            /\ Cardinality(p.entries \cup {t}) = Cardinality(p.entries) + 1
        BY <2>1, <2>4, FS_AddElement
      <4>2. Cardinality(p.entries) + 1 <= MaxTx
        BY <2>1, <2>2, PoolAssumption
      <4> QED  BY <3>2, <4>1, <4>2
    <3>4. Frame(t) \in Frames
      BY <1>1 DEF Frame, Frames
    <3>5. Append(Stack(h), Frame(t)) \in Seq(Frames) /\ Append(Stack(h), Frame(t)) # <<>>
      BY <1>1, <3>4, Pushed
    <3> QED  BY <1>6, <2>4, <3>1, <3>3, <3>5, IdleMade
  <2> QED  BY <1>8, <2>3, <2>4
<1> QED  BY <1>7, <1>8 DEF Commit

(* promoteOrphans works on the frame on top of its stack. *)
LEMMA TopFrame ==
    ASSUME TypeOK, NEW h \in Thread, In(h, "promote")
    PROVE  /\ Stack(h) \in Seq(Frames) /\ Len(Stack(h)) \in Nat \ {0}
           /\ Top(h) \in Frames
           /\ \A f \in Frames : SetTop(h, f) \in Seq(Frames) /\ SetTop(h, f) # <<>>
<1>1. Stack(h) \in Seq(Frames) /\ Stack(h) # <<>>
  BY DEF TypeOK, In, Stack, Calls
<1>2. Len(Stack(h)) \in Nat \ {0} /\ Top(h) \in Frames
  BY <1>1 DEF Top
<1>3. Pop(h) \in Seq(Frames)
  BY <1>1, <1>2 DEF Pop
<1>4. ASSUME NEW f \in Frames PROVE SetTop(h, f) \in Seq(Frames) /\ SetTop(h, f) # <<>>
  BY <1>3 DEF SetTop
<1> QED  BY <1>1, <1>2, <1>4

(* promoteOrphans looks for the orphans that wait for a new entry. *)
LEMMA StepScanOrphans ==
    ASSUME PoolInv, NEW h \in Thread, ScanOrphans(h)
    PROVE  PoolInv'
<1> DEFINE found == {e[2] : e \in {f \in orphRef : f[1] = Head(Top(h).queue)}} \ Top(h).seen
<1> DEFINE f == [for |-> Top(h).for, queue |-> Tail(Top(h).queue),
                 candidates |-> found, seen |-> Top(h).seen \cup found]
<1>1. TypeOK /\ In(h, "promote") /\ Top(h).queue # <<>>
  BY DEF PoolInv, ScanOrphans
<1>2. Top(h) \in Frames /\ \A g \in Frames : SetTop(h, g) \in Seq(Frames) /\ SetTop(h, g) # <<>>
  BY <1>1, TopFrame
<1>3. found \subseteq Tx
  BY <1>1 DEF TypeOK
<1> HIDE DEF found
<1>4. f \in Frames
  BY <1>1, <1>2, <1>3 DEF Frames
<1>5. CallOK(Promoting(SetTop(h, f)))
  BY <1>2, <1>4, IdleMade
<1> QED  BY <1>5, CallStep DEF ScanOrphans, found

(* promoteOrphans runs Add for a candidate that is still an orphan. *)
LEMMA StepTryOrphan ==
    ASSUME PoolInv, NEW h \in Thread, TryOrphan(h)
    PROVE  PoolInv'
<1>1. TypeOK /\ In(h, "promote")
  BY DEF PoolInv, TryOrphan
<1>2. PICK t \in Top(h).candidates :
         Goes(h, IF t \in orphans
                 THEN Call("begin", t, 0, {}, SetTop(h, [Top(h) EXCEPT !.candidates = @ \ {t}]))
                 ELSE Promoting(SetTop(h, [Top(h) EXCEPT !.candidates = @ \ {t}])))
  BY DEF TryOrphan
<1> DEFINE f == [Top(h) EXCEPT !.candidates = @ \ {t}]
<1>3. f \in Frames
  BY <1>1, TopFrame DEF Frames
<1>4. SetTop(h, f) \in Seq(Frames) /\ SetTop(h, f) # <<>>
  BY <1>1, <1>3, TopFrame
<1> HIDE DEF f
<1>5. CallOK(Promoting(SetTop(h, f)))
  BY <1>4, IdleMade
<1>6. t \in orphans => CallOK(Call("begin", t, 0, {}, SetTop(h, f)))
  <2>1. t \in orphans => t \in Tx
    BY <1>1 DEF TypeOK
  <2> QED  BY <1>4, <2>1 DEF CallOK, Call, Calls, PCs
<1> QED  BY <1>2, <1>5, <1>6, CallStep DEF TryOrphan, f

(* promoteOrphans ends and the call below it goes on. *)
LEMMA StepPromoteEnds ==
    ASSUME PoolInv, NEW h \in Thread, PromoteEnds(h)
    PROVE  PoolInv'
<1>1. TypeOK /\ In(h, "promote")
  BY DEF PoolInv, PromoteEnds
<1>2. Stack(h) \in Seq(Frames) /\ Len(Stack(h)) \in Nat \ {0} /\ Top(h) \in Frames
  BY <1>1, TopFrame
<1>3. CASE Len(Stack(h)) = 1
  BY <1>3, IdleMade, CallStep DEF PromoteEnds
<1>4. CASE Len(Stack(h)) # 1
  <2> DEFINE n == Len(Stack(h))
  <2> DEFINE below == Stack(h)[n - 1]
  <2> DEFINE f == [below EXCEPT !.queue = Append(@, Top(h).for)]
  <2> DEFINE st == Append(SubSeq(Stack(h), 1, n - 2), f)
  <2>0. n \in Nat /\ n # 0 /\ n # 1
    BY <1>2, <1>4
  <2>1. n - 1 \in 1 .. n /\ n - 2 \in 0 .. n
    <3> HIDE DEF n
    <3> QED  BY <2>0
  <2>2. below \in Frames
    BY <1>2, <2>1
  <2>3. f \in Frames
    <3> HIDE DEF below
    <3>1. below.queue \in Seq(Tx) /\ Top(h).for \in Tx
      BY <1>2, <2>2 DEF Frames
    <3>2. Append(below.queue, Top(h).for) \in Seq(Tx)
      BY <3>1
    <3> QED  BY <2>2, <3>2 DEF Frames
  <2>4. SubSeq(Stack(h), 1, n - 2) \in Seq(Frames)
    BY <1>2, <2>1
  <2>5. st \in Seq(Frames) /\ st # <<>>
    <3> HIDE DEF f, n
    <3> QED  BY <2>3, <2>4
  <2>6. CallOK(Promoting(st))
    BY <2>5, IdleMade
  <2> QED  BY <1>4, <2>6, CallStep DEF PromoteEnds
<1> QED  BY <1>3, <1>4

(* A block is delivered; the pool is not touched yet. *)
LEMMA StepConnect ==
    ASSUME PoolInv, NEW h \in Thread, ConnectBlock(h) \/ ConnectSeveral(h)
    PROVE  PoolInv'
<1>1. TypeOK /\ chain \in Seq(SUBSET Tx)
  BY DEF PoolInv, TypeOK
<1>2. \A S \in NewBlocks : S \in SUBSET Tx
  BY DEF NewBlocks
<1>3. \E S \in SUBSET Tx : Goes(h, Reconciling(S)) /\ chain' \in Seq(SUBSET Tx)
  <2>1. CASE ConnectBlock(h)
    <3>1. PICK S \in NewBlocks : chain' = Append(chain, S) /\ Goes(h, Reconciling(S))
      BY <2>1 DEF ConnectBlock
    <3> QED  BY <1>1, <1>2, <3>1
  <2>2. CASE ConnectSeveral(h)
    <3>1. PICK S \in NewBlocks, R \in SUBSET Tx : chain' = chain \o <<S, R>> /\ Goes(h, Reconciling(S))
      BY <2>2 DEF ConnectSeveral
    <3>2. <<S, R>> \in Seq(SUBSET Tx)
      BY <1>2
    <3> QED  BY <1>1, <1>2, <3>1, <3>2
  <2> QED  BY <2>1, <2>2
<1>4. PICK S \in SUBSET Tx : Goes(h, Reconciling(S)) /\ chain' \in Seq(SUBSET Tx)
  BY <1>3
<1>5. CallOK(Reconciling(S))
  BY DEF CallOK, Reconciling, Calls, PCs
<1>6. UNCHANGED <<pool, orphans, orphRef>>
  BY DEF ConnectBlock, ConnectSeveral
<1>7. TypeOK'
  BY <1>1, <1>4, <1>5, <1>6, CallsTyped, PoolMaps DEF TypeOK, Goes
<1> QED  BY <1>6, <1>7 DEF PoolInv, PoolConsistent, OrphansConsistent, PoolBounded

(* The pool is reconciled with a block. *)
LEMMA StepRemoveForBlock ==
    ASSUME PoolInv, NEW h \in Thread, RemoveForBlock(h)
    PROVE  PoolInv'
<1> DEFINE first == RemoveEntries(pool, thread[h].block)
<1>1. MapsAgree(pool) /\ MapsTyped(pool)
  BY PoolMaps DEF PoolInv
<1>2. MapsAgree(first) /\ MapsTyped(first) /\ first.entries \subseteq pool.entries
  BY <1>1, RemoveAgrees
<1> HIDE DEF first
<1>3. PICK T : pool' = RemoveEntries(first, T)
  BY DEF RemoveForBlock, first
<1>4. MapsAgree(pool') /\ MapsTyped(pool') /\ pool'.entries \subseteq pool.entries
  BY <1>2, <1>3, RemoveAgrees
<1>5. IsFiniteSet(pool'.entries) /\ Cardinality(pool'.entries) <= MaxTx
  <2>1. IsFiniteSet(pool.entries) /\ Cardinality(pool.entries) <= MaxTx
    BY DEF PoolInv, PoolBounded
  <2>2. IsFiniteSet(pool'.entries) /\ Cardinality(pool'.entries) <= Cardinality(pool.entries)
    BY <1>4, <2>1, FS_Subset
  <2>3. Cardinality(pool'.entries) \in Nat /\ Cardinality(pool.entries) \in Nat
    BY <2>1, <2>2, FS_CardinalityType
  <2> QED  BY <2>1, <2>2, <2>3, PoolAssumption
<1>6. Goes(h, Idle) /\ UNCHANGED <<chain, orphans, orphRef>>
  BY DEF RemoveForBlock
<1>7. TypeOK'
  BY <1>4, <1>6, CallsTyped, IdleMade DEF PoolInv, TypeOK, Goes
<1> QED  BY <1>4, <1>5, <1>6, <1>7, PoolMaps DEF PoolInv, OrphansConsistent, PoolBounded

(* A block is disconnected. *)
LEMMA StepDisconnectTip ==
    ASSUME PoolInv, DisconnectTip
    PROVE  PoolInv'
<1>1. chain \in Seq(SUBSET Tx) /\ chain # <<>>
  BY DEF PoolInv, TypeOK, DisconnectTip
<1>2. SubSeq(chain, 1, Len(chain) - 1) \in Seq(SUBSET Tx)
  BY <1>1
<1>3. chain' \in Seq(SUBSET Tx) /\ UNCHANGED <<pool, orphans, orphRef, thread>>
  BY <1>2 DEF DisconnectTip
<1>4. TypeOK'
  BY <1>3 DEF PoolInv, TypeOK, In, Adding
<1> QED  BY <1>3, <1>4 DEF PoolInv, PoolConsistent, OrphansConsistent, PoolBounded

(* A step that changes nothing. *)
LEMMA StepStutter == PoolInv /\ UNCHANGED vars => PoolInv'
<1> SUFFICES ASSUME PoolInv, UNCHANGED vars PROVE PoolInv'
  OBVIOUS
<1>1. TypeOK'
  BY DEF PoolInv, TypeOK, vars, In, Adding
<1> QED  BY <1>1 DEF PoolInv, PoolConsistent, OrphansConsistent, PoolBounded, vars

(* PoolInv is inductive: one case for each step of a call. *)
LEMMA StepPoolInv ==
    ASSUME PoolInv, [Next]_vars
    PROVE  PoolInv'
<1>1. ASSUME NEW h \in Thread, NEW t \in Tx, Submit(h, t) PROVE PoolInv'
  BY <1>1, StepSubmit
<1>2. ASSUME NEW h \in Thread, ConnectBlock(h) \/ ConnectSeveral(h) PROVE PoolInv'
  BY <1>2, StepConnect
<1>3. ASSUME NEW h \in Thread, Continue(h) PROVE PoolInv'
  BY <1>3, StepCheckConfirmed, StepCheckConflict, StepLookupUtxo, StepLookupParent,
     StepAddOrphan, StepRejectNonStandard, StepCommit, StepScanOrphans, StepTryOrphan,
     StepPromoteEnds, StepRemoveForBlock DEF Continue
<1> QED  BY <1>1, <1>2, <1>3, StepDisconnectTip, StepStutter DEF Next

-----------------------------------------------------------------------------
(* Whatever threads, blocks and limits: PoolInv holds in every state. *)
THEOREM PoolSafe == Spec => []PoolInv
  BY InitPoolInv, StepPoolInv, PTL DEF Spec

(* Every map and every call keeps its type, and a call never looks at an   *)
(* input that its transaction does not have.                               *)
THEOREM TypeCorrect == Spec => []TypeOK
<1>1. PoolInv => TypeOK
  BY DEF PoolInv
<1> QED  BY <1>1, PoolSafe, PTL

(* entries, spent, parents and childs agree at every unlock, although Add  *)
(* validates without the lock and other threads come between.              *)
THEOREM PoolConsistentAlways == Spec => []PoolConsistent
<1>1. PoolInv => PoolConsistent
  BY DEF PoolInv
<1> QED  BY <1>1, PoolSafe, PTL

(* orphRef and orphans agree at every unlock, after eviction as well. *)
THEOREM OrphansConsistentAlways == Spec => []OrphansConsistent
<1>1. PoolInv => OrphansConsistent
  BY DEF PoolInv
<1> QED  BY <1>1, PoolSafe, PTL

(* The pool never holds more than maxTx entries nor more than maxOrph      *)
(* orphans.                                                                *)
THEOREM BoundsKept == Spec => []PoolBounded
<1>1. PoolInv => PoolBounded
  BY DEF PoolInv
<1> QED  BY <1>1, PoolSafe, PTL

-----------------------------------------------------------------------------
(* One connection and room for every transaction: what is in the pool can  *)
(* be mined.                                                               *)

OneConnection ==
    /\ \E g : Thread = {g}
    /\ Environment \subseteq {"block"}
    /\ IsFiniteSet(Tx) /\ Cardinality(Tx) < MaxTx

Complete(p) == \A t, u \in p.entries : t \in Spends(u) => <<t, u>> \in p.parents

(* The block a thread is about to reconcile the pool with. *)
Due(h) == IF In(h, "reconcile") THEN thread[h].block ELSE {}

(* Each input of an entry can be spent by the next block, but for those a  *)
(* block just connected has spent.                                         *)
SourcesInv ==
    /\ SpendsAny(Confirmed) \subseteq Coin \cup Confirmed
    /\ \A h \in Thread :
          /\ SpendsAny(pool.entries) \subseteq Utxo \cup SpendsAny(Due(h)) \cup pool.entries
          /\ pool.entries \cap Confirmed \subseteq Due(h)

(* The inputs a validation has been through were found where they are. *)
FoundInv ==
    \A h \in Thread :
        /\ In(h, "conflict") \/ In(h, "utxo") \/ In(h, "parent") =>
              \A i \in 1 .. thread[h].at - 1 :
                  Inputs[Adding(h)][i] \in Utxo \cup pool.entries \cup thread[h].missing
        /\ In(h, "commit") => Spends(Adding(h)) \subseteq Utxo \cup pool.entries

BuildInv == PoolInv /\ LinksComplete /\ SourcesInv /\ FoundInv

(* removeEntryLocked loses no link between the entries that stay. *)
LEMMA RemoveComplete ==
    ASSUME NEW p, MapsAgree(p), Complete(p), NEW T
    PROVE  Complete(RemoveEntries(p, T))
<1>1. WithDescendants(p, T) \subseteq p.entries
  BY DescendantsClosed
<1> QED  BY <1>1 DEF RemoveEntries, Complete

(* No transaction is connected twice, and a block spends what is there. *)
LEMMA ConfirmedType ==
    ASSUME TypeOK
    PROVE  Confirmed \subseteq Tx
  BY DEF TypeOK, Confirmed

LEMMA ConnectedMore ==
    ASSUME TypeOK, NEW S \in SUBSET Tx, chain' = Append(chain, S)
    PROVE  Confirmed' = Confirmed \cup S
<1>1. chain \in Seq(SUBSET Tx) /\ Len(chain) \in Nat /\ DOMAIN chain = 1 .. Len(chain)
  BY DEF TypeOK
<1>2. /\ DOMAIN chain' = 1 .. Len(chain) + 1
      /\ \A i \in 1 .. Len(chain) : chain'[i] = chain[i]
      /\ chain'[Len(chain) + 1] = S
  BY <1>1
<1>3. ASSUME NEW t \in Confirmed' PROVE t \in Confirmed \cup S
  <2>1. PICK i \in 1 .. Len(chain) + 1 : t \in chain'[i]
    BY <1>2, <1>3 DEF Confirmed
  <2>2. i \in 1 .. Len(chain) \/ i = Len(chain) + 1
    BY <1>1
  <2> QED  BY <1>1, <1>2, <2>1, <2>2 DEF Confirmed
<1>4. ASSUME NEW t \in Confirmed \cup S PROVE t \in Confirmed'
  <2>1. Len(chain) + 1 \in DOMAIN chain' /\ \A i \in 1 .. Len(chain) : i \in DOMAIN chain'
    BY <1>1, <1>2
  <2> QED  BY <1>1, <1>2, <1>4, <2>1 DEF Confirmed
<1> QED  BY <1>3, <1>4

(* A call that changes neither pool nor chain, and is not reconciling. *)
LEMMA BuildCall ==
    ASSUME BuildInv, PoolInv', NEW h, Thread = {h}, NEW c, Goes(h, c), UNCHANGED <<chain, pool>>,
           ~In(h, "reconcile"), c.pc # "reconcile",
           c.pc \in {"conflict", "utxo", "parent"} =>
              \A i \in 1 .. c.at - 1 : Inputs[c.tx][i] \in Utxo \cup pool.entries \cup c.missing,
           c.pc = "commit" => Spends(c.tx) \subseteq Utxo \cup pool.entries
    PROVE  BuildInv'
<1>1. thread'[h] = c
  BY DEF Goes, BuildInv, PoolInv, TypeOK
<1>2. Confirmed' = Confirmed /\ Utxo' = Utxo /\ pool' = pool
  BY DEF Confirmed, Utxo
<1>3. Due(h) = {} /\ Due(h)' = {}
  BY <1>1 DEF Due, In
<1>4. SourcesInv'
  BY <1>2, <1>3 DEF BuildInv, SourcesInv
<1>5. FoundInv'
  BY <1>1, <1>2 DEF FoundInv, In, Adding
<1> QED  BY <1>2, <1>4, <1>5 DEF BuildInv, LinksComplete

(* Add returns, and nobody waits for the pool. *)
LEMMA BuildReturn ==
    ASSUME BuildInv, PoolInv', NEW h, Thread = {h}, Return(h), UNCHANGED <<chain, pool>>,
           ~In(h, "reconcile")
    PROVE  BuildInv'
<1>1. PICK c : Goes(h, c) /\ c.pc \in {"idle", "promote"}
  BY DEF Return, Idle, Promoting, Call
<1> QED  BY <1>1, BuildCall

(* The next input, the ones before being found or missing. *)
LEMMA BuildNext ==
    ASSUME BuildInv, PoolInv', NEW h, Thread = {h}, In(h, "utxo") \/ In(h, "parent"),
           NEW m \in SUBSET Spends(Adding(h)), thread[h].missing \subseteq m,
           Key(h) \in Utxo \cup pool.entries \cup m,
           NextInput(h, m), UNCHANGED <<chain, pool>>
    PROVE  BuildInv'
<1> DEFINE t == Adding(h)
<1> DEFINE n == thread[h].at
<1>1. t \in Tx /\ n \in DOMAIN Inputs[t] /\ n \in Nat
  BY DEF BuildInv, PoolInv, TypeOK, In, Adding, Calls
<1>2. DOMAIN Inputs[t] = 1 .. Len(Inputs[t]) /\ Len(Inputs[t]) \in Nat
  BY <1>1, SpendsType
<1>3. \A i \in 1 .. n - 1 : Inputs[t][i] \in Utxo \cup pool.entries \cup m
  BY DEF BuildInv, FoundInv
<1>4. \A i \in 1 .. n : Inputs[t][i] \in Utxo \cup pool.entries \cup m
  <2>1. \A i \in 1 .. n : i \in 1 .. n - 1 \/ i = n
    BY <1>1
  <2>2. Inputs[t][n] \in Utxo \cup pool.entries \cup m
    BY DEF Key
  <2> QED  BY <1>3, <2>1, <2>2
<1>5. CASE n < Len(Inputs[t])
  <2> DEFINE c == Call("conflict", t, n + 1, m, Stack(h))
  <2>1. Goes(h, c)
    BY <1>5 DEF NextInput
  <2>2. c.pc = "conflict" /\ c.tx = t /\ c.at = n + 1 /\ c.missing = m
    BY DEF Call
  <2>3. n + 1 - 1 = n
    BY <1>1
  <2>4. ~In(h, "reconcile")
    BY DEF In
  <2> HIDE DEF c, t, n
  <2>5. \A i \in 1 .. c.at - 1 : Inputs[c.tx][i] \in Utxo \cup pool.entries \cup c.missing
    <3>1. c.at - 1 = n
      BY <1>1, <2>2, <2>3
    <3> QED  BY <1>4, <2>2, <3>1
  <2> QED  BY <2>1, <2>2, <2>4, <2>5, BuildCall
<1>6. CASE ~(n < Len(Inputs[t]))
  <2> DEFINE c == Call(IF m = {} THEN "commit" ELSE "orphan", t, n, m, Stack(h))
  <2>1. Goes(h, c)
    BY <1>6 DEF NextInput
  <2>2. c.pc \in {"commit", "orphan"} /\ c.tx = t /\ (c.pc = "commit" => m = {})
    BY DEF Call
  <2>3. DOMAIN Inputs[t] = 1 .. n
    BY <1>1, <1>2, <1>6
  <2>4. m = {} => Spends(t) \subseteq Utxo \cup pool.entries
    BY <1>4, <2>3 DEF Spends
  <2>5. ~In(h, "reconcile")
    BY DEF In
  <2> HIDE DEF c, t, n
  <2> QED  BY <2>1, <2>2, <2>4, <2>5, BuildCall
<1> QED  BY <1>5, <1>6

(* Validation. *)
LEMMA BuildValidation ==
    ASSUME BuildInv, PoolInv', NEW h, Thread = {h},
           CheckConfirmed(h) \/ CheckConflict(h) \/ LookupUtxo(h) \/ LookupParent(h)
    PROVE  BuildInv'
<1>1. UNCHANGED <<chain, pool>> /\ ~In(h, "reconcile")
  BY DEF CheckConfirmed, CheckConflict, LookupUtxo, LookupParent, In
<1>2. CASE Return(h)
  BY <1>1, <1>2, BuildReturn
<1>3. CASE CheckConfirmed(h) /\ ~Return(h)
  <2> DEFINE c == Call("conflict", Adding(h), 1, {}, Stack(h))
  <2>1. Goes(h, c)
    BY <1>3 DEF CheckConfirmed
  <2>2. c.pc = "conflict" /\ c.at = 1
    BY DEF Call
  <2> HIDE DEF c
  <2>3. 1 .. c.at - 1 = {}
    BY <2>2
  <2> QED  BY <1>1, <2>1, <2>2, <2>3, BuildCall
<1>4. CASE \/ Goto(h, "utxo") /\ In(h, "conflict")
           \/ Goto(h, "parent") /\ In(h, "utxo")
  <2>1. PICK pc \in {"utxo", "parent"} : Goto(h, pc)
    BY <1>4
  <2> DEFINE c == Call(pc, Adding(h), thread[h].at, thread[h].missing, Stack(h))
  <2>2. Goes(h, c) /\ c.pc = pc /\ c.at = thread[h].at /\ c.tx = Adding(h) /\ c.missing = thread[h].missing
    BY <2>1 DEF Goto, Call
  <2> HIDE DEF c
  <2>3. \A i \in 1 .. c.at - 1 : Inputs[c.tx][i] \in Utxo \cup pool.entries \cup c.missing
    BY <1>4, <2>2 DEF BuildInv, FoundInv
  <2> QED  BY <1>1, <2>2, <2>3, BuildCall
<1>5. CASE LookupUtxo(h) /\ Key(h) \in Utxo /\ ~Return(h)
  <2>1. In(h, "utxo") /\ NextInput(h, thread[h].missing)
    BY <1>5 DEF LookupUtxo, VerifyInput
  <2>2. thread[h].missing \in SUBSET Spends(Adding(h))
    BY <2>1 DEF BuildInv, PoolInv, TypeOK, In
  <2> QED  BY <1>1, <1>5, <2>1, <2>2, BuildNext
<1>6. CASE LookupParent(h) /\ Key(h) \in pool.entries /\ ~Return(h)
  <2>1. In(h, "parent") /\ NextInput(h, thread[h].missing)
    BY <1>6 DEF LookupParent, VerifyInput
  <2>2. thread[h].missing \in SUBSET Spends(Adding(h))
    BY <2>1 DEF BuildInv, PoolInv, TypeOK, In
  <2> QED  BY <1>1, <1>6, <2>1, <2>2, BuildNext
<1>7. CASE LookupParent(h) /\ Key(h) \notin pool.entries
  <2>1. In(h, "parent") /\ NextInput(h, thread[h].missing \cup {Key(h)})
    BY <1>7 DEF LookupParent
  <2>2. /\ Adding(h) \in Tx /\ thread[h].missing \subseteq Spends(Adding(h))
        /\ thread[h].at \in DOMAIN Inputs[Adding(h)]
    BY <2>1 DEF BuildInv, PoolInv, TypeOK, In
  <2>3. thread[h].missing \cup {Key(h)} \in SUBSET Spends(Adding(h))
    BY <2>2, SpendsType DEF Key
  <2> QED  BY <1>1, <2>1, <2>3, BuildNext
<1>8. CASE CheckConflict(h)
  BY <1>2, <1>4, <1>8 DEF CheckConflict
<1>9. CASE LookupUtxo(h)
  BY <1>2, <1>4, <1>5, <1>9 DEF LookupUtxo
<1>10. CASE LookupParent(h)
  BY <1>2, <1>6, <1>7, <1>10
<1> QED  BY <1>2, <1>3, <1>8, <1>9, <1>10

(* The steps that only move the call. *)
LEMMA BuildOrphans ==
    ASSUME BuildInv, PoolInv', NEW h, Thread = {h},
           \/ \E t \in Tx : Submit(h, t)
           \/ AddOrphan(h) \/ RejectNonStandard(h) \/ ScanOrphans(h) \/ TryOrphan(h) \/ PromoteEnds(h)
    PROVE  BuildInv'
<1>1. UNCHANGED <<chain, pool>> /\ ~In(h, "reconcile")
  BY DEF Submit, AddOrphan, RejectNonStandard, ScanOrphans, TryOrphan, PromoteEnds, In
<1>2. \E c : Goes(h, c) /\ c.pc \in {"idle", "begin", "promote"}
  <2>1. Idle.pc = "idle" /\ \A st : Promoting(st).pc = "promote"
    BY DEF Idle, Promoting, Call
  <2>2. \A t, st : Call("begin", t, 0, {}, st).pc = "begin"
    BY DEF Call
  <2>3. CASE \E t \in Tx : Submit(h, t)
    BY <2>2, <2>3 DEF Submit
  <2>4. CASE AddOrphan(h) \/ RejectNonStandard(h)
    BY <2>1, <2>4 DEF AddOrphan, RejectNonStandard, Return
  <2>5. CASE ScanOrphans(h)
    BY <2>1, <2>5 DEF ScanOrphans
  <2>6. CASE TryOrphan(h)
    <3>1. PICK t, rest : Goes(h, IF t \in orphans THEN Call("begin", t, 0, {}, rest) ELSE Promoting(rest))
      BY <2>6 DEF TryOrphan
    <3> QED  BY <2>1, <2>2, <3>1
  <2>7. CASE PromoteEnds(h)
    BY <2>1, <2>7 DEF PromoteEnds
  <2> QED  BY <2>3, <2>4, <2>5, <2>6, <2>7
<1> QED  BY <1>1, <1>2, BuildCall

(* The insertion: what it spends is there, and nothing waits for it. *)
LEMMA BuildCommit ==
    ASSUME OneConnection, BuildInv, PoolInv', NEW h, Thread = {h}, Commit(h)
    PROVE  BuildInv'
<1> DEFINE t == Adding(h)
<1>1. /\ t \in Tx /\ Spends(t) \subseteq Utxo \cup pool.entries /\ chain' = chain /\ ~In(h, "reconcile")
      /\ pool.entries \subseteq Tx /\ Confirmed \subseteq Tx
  BY ConfirmedType DEF BuildInv, PoolInv, TypeOK, FoundInv, Commit, In
<1>2. /\ SpendsAny(Confirmed) \subseteq Coin \cup Confirmed
      /\ SpendsAny(pool.entries) \subseteq Utxo \cup pool.entries
      /\ pool.entries \cap Confirmed = {}
  BY <1>1 DEF BuildInv, SourcesInv, Due, SpendsAny
<1>3. Confirmed' = Confirmed /\ Utxo' = Utxo
  BY <1>1 DEF Confirmed, Utxo
<1>4. MakeRoom(pool, t) = {pool}
  <2>1. IsFiniteSet(pool.entries) /\ Cardinality(pool.entries) <= Cardinality(Tx)
    BY <1>1, FS_Subset DEF OneConnection
  <2>2. Cardinality(pool.entries) \in Nat /\ Cardinality(Tx) \in Nat
    BY <2>1, FS_CardinalityType DEF OneConnection
  <2> QED  BY <2>1, <2>2, PoolAssumption DEF MakeRoom, OneConnection
<1>5. t \notin Confirmed
  <2> SUFFICES ASSUME t \in Confirmed PROVE FALSE
    OBVIOUS
  <2>1. Inputs[t][1] \in Spends(t)
    BY <1>1, SpendsType
  <2>2. Spends(t) \subseteq SpendsAny(Confirmed)
    BY DEF SpendsAny
  <2>3. Inputs[t][1] \in pool.entries
    BY <1>1, <2>1, <2>2 DEF Utxo
  <2>4. Inputs[t][1] \in Confirmed
    BY <1>1, <1>2, <2>1, <2>2, <2>3, TxAssumption
  <2> QED  BY <1>2, <2>3, <2>4
<1>6. t \notin Utxo
  BY <1>1, <1>5, TxAssumption DEF Utxo
<1>7. CASE pool' = pool /\ Return(h)
  BY <1>1, <1>7, BuildReturn
<1>8. CASE /\ t \notin pool.entries /\ pool' = InsertEntry(pool, t)
           /\ Goes(h, Promoting(Append(Stack(h), Frame(t))))
  <2>1. /\ pool'.entries = pool.entries \cup {t}
        /\ pool'.parents = pool.parents \cup ((Spends(t) \cap pool.entries) \X {t})
    BY <1>8 DEF InsertEntry
  <2>2. SpendsAny(pool'.entries) = SpendsAny(pool.entries) \cup Spends(t)
    BY <2>1 DEF SpendsAny
  <2>3. \A u \in pool'.entries : t \notin Spends(u)
    BY <1>1, <1>2, <1>6, <1>8, <2>1 DEF SpendsAny
  <2>4. LinksComplete'
    <3> SUFFICES ASSUME NEW s \in pool'.entries, NEW u \in pool'.entries, s \in Spends(u)
                 PROVE  <<s, u>> \in pool'.parents
      BY DEF LinksComplete
    <3>1. s \in pool.entries
      BY <2>1, <2>3
    <3>2. CASE u = t
      BY <2>1, <3>1, <3>2
    <3>3. CASE u # t
      BY <2>1, <3>1, <3>3 DEF BuildInv, LinksComplete
    <3> QED  BY <3>2, <3>3
  <2>5. thread'[h] = Promoting(Append(Stack(h), Frame(t)))
    BY <1>8 DEF Goes, BuildInv, PoolInv, TypeOK
  <2>6. Due(h)' = {} /\ thread'[h].pc = "promote"
    BY <2>5 DEF Due, In, Promoting, Call
  <2>7. SourcesInv'
    BY <1>1, <1>2, <1>3, <1>5, <2>1, <2>2, <2>6 DEF SourcesInv
  <2>8. FoundInv'
    BY <2>6 DEF FoundInv, In
  <2> QED  BY <2>4, <2>7, <2>8 DEF BuildInv
<1> QED  BY <1>4, <1>7, <1>8 DEF Commit

(* A block is connected. *)
LEMMA BuildConnect ==
    ASSUME OneConnection, BuildInv, PoolInv', NEW h, Thread = {h}, ConnectBlock(h) \/ ConnectSeveral(h)
    PROVE  BuildInv'
<1>1. PICK S \in NewBlocks : chain' = Append(chain, S) /\ Goes(h, Reconciling(S))
  BY DEF ConnectBlock, ConnectSeveral, OneConnection
<1>2. S \in SUBSET Tx /\ SpendsAny(S) \subseteq Utxo \cup S
  BY DEF NewBlocks, Buildable
<1>3. Confirmed' = Confirmed \cup S /\ pool' = pool /\ ~In(h, "reconcile")
  BY <1>1, <1>2, ConnectedMore DEF BuildInv, PoolInv, ConnectBlock, ConnectSeveral, In
<1>4. SpendsAny(Confirmed') = SpendsAny(Confirmed) \cup SpendsAny(S)
  BY <1>3 DEF SpendsAny
<1>5. thread'[h] = Reconciling(S)
  BY <1>1 DEF Goes, BuildInv, PoolInv, TypeOK
<1>6. Due(h) = {} /\ Due(h)' = S /\ thread'[h].pc = "reconcile"
  BY <1>3, <1>5 DEF Due, In, Reconciling
<1>7. Utxo \subseteq Utxo' \cup SpendsAny(S)
  BY <1>3, <1>4 DEF Utxo
<1>8. /\ SpendsAny(Confirmed) \subseteq Coin \cup Confirmed
      /\ SpendsAny(pool.entries) \subseteq Utxo \cup pool.entries
      /\ pool.entries \cap Confirmed = {}
  BY <1>6 DEF BuildInv, SourcesInv, SpendsAny
<1>9. SpendsAny(Confirmed') \subseteq Coin \cup Confirmed'
  BY <1>2, <1>3, <1>4, <1>8 DEF Utxo
<1>10. SourcesInv'
  BY <1>3, <1>6, <1>7, <1>8, <1>9 DEF SourcesInv
<1>11. FoundInv'
  BY <1>6 DEF FoundInv, In
<1> QED  BY <1>3, <1>10, <1>11 DEF BuildInv, LinksComplete

(* The pool is reconciled: what lost an input to the block is gone. *)
LEMMA BuildReconcile ==
    ASSUME OneConnection, BuildInv, PoolInv', NEW h, Thread = {h}, RemoveForBlock(h)
    PROVE  BuildInv'
<1> DEFINE S == thread[h].block
<1> DEFINE r == RemoveEntries(pool, S)
<1> DEFINE conflicting == {t \in r.entries : Spends(t) \cap SpendsAny(S) # {}}
<1> DEFINE D == WithDescendants(pool, S)
<1> DEFINE E == WithDescendants(r, conflicting)
<1>1. MapsAgree(pool) /\ MapsTyped(pool) /\ Complete(pool)
  BY PoolMaps DEF BuildInv, PoolInv, LinksComplete, Complete
<1>2. MapsAgree(r) /\ MapsTyped(r) /\ Complete(r) /\ r.entries = pool.entries \ D
  BY <1>1, RemoveAgrees, RemoveComplete
<1>3. /\ S \cap pool.entries \subseteq D
      /\ \A e \in pool.childs : e[1] \in D => e[2] \in D
  BY <1>1, DescendantsClosed
<1> HIDE DEF r, D
<1>4. /\ conflicting \cap r.entries \subseteq E
      /\ \A e \in r.childs : e[1] \in E => e[2] \in E
  BY <1>2, DescendantsClosed
<1>5. pool' = RemoveEntries(r, conflicting) /\ Goes(h, Idle) /\ chain' = chain /\ In(h, "reconcile")
  BY DEF RemoveForBlock, r
<1>6. pool'.entries = r.entries \ E /\ Complete(pool')
  BY <1>2, <1>5, RemoveAgrees, RemoveComplete
<1> HIDE DEF E
<1>7. /\ SpendsAny(Confirmed) \subseteq Coin \cup Confirmed
      /\ SpendsAny(pool.entries) \subseteq Utxo \cup SpendsAny(S) \cup pool.entries
      /\ pool.entries \cap Confirmed \subseteq S
  BY <1>5 DEF BuildInv, SourcesInv, Due
<1>8. Confirmed' = Confirmed /\ Utxo' = Utxo
  BY <1>5 DEF Confirmed, Utxo
<1>9. ASSUME NEW u \in pool'.entries, NEW k \in Spends(u) PROVE k \in Utxo \cup pool'.entries
  <2>1. u \in r.entries /\ u \notin E /\ u \in pool.entries /\ u \notin D
    BY <1>2, <1>6, <1>9
  <2>2. k \notin SpendsAny(S)
    BY <1>4, <1>9, <2>1
  <2>3. k \in Utxo \cup pool.entries
    BY <1>7, <1>9, <2>1, <2>2 DEF SpendsAny
  <2>4. ASSUME k \in pool.entries PROVE k \in pool'.entries
    <3>1. <<k, u>> \in pool.childs
      BY <1>1, <1>9, <2>1, <2>4 DEF Complete, MapsAgree
    <3>2. k \in r.entries
      BY <1>2, <1>3, <2>1, <2>4, <3>1
    <3>3. <<k, u>> \in r.childs
      BY <1>2, <1>9, <2>1, <3>2 DEF Complete, MapsAgree
    <3> QED  BY <1>4, <1>6, <2>1, <3>2, <3>3
  <2> QED  BY <2>3, <2>4
<1>10. pool'.entries \cap Confirmed = {}
  BY <1>2, <1>3, <1>6, <1>7
<1>11. thread'[h] = Idle
  BY <1>5 DEF Goes, BuildInv, PoolInv, TypeOK
<1>12. thread'[h].pc = "idle" /\ Due(h)' = {}
  BY <1>11 DEF Idle, Call, Due, In
<1>13. SourcesInv'
  BY <1>7, <1>8, <1>9, <1>10, <1>12 DEF SourcesInv, SpendsAny
<1>14. FoundInv'
  BY <1>12 DEF FoundInv, In
<1> QED  BY <1>6, <1>13, <1>14 DEF BuildInv, LinksComplete, Complete

(* The empty pool, and every step. *)
LEMMA InitBuildInv == Init => BuildInv
<1> SUFFICES ASSUME Init PROVE BuildInv
  OBVIOUS
<1>1. PoolInv
  BY InitPoolInv
<1>2. pool.entries = {} /\ Confirmed = {} /\ \A h \in Thread : thread[h].pc = "idle"
  BY DEF Init, EmptyPool, Confirmed, Idle, Call
<1>3. SpendsAny({}) = {}
  BY DEF SpendsAny
<1>4. LinksComplete /\ SourcesInv /\ FoundInv
  BY <1>2, <1>3 DEF LinksComplete, SourcesInv, FoundInv, In
<1> QED  BY <1>1, <1>4 DEF BuildInv

LEMMA StepBuildInv == ASSUME OneConnection, BuildInv, [Next]_vars PROVE BuildInv'
<1>1. PoolInv'
  BY StepPoolInv DEF BuildInv
<1>2. PICK h : Thread = {h}
  BY DEF OneConnection
<1>3. CASE UNCHANGED vars
  <2>1. /\ pool' = pool /\ thread' = thread /\ Confirmed' = Confirmed /\ Utxo' = Utxo
        /\ \A g : Due(g)' = Due(g)
    BY <1>3 DEF vars, Confirmed, Utxo, Due, In
  <2>2. LinksComplete' /\ SourcesInv'
    BY <2>1 DEF BuildInv, LinksComplete, SourcesInv
  <2>3. FoundInv'
    BY <2>1 DEF BuildInv, FoundInv, In, Adding
  <2> QED  BY <1>1, <2>2, <2>3 DEF BuildInv
<1>4. CASE DisconnectTip
  BY <1>4 DEF DisconnectTip, OneConnection
<1>5. CASE ConnectBlock(h) \/ ConnectSeveral(h)
  BY <1>1, <1>2, <1>5, BuildConnect
<1>6. CASE (\E t \in Tx : Submit(h, t)) \/ Continue(h)
  BY <1>1, <1>2, <1>6, BuildValidation, BuildOrphans, BuildCommit, BuildReconcile DEF Continue
<1> QED  BY <1>2, <1>3, <1>4, <1>5, <1>6 DEF Next

(* With one connection, no eviction and no disconnecttip, the pool's       *)
(* entries can be mined together between calls, whatever was accepted,     *)
(* promoted and removed for blocks before, and none lacks a link to an     *)
(* entry it spends from.                                                   *)
THEOREM EntriesAlwaysBuildable == ASSUME OneConnection PROVE Spec => [](EntriesBuildable /\ LinksComplete)
<1>1. Init => BuildInv
  BY InitBuildInv
<1>2. BuildInv /\ [Next]_vars => BuildInv'
  BY StepBuildInv
<1>3. BuildInv => EntriesBuildable /\ LinksComplete
  <2> SUFFICES ASSUME BuildInv, Quiet PROVE Buildable(pool.entries, Utxo) /\ pool.entries \cap Confirmed = {}
    BY DEF BuildInv, EntriesBuildable
  <2>1. PICK h : Thread = {h}
    BY DEF OneConnection
  <2>2. Due(h) = {}
    BY <2>1 DEF Quiet, Due, In
  <2>3. /\ SpendsAny(pool.entries) \subseteq Utxo \cup pool.entries
        /\ pool.entries \cap Confirmed = {}
    BY <2>1, <2>2 DEF BuildInv, SourcesInv, SpendsAny
  <2> QED  BY <2>3 DEF BuildInv, PoolInv, PoolConsistent, Buildable
<1> QED  BY <1>1, <1>2, <1>3, PTL DEF Spec

-----------------------------------------------------------------------------
(* How deep an entry lies below others.  The depths are defined by          *)
(* recursion along the links; they exist because the links can be ranked.   *)

Deeper(p, f, t) == {0} \cup {1 + f[e[1]] : e \in {l \in p.parents : l[2] = t}}

Depths(p, f) == f = [t \in Tx |-> Largest(Deeper(p, f, t))]

Level == 0 .. MaxAncestorDepth

Ranks(p, r) ==
    /\ p.parents \subseteq Tx \X Tx /\ r \in [Tx -> Level]
    /\ \A e \in p.parents : r[e[1]] < r[e[2]]

(* Numbers up to n have a largest one. *)
LEMMA LargestIs ==
    ASSUME NEW n \in Nat, NEW S, S \subseteq 0 .. n, S # {}
    PROVE  Largest(S) \in S /\ \A m \in S : m <= Largest(S)
<1> DEFINE T == {n - m : m \in S}
<1>1. T \subseteq Nat /\ T # {}
  OBVIOUS
<1>2. PICK k \in T : \A m \in T : k <= m
  <2> HIDE DEF T
  <2> QED  BY <1>1, LeastNumber
<1>3. PICK g \in S : k = n - g
  OBVIOUS
<1>4. \A m \in S : m <= g
  <2> SUFFICES ASSUME NEW m \in S PROVE m <= g
    OBVIOUS
  <2>1. n - g <= n - m
    BY <1>2, <1>3
  <2> QED  BY <2>1
<1> QED  BY <1>3, <1>4 DEF Largest

(* What an entry's depth is the largest of, for depths that a rank bounds. *)
LEMMA DeeperRanked ==
    ASSUME NEW p, NEW r, Ranks(p, r), NEW f, NEW t \in Tx,
           \A u \in Tx : r[u] < r[t] => f[u] \in Level /\ f[u] <= r[u]
    PROVE  /\ Deeper(p, f, t) \subseteq 0 .. r[t]
           /\ Largest(Deeper(p, f, t)) \in Deeper(p, f, t)
           /\ Largest(Deeper(p, f, t)) \in Level /\ Largest(Deeper(p, f, t)) <= r[t]
           /\ \A e \in p.parents : e[2] = t => 1 + f[e[1]] <= Largest(Deeper(p, f, t))
<1> DEFINE S == Deeper(p, f, t)
<1>1. r[t] \in Nat /\ r[t] <= MaxAncestorDepth /\ \A u \in Tx : r[u] \in Nat
  BY PoolAssumption DEF Ranks, Level
<1>2. ASSUME NEW e \in p.parents, e[2] = t PROVE 1 + f[e[1]] \in 0 .. r[t] /\ 1 + f[e[1]] \in S
  <2>1. e[1] \in Tx /\ r[e[1]] < r[t]
    BY <1>2 DEF Ranks
  <2>2. f[e[1]] \in Nat /\ f[e[1]] <= r[e[1]]
    BY <2>1, PoolAssumption DEF Level
  <2>3. 1 + f[e[1]] \in 0 .. r[t]
    BY <1>1, <2>1, <2>2
  <2> QED  BY <1>2, <2>3 DEF Deeper
<1>3. S \subseteq 0 .. r[t] /\ S # {}
  <2>1. \A x \in S : x = 0 \/ \E e \in p.parents : e[2] = t /\ x = 1 + f[e[1]]
    BY DEF Deeper
  <2>2. 0 \in S
    BY DEF Deeper
  <2> HIDE DEF S
  <2> QED  BY <1>1, <1>2, <2>1, <2>2
<1> HIDE DEF S
<1>4. Largest(S) \in S /\ \A m \in S : m <= Largest(S)
  BY ONLY <1>1, <1>3, LargestIs
<1>5. Largest(S) \in Level /\ Largest(S) <= r[t]
  <2> DEFINE x == Largest(S)
  <2>1. x \in 0 .. r[t]
    BY <1>3, <1>4
  <2> HIDE DEF x
  <2>2. x \in 0 .. MaxAncestorDepth /\ x <= r[t]
    BY <1>1, <2>1, PoolAssumption
  <2> QED  BY <2>2 DEF x, Level
<1> QED  BY <1>2, <1>3, <1>4, <1>5 DEF S

(* Only the depths of the ranks below matter. *)
LEMMA DeeperSame ==
    ASSUME NEW p, NEW r, Ranks(p, r), NEW f, NEW g, NEW t \in Tx,
           \A u \in Tx : r[u] < r[t] => f[u] = g[u]
    PROVE  Deeper(p, f, t) = Deeper(p, g, t)
<1>1. \A e \in p.parents : e[2] = t => f[e[1]] = g[e[1]]
  BY DEF Ranks
<1>2. {1 + f[e[1]] : e \in {l \in p.parents : l[2] = t}} = {1 + g[e[1]] : e \in {l \in p.parents : l[2] = t}}
  BY <1>1
<1> QED  BY <1>2 DEF Deeper

(* Links that can be ranked give depths, found rank by rank. *)
LEMMA DepthsExist ==
    ASSUME NEW p, NEW r, Ranks(p, r)
    PROVE  \E f : Depths(p, f)
<1> DEFINE Found(f, n) == /\ f \in [Tx -> Level]
                          /\ \A t \in Tx : f[t] <= r[t] /\ (r[t] < n => f[t] = Largest(Deeper(p, f, t)))
           Bad == {n \in Nat : ~\E f : Found(f, n)}
<1>1. \A t \in Tx : r[t] \in Nat /\ r[t] <= MaxAncestorDepth
  BY PoolAssumption DEF Ranks, Level
<1>2. Bad = {}
  <2> SUFFICES ASSUME Bad # {} PROVE FALSE
    OBVIOUS
  <2>1. PICK n \in Bad : \A m \in Bad : n <= m
    <3>1. Bad \subseteq Nat
      OBVIOUS
    <3> HIDE DEF Bad
    <3> QED  BY <3>1, LeastNumber
  <2>2. n \in Nat /\ ~\E f : Found(f, n)
    OBVIOUS
  <2>3. CASE n = 0
    <3> DEFINE f == [t \in Tx |-> 0]
    <3>1. Found(f, n)
      BY <1>1, <2>3, PoolAssumption DEF Level
    <3> QED  BY <2>2, <3>1
  <2>4. CASE n # 0
    <3> DEFINE m == n - 1
    <3>1. m \in Nat /\ ~(n <= m) /\ \A k \in Nat : k < n <=> k < m \/ k = m
      BY <2>2, <2>4
    <3>2. PICK f : Found(f, m)
      <4>1. m \notin Bad
        BY <2>1, <3>1
      <4> QED  BY <3>1, <4>1
    <3> HIDE DEF m
    <3> DEFINE g == [t \in Tx |-> IF r[t] = m THEN Largest(Deeper(p, f, t)) ELSE f[t]]
    <3>3. ASSUME NEW t \in Tx PROVE Largest(Deeper(p, f, t)) \in Level /\ Largest(Deeper(p, f, t)) <= r[t]
      <4>1. \A u \in Tx : r[u] < r[t] => f[u] \in Level /\ f[u] <= r[u]
        BY <3>2
      <4> QED  BY ONLY <4>1, DeeperRanked, Ranks(p, r), t \in Tx
    <3>4. g \in [Tx -> Level] /\ \A t \in Tx : g[t] <= r[t]
      BY <3>2, <3>3
    <3>5. ASSUME NEW t \in Tx, r[t] < n PROVE g[t] = Largest(Deeper(p, g, t))
      <4>1. r[t] < m \/ r[t] = m
        BY <1>1, <3>1, <3>5
      <4>2. \A u \in Tx : r[u] < r[t] => f[u] = g[u]
        BY <1>1, <3>1, <4>1
      <4>3. g[t] = Largest(Deeper(p, f, t))
        BY <3>2, <4>1
      <4> HIDE DEF g
      <4>4. Deeper(p, f, t) = Deeper(p, g, t)
        BY ONLY <4>2, DeeperSame, Ranks(p, r), t \in Tx
      <4> QED  BY <4>3, <4>4
    <3> HIDE DEF g
    <3>6. Found(g, n)
      BY <3>4, <3>5
    <3> QED  BY <2>2, <3>6
  <2> QED  BY <2>3, <2>4
<1>3. PICK f : Found(f, MaxAncestorDepth + 1)
  <2>1. MaxAncestorDepth + 1 \in Nat
    BY PoolAssumption
  <2>2. MaxAncestorDepth + 1 \notin Bad
    BY <1>2
  <2> HIDE DEF Found
  <2> QED  BY <2>1, <2>2
<1>4. \A t \in Tx : f[t] = Largest(Deeper(p, f, t))
  BY <1>1, <1>3, PoolAssumption
<1> QED  BY <1>3, <1>4 DEF Depths

(* The depths that are found rank the links too. *)
LEMMA DepthRanks ==
    ASSUME NEW p, NEW r, Ranks(p, r)
    PROVE  Ranks(p, AncestorDepth(p))
<1> DEFINE f == AncestorDepth(p)
<1>1. Depths(p, f)
  <2>1. f = CHOOSE g : Depths(p, g)
    BY DEF AncestorDepth, Depths, Deeper
  <2> HIDE DEF f
  <2> QED  BY <2>1, DepthsExist
<1> HIDE DEF f
<1>2. \A t \in Tx : r[t] \in Nat /\ r[t] <= MaxAncestorDepth
  BY PoolAssumption DEF Ranks, Level
<1> DEFINE OK(t) == f[t] \in Level /\ f[t] <= r[t] /\ \A e \in p.parents : e[2] = t => f[e[1]] < f[t]
           Bad == {n \in Nat : \E t \in Tx : r[t] = n /\ ~OK(t)}
<1>3. Bad = {}
  <2> SUFFICES ASSUME Bad # {} PROVE FALSE
    OBVIOUS
  <2>1. PICK n \in Bad : \A m \in Bad : n <= m
    <3>1. Bad \subseteq Nat
      OBVIOUS
    <3> HIDE DEF Bad
    <3> QED  BY <3>1, LeastNumber
  <2>2. PICK t \in Tx : r[t] = n /\ ~OK(t)
    OBVIOUS
  <2>3. \A u \in Tx : r[u] < r[t] => f[u] \in Level /\ f[u] <= r[u]
    <3> SUFFICES ASSUME NEW u \in Tx, r[u] < r[t] PROVE OK(u)
      OBVIOUS
    <3>1. ~(n <= r[u]) /\ r[u] \in Nat
      BY <1>2, <2>2
    <3>2. r[u] \notin Bad
      BY <2>1, <3>1
    <3> QED  BY <3>1, <3>2
  <2>4. /\ Largest(Deeper(p, f, t)) \in Level /\ Largest(Deeper(p, f, t)) <= r[t]
        /\ \A e \in p.parents : e[2] = t => 1 + f[e[1]] <= Largest(Deeper(p, f, t))
    BY ONLY <2>3, DeeperRanked, Ranks(p, r), t \in Tx
  <2>5. f[t] = Largest(Deeper(p, f, t))
    BY <1>1 DEF Depths
  <2>6. ASSUME NEW e \in p.parents, e[2] = t PROVE f[e[1]] < f[t]
    <3>1. e[1] \in Tx /\ r[e[1]] < r[t]
      BY <2>6 DEF Ranks
    <3>2. f[e[1]] \in Nat /\ f[t] \in Nat
      BY <2>3, <2>4, <2>5, <3>1, PoolAssumption DEF Level
    <3>3. 1 + f[e[1]] <= f[t]
      BY <2>4, <2>5, <2>6
    <3> QED  BY <3>2, <3>3
  <2> QED  BY <2>2, <2>4, <2>5, <2>6
<1>4. \A t \in Tx : OK(t)
  BY <1>2, <1>3
<1>5. f \in [Tx -> Level]
  BY <1>1, <1>4 DEF Depths
<1>6. \A e \in p.parents : f[e[1]] < f[e[2]]
  BY <1>4 DEF Ranks
<1> QED  BY <1>5, <1>6 DEF Ranks, f

LEMMA FewerLinks ==
    ASSUME NEW p, NEW r, Ranks(p, r), NEW q, q.parents \subseteq p.parents
    PROVE  Ranks(q, r)
  BY DEF Ranks

LEMMA RoomLinks ==
    ASSUME NEW p, NEW t, NEW q \in MakeRoom(p, t)
    PROVE  q.parents \subseteq p.parents
<1>1. q = p \/ \E T : q = RemoveEntries(p, T)
  BY DEF MakeRoom
<1>2. \A T : RemoveEntries(p, T).parents \subseteq p.parents
  BY DEF RemoveEntries
<1> QED  BY <1>1, <1>2

(* A new entry is the deepest of its chain, and the limit was looked at. *)
LEMMA InsertRanked ==
    ASSUME NEW p, MapsAgree(p), MapsTyped(p), NEW r, Ranks(p, r),
           NEW t \in Tx, t \notin p.entries, DepthAllowed(p, t)
    PROVE  \E g : Ranks(InsertEntry(p, t), g)
<1> DEFINE d == AncestorDepth(p)
           g == [d EXCEPT ![t] = MaxAncestorDepth]
           q == InsertEntry(p, t)
<1>1. Ranks(p, d)
  BY DepthRanks
<1>2. \A u \in Spends(t) \cap p.entries : 1 + d[u] <= MaxAncestorDepth
  BY DEF DepthAllowed
<1> HIDE DEF d
<1>3. d \in [Tx -> Level] /\ \A e \in p.parents : d[e[1]] < d[e[2]]
  BY <1>1 DEF Ranks
<1>4. q.parents = p.parents \cup ((Spends(t) \cap p.entries) \X {t})
  BY DEF InsertEntry
<1> HIDE DEF q
<1>5. p.entries \subseteq Tx /\ p.parents \subseteq Tx \X Tx
  BY DEF MapsTyped
<1>6. g \in [Tx -> Level]
  BY <1>3, PoolAssumption DEF Level
<1>7. ASSUME NEW e \in q.parents PROVE g[e[1]] < g[e[2]]
  <2>1. ASSUME e \in p.parents PROVE g[e[1]] < g[e[2]]
    <3>1. e[1] \in p.entries /\ e[2] \in p.entries
      BY <2>1 DEF MapsAgree
    <3>2. g[e[1]] = d[e[1]] /\ g[e[2]] = d[e[2]]
      BY <1>3, <1>5, <3>1
    <3> QED  BY <1>3, <2>1, <3>2
  <2>2. ASSUME e \in (Spends(t) \cap p.entries) \X {t} PROVE g[e[1]] < g[e[2]]
    <3>1. e[1] \in Spends(t) \cap p.entries /\ e[2] = t
      BY <2>2
    <3>2. g[e[1]] = d[e[1]] /\ g[t] = MaxAncestorDepth /\ d[e[1]] \in Level
      BY <1>3, <1>5, <3>1
    <3>3. 1 + d[e[1]] <= MaxAncestorDepth
      BY <1>2, <3>1
    <3>4. d[e[1]] < MaxAncestorDepth
      BY <3>2, <3>3, PoolAssumption DEF Level
    <3> QED  BY <3>1, <3>2, <3>4
  <2> QED  BY <1>4, <1>7, <2>1, <2>2
<1>8. q.parents \subseteq Tx \X Tx
  BY <1>4, <1>5
<1> HIDE DEF g
<1>9. Ranks(q, g)
  BY <1>6, <1>7, <1>8 DEF Ranks
<1> QED  BY <1>9 DEF q

DepthInv == PoolInv /\ \E r : Ranks(pool, r)

LEMMA InitDepthInv == Init => DepthInv
<1> SUFFICES ASSUME Init PROVE DepthInv
  OBVIOUS
<1> DEFINE r == [t \in Tx |-> 0]
<1>1. r \in [Tx -> Level]
  BY PoolAssumption DEF Level
<1>2. pool.parents = {}
  BY DEF Init, EmptyPool
<1>3. Ranks(pool, r)
  BY <1>1, <1>2 DEF Ranks
<1> QED  BY <1>3, InitPoolInv DEF DepthInv

LEMMA DepthCommit == ASSUME DepthInv, NEW h \in Thread, Commit(h) PROVE \E r : Ranks(pool', r)
<1> DEFINE t == Adding(h)
<1>1. t \in Tx /\ MapsAgree(pool) /\ MapsTyped(pool)
      /\ IsFiniteSet(pool.entries) /\ Cardinality(pool.entries) <= MaxTx
  BY PoolMaps DEF DepthInv, PoolInv, TypeOK, PoolBounded, Commit, In
<1>2. PICK r : Ranks(pool, r)
  BY DEF DepthInv
<1> HIDE DEF t
<1>3. ASSUME NEW p \in MakeRoom(pool, t)
      PROVE  /\ Ranks(p, r)
             /\ t \notin p.entries /\ DepthAllowed(p, t) => \E g : Ranks(InsertEntry(p, t), g)
  <2>1. MapsAgree(p) /\ MapsTyped(p)
    BY <1>1, <1>3, RoomAgrees
  <2>2. p.parents \subseteq pool.parents
    BY <1>3, RoomLinks
  <2>3. Ranks(p, r)
    BY ONLY <1>2, <2>2, FewerLinks
  <2>4. ASSUME t \notin p.entries, DepthAllowed(p, t) PROVE \E g : Ranks(InsertEntry(p, t), g)
    BY ONLY <1>1, <2>1, <2>3, <2>4, InsertRanked
  <2> QED  BY <2>3, <2>4
<1>4. \/ pool' = pool
      \/ \E p \in MakeRoom(pool, t) :
           \/ pool' = p
           \/ t \notin p.entries /\ DepthAllowed(p, t) /\ pool' = InsertEntry(p, t)
  BY DEF Commit, t
<1> QED  BY <1>2, <1>3, <1>4

LEMMA StepDepthInv == ASSUME DepthInv, [Next]_vars PROVE DepthInv'
<1>1. PoolInv'
  BY StepPoolInv DEF DepthInv
<1>2. PICK r : Ranks(pool, r)
  BY DEF DepthInv
<1>3. ASSUME NEW h \in Thread, Commit(h) PROVE \E g : Ranks(pool', g)
  BY <1>3, DepthCommit
<1>4. ASSUME NEW h \in Thread, RemoveForBlock(h) PROVE Ranks(pool', r)
  <2>1. pool'.parents \subseteq pool.parents
    BY <1>4 DEF RemoveForBlock, RemoveEntries
  <2> QED  BY ONLY <1>2, <2>1, FewerLinks
<1>5. \/ UNCHANGED pool
      \/ \E h \in Thread : Commit(h) \/ RemoveForBlock(h)
  BY DEF Next, vars, Submit, ConnectBlock, ConnectSeveral, Continue, DisconnectTip, CheckConfirmed,
         CheckConflict, LookupUtxo, LookupParent, AddOrphan, RejectNonStandard, ScanOrphans,
         TryOrphan, PromoteEnds
<1>6. \E g : Ranks(pool', g)
  BY <1>2, <1>3, <1>4, <1>5
<1> QED  BY <1>1, <1>6 DEF DepthInv

(* No chain of entries grows beyond the limit that Add looks at, whatever   *)
(* is evicted, confirmed and disconnected, and with any number of threads:  *)
(* the depth is read and the entry linked under one acquisition of the lock. *)
THEOREM DepthAlwaysBounded == Spec => []DepthBounded
<1>1. DepthInv => DepthBounded
  <2> SUFFICES ASSUME DepthInv, NEW t \in pool.entries PROVE AncestorDepth(pool)[t] <= MaxAncestorDepth
    BY DEF DepthBounded
  <2>1. PICK r : Ranks(pool, r)
    BY DEF DepthInv
  <2>2. Ranks(pool, AncestorDepth(pool))
    BY <2>1, DepthRanks
  <2>3. t \in Tx
    BY DEF DepthInv, PoolInv, TypeOK
  <2>4. AncestorDepth(pool)[t] \in Level
    BY <2>2, <2>3 DEF Ranks
  <2> QED  BY <2>4, PoolAssumption DEF Level
<1>2. DepthInv /\ [Next]_vars => DepthInv'
  BY StepDepthInv
<1> QED  BY <1>1, <1>2, InitDepthInv, PTL DEF Spec

(* With one connection, no eviction and no disconnecttip, an entry can be   *)
(* mined with the others, is linked to those it spends from and lies no     *)
(* deeper below them than the limit.                                        *)
THEOREM EntriesAlwaysSound == ASSUME OneConnection PROVE Spec => []EntriesSound
<1>1. EntriesBuildable /\ LinksComplete /\ DepthBounded => EntriesSound
  BY DEF EntriesSound
<1> QED  BY <1>1, EntriesAlwaysBuildable, DepthAlwaysBounded, PTL

-----------------------------------------------------------------------------
(* Before the first block, promoteOrphans finds every orphan that Add      *)
(* would accept.                                                           *)

InAdd(h) == thread[h].pc \notin {"idle", "promote", "reconcile"}

(* A running promoteOrphans will still try t. *)
Wanted(h, t) ==
    \E i \in DOMAIN Stack(h) :
        LET f == Stack(h)[i]
        IN  \/ t \in f.candidates
            \/ t \notin f.seen /\ \E j \in DOMAIN f.queue : <<f.queue[j], t>> \in orphRef

Available == Utxo \cup pool.entries

(* Add of t would be refused, runs, or will be run. *)
Kept(h, t) ==
    \/ Conflicts(pool, t)
    \/ ~(Spends(t) \subseteq Available)
    \/ Wanted(h, t)
    \/ InAdd(h) /\ Adding(h) = t

(* What a validation holds to be missing is missing. *)
MissingInv ==
    \A h \in Thread :
        /\ InAdd(h) => thread[h].missing \cap Available = {}
        /\ In(h, "parent") => Key(h) \notin Utxo
        /\ In(h, "orphan") => Spends(Adding(h)) \subseteq Available \cup thread[h].missing

KeptInv ==
    chain = <<>> =>
        /\ MissingInv
        /\ \A t \in orphans : \A k \in Spends(t) : k \in Available \/ <<k, t>> \in orphRef
        /\ \A h \in Thread :
              /\ In(h, "idle") => Stack(h) = <<>>
              /\ ~In(h, "reconcile")
              /\ \A t \in orphans \cap Signed \cap Standard : Kept(h, t)

ForgetInv == BuildInv /\ KeptInv

LEMMA NothingConfirmed == chain = <<>> => Confirmed = {} /\ Utxo = Coin
  BY DEF Confirmed, Utxo, SpendsAny

(* A step of the call that leaves pool, chain and orphans, goes on with the *)
(* same transaction, and keeps the stack.                                   *)
LEMMA KeepGoing ==
    ASSUME ForgetInv, NEW h, Thread = {h}, NEW c, Goes(h, c), InAdd(h),
           UNCHANGED <<chain, pool, orphans, orphRef>>,
           c.pc \notin {"idle", "promote", "reconcile"}, c.tx = Adding(h), c.stack = Stack(h),
           chain = <<>> =>
              /\ c.missing \cap Available = {}
              /\ c.pc = "parent" => Inputs[c.tx][c.at] \notin Utxo
              /\ c.pc = "orphan" => Spends(c.tx) \subseteq Available \cup c.missing
    PROVE  KeptInv'
<1> SUFFICES ASSUME chain = <<>> PROVE KeptInv'
  BY DEF KeptInv
<1>1. thread'[h] = c
  BY DEF Goes, ForgetInv, BuildInv, PoolInv, TypeOK
<1>2. Utxo' = Utxo /\ Available' = Available /\ \A t : Conflicts(pool, t)' <=> Conflicts(pool, t)
  BY DEF Available, Utxo, Confirmed, Conflicts
<1>3. Stack(h)' = Stack(h) /\ Adding(h)' = Adding(h) /\ InAdd(h)'
  BY <1>1 DEF Stack, Adding, InAdd
<1>4. \A t : Wanted(h, t)' <=> Wanted(h, t)
  BY <1>3 DEF Wanted
<1>5. \A t \in orphans \cap Signed \cap Standard : Kept(h, t)'
  BY <1>2, <1>3, <1>4 DEF Kept, ForgetInv, KeptInv
<1>6. MissingInv'
  BY <1>1, <1>2 DEF MissingInv, InAdd, In, Key, Adding
<1>7. ~In(h, "idle")' /\ ~In(h, "reconcile")'
  BY <1>1 DEF In
<1> QED  BY <1>2, <1>5, <1>6, <1>7 DEF ForgetInv, KeptInv

(* Add returns, and would do the same again. *)
LEMMA KeepReturn ==
    ASSUME ForgetInv, NEW h, Thread = {h}, Return(h), InAdd(h),
           UNCHANGED <<chain, pool, orphans, orphRef>>,
           chain = <<>> /\ Adding(h) \in orphans \cap Signed \cap Standard =>
              Conflicts(pool, Adding(h)) \/ ~(Spends(Adding(h)) \subseteq Available)
    PROVE  KeptInv'
<1> SUFFICES ASSUME chain = <<>> PROVE KeptInv'
  BY DEF KeptInv
<1>1. PICK c : Goes(h, c) /\ c.pc \in {"idle", "promote"} /\ c.stack = Stack(h) /\ (c.pc = "idle" => c.stack = <<>>)
  BY DEF Return, Idle, Promoting, Call
<1>2. thread'[h] = c
  BY <1>1 DEF Goes, ForgetInv, BuildInv, PoolInv, TypeOK
<1>3. Utxo' = Utxo /\ Available' = Available /\ \A t : Conflicts(pool, t)' <=> Conflicts(pool, t)
  BY DEF Available, Utxo, Confirmed, Conflicts
<1>4. Stack(h)' = Stack(h) /\ ~InAdd(h)' /\ (In(h, "idle")' => Stack(h)' = <<>>) /\ ~In(h, "reconcile")'
  BY <1>1, <1>2 DEF Stack, InAdd, In
<1>5. \A t : Wanted(h, t)' <=> Wanted(h, t)
  BY <1>4 DEF Wanted
<1>6. \A t \in orphans \cap Signed \cap Standard : Kept(h, t)'
  BY <1>3, <1>4, <1>5 DEF Kept, ForgetInv, KeptInv
<1>7. MissingInv'
  BY <1>4 DEF MissingInv, InAdd, In
<1> QED  BY <1>3, <1>4, <1>6, <1>7 DEF ForgetInv, KeptInv

LEMMA KeepSubmit ==
    ASSUME ForgetInv, NEW h, Thread = {h}, NEW t \in Tx, Submit(h, t)
    PROVE  KeptInv'
<1> SUFFICES ASSUME chain = <<>> PROVE KeptInv'
  BY DEF KeptInv, Submit
<1> DEFINE c == Call("begin", t, 0, {}, <<>>)
<1>1. thread'[h] = c /\ UNCHANGED <<chain, pool, orphans, orphRef>> /\ In(h, "idle")
  BY DEF Submit, Goes, ForgetInv, BuildInv, PoolInv, TypeOK
<1>2. c.pc = "begin" /\ c.missing = {} /\ c.stack = <<>>
  BY DEF Call
<1>3. Utxo' = Utxo /\ Available' = Available /\ \A u : Conflicts(pool, u)' <=> Conflicts(pool, u)
  BY <1>1 DEF Available, Utxo, Confirmed, Conflicts
<1> HIDE DEF c
<1>4. Stack(h) = <<>> /\ ~InAdd(h) /\ \A u : ~Wanted(h, u)
  <2>1. Stack(h) = <<>>
    BY <1>1 DEF ForgetInv, KeptInv
  <2>2. DOMAIN Stack(h) = {}
    BY <2>1
  <2> QED  BY <1>1, <2>1, <2>2 DEF InAdd, In, Wanted
<1>5. \A u \in orphans \cap Signed \cap Standard : Kept(h, u)'
  BY <1>1, <1>3, <1>4 DEF Kept, ForgetInv, KeptInv
<1>6. MissingInv' /\ ~In(h, "idle")' /\ ~In(h, "reconcile")'
  BY <1>1, <1>2 DEF MissingInv, In, InAdd
<1> QED  BY <1>1, <1>3, <1>5, <1>6 DEF ForgetInv, KeptInv

LEMMA KeepNext ==
    ASSUME ForgetInv, NEW h, Thread = {h}, In(h, "utxo") \/ In(h, "parent"),
           NEW m \in SUBSET Spends(Adding(h)), thread[h].missing \subseteq m,
           chain = <<>> => m \cap Available = {},
           Key(h) \in Available \cup m,
           NextInput(h, m), UNCHANGED <<chain, pool, orphans, orphRef>>
    PROVE  KeptInv'
<1> DEFINE t == Adding(h)
<1> DEFINE n == thread[h].at
<1>0. InAdd(h)
  BY DEF InAdd, In
<1>1. t \in Tx /\ n \in DOMAIN Inputs[t] /\ n \in Nat
  BY DEF ForgetInv, BuildInv, PoolInv, TypeOK, In, Adding, Calls
<1>2. DOMAIN Inputs[t] = 1 .. Len(Inputs[t]) /\ Len(Inputs[t]) \in Nat
  BY <1>1, SpendsType
<1>3. \A i \in 1 .. n - 1 : Inputs[t][i] \in Available \cup m
  BY DEF ForgetInv, BuildInv, FoundInv, Available
<1>4. \A i \in 1 .. n : Inputs[t][i] \in Available \cup m
  <2>1. \A i \in 1 .. n : i \in 1 .. n - 1 \/ i = n
    BY <1>1
  <2>2. Inputs[t][n] \in Available \cup m
    BY DEF Key
  <2> QED  BY <1>3, <2>1, <2>2
<1>5. CASE n < Len(Inputs[t])
  <2> DEFINE c == Call("conflict", t, n + 1, m, Stack(h))
  <2>1. Goes(h, c)
    BY <1>5 DEF NextInput
  <2>2. c.pc = "conflict" /\ c.tx = t /\ c.missing = m /\ c.stack = Stack(h)
    BY DEF Call
  <2> HIDE DEF c
  <2> QED  BY <1>0, <2>1, <2>2, KeepGoing
<1>6. CASE ~(n < Len(Inputs[t]))
  <2> DEFINE c == Call(IF m = {} THEN "commit" ELSE "orphan", t, n, m, Stack(h))
  <2>1. Goes(h, c)
    BY <1>6 DEF NextInput
  <2>2. c.pc \in {"commit", "orphan"} /\ c.tx = t /\ c.missing = m /\ c.stack = Stack(h)
    BY DEF Call
  <2>3. DOMAIN Inputs[t] = 1 .. n
    BY <1>1, <1>2, <1>6
  <2>4. Spends(t) \subseteq Available \cup m
    BY <1>4, <2>3 DEF Spends
  <2> HIDE DEF c
  <2> QED  BY <1>0, <2>1, <2>2, <2>4, KeepGoing
<1> QED  BY <1>5, <1>6

LEMMA KeepValidation ==
    ASSUME ForgetInv, NEW h, Thread = {h},
           CheckConfirmed(h) \/ CheckConflict(h) \/ LookupUtxo(h) \/ LookupParent(h)
    PROVE  KeptInv'
<1>0. UNCHANGED <<chain, pool, orphans, orphRef>> /\ InAdd(h)
  BY DEF CheckConfirmed, CheckConflict, LookupUtxo, LookupParent, In, InAdd
<1>1. /\ Adding(h) \in Tx /\ thread[h].missing \subseteq Spends(Adding(h))
      /\ ~In(h, "begin") => thread[h].at \in DOMAIN Inputs[Adding(h)] /\ Key(h) \in Spends(Adding(h))
  <2>1. /\ Adding(h) \in Tx /\ thread[h].missing \subseteq Spends(Adding(h))
        /\ ~In(h, "begin") => thread[h].at \in DOMAIN Inputs[Adding(h)]
    BY DEF ForgetInv, BuildInv, PoolInv, TypeOK, In, CheckConfirmed, CheckConflict, LookupUtxo, LookupParent
  <2> QED  BY <2>1, SpendsType DEF Key
<1>2. chain = <<>> => /\ Utxo = Coin /\ Confirmed = {} /\ thread[h].missing \cap Available = {}
                      /\ In(h, "parent") => Key(h) \notin Utxo
  BY <1>0, NothingConfirmed DEF ForgetInv, KeptInv, MissingInv
<1>3. CASE CheckConfirmed(h)
  <2>1. CASE Adding(h) \in Confirmed /\ Return(h)
    BY <1>0, <1>2, <2>1, KeepReturn
  <2>2. CASE Goes(h, Call("conflict", Adding(h), 1, {}, Stack(h)))
    <3> DEFINE c == Call("conflict", Adding(h), 1, {}, Stack(h))
    <3>1. c.pc = "conflict" /\ c.tx = Adding(h) /\ c.missing = {} /\ c.stack = Stack(h)
      BY DEF Call
    <3> HIDE DEF c
    <3> QED  BY <1>0, <2>2, <3>1, KeepGoing DEF c
  <2> QED  BY <1>3, <2>1, <2>2 DEF CheckConfirmed
<1>4. ASSUME NEW pc \in {"utxo", "parent"}, Goto(h, pc), pc = "parent" => Key(h) \notin Utxo
      PROVE  KeptInv'
  <2> DEFINE c == Call(pc, Adding(h), thread[h].at, thread[h].missing, Stack(h))
  <2>1. /\ Goes(h, c) /\ c.pc = pc /\ c.tx = Adding(h) /\ c.at = thread[h].at
        /\ c.missing = thread[h].missing /\ c.stack = Stack(h)
    BY <1>4 DEF Goto, Call
  <2> HIDE DEF c
  <2>2. pc = "parent" => Inputs[c.tx][c.at] \notin Utxo
    BY <1>4, <2>1 DEF Key
  <2> QED  BY <1>0, <1>2, <2>1, <2>2, KeepGoing
<1>5. ASSUME VerifyInput(h), Key(h) \in Available, In(h, "utxo") \/ In(h, "parent") PROVE KeptInv'
  <2>1. CASE Adding(h) \notin Signed /\ Return(h)
    BY <1>0, <2>1, KeepReturn
  <2>2. CASE NextInput(h, thread[h].missing)
    <3>1. thread[h].missing \in SUBSET Spends(Adding(h))
      BY <1>1
    <3> QED  BY <1>0, <1>2, <1>5, <2>2, <3>1, KeepNext
  <2> QED  BY <1>5, <2>1, <2>2 DEF VerifyInput
<1>6. CASE CheckConflict(h)
  <2>1. CASE Key(h) \in DOMAIN pool.spent /\ Return(h)
    <3>1. Conflicts(pool, Adding(h))
      BY <1>1, <1>6, <2>1 DEF Conflicts, CheckConflict, In
    <3> QED  BY <1>0, <2>1, <3>1, KeepReturn
  <2> QED  BY <1>4, <1>6, <2>1 DEF CheckConflict
<1>7. CASE LookupUtxo(h)
  BY <1>4, <1>5, <1>7 DEF LookupUtxo, Available
<1>8. CASE LookupParent(h)
  <2>1. CASE Key(h) \in pool.entries
    BY <1>5, <1>8, <2>1 DEF LookupParent, Available
  <2>2. CASE Key(h) \notin pool.entries
    <3>1. In(h, "parent") /\ NextInput(h, thread[h].missing \cup {Key(h)})
      BY <1>8, <2>2 DEF LookupParent
    <3>2. Key(h) \in Spends(Adding(h))
      BY <1>1, <3>1 DEF In
    <3>3. chain = <<>> => (thread[h].missing \cup {Key(h)}) \cap Available = {}
      BY <1>2, <2>2, <3>1 DEF Available
    <3>4. thread[h].missing \cup {Key(h)} \in SUBSET Spends(Adding(h))
      BY <1>1, <3>2
    <3> QED  BY <1>0, <3>1, <3>3, <3>4, KeepNext
  <2> QED  BY <2>1, <2>2
<1> QED  BY <1>3, <1>6, <1>7, <1>8

LEMMA KeepReject ==
    ASSUME ForgetInv, NEW h, Thread = {h}, RejectNonStandard(h)
    PROVE  KeptInv'
  BY KeepReturn DEF RejectNonStandard, In, InAdd

(* The orphan map takes a transaction: its missing inputs are listed. *)
LEMMA KeepAddOrphan ==
    ASSUME ForgetInv, NEW h, Thread = {h}, AddOrphan(h)
    PROVE  KeptInv'
<1> DEFINE t == Adding(h)
<1> DEFINE waits == thread[h].missing \X {t}
<1>0. /\ In(h, "orphan") /\ InAdd(h) /\ Return(h) /\ UNCHANGED <<chain, pool>>
      /\ t \in Tx /\ thread[h].missing \subseteq Spends(t) /\ thread[h].missing # {}
  BY DEF AddOrphan, In, InAdd, ForgetInv, BuildInv, PoolInv, TypeOK
<1> SUFFICES ASSUME chain = <<>> PROVE KeptInv'
  BY <1>0 DEF KeptInv
<1>1. /\ thread[h].missing \cap Available = {}
      /\ Spends(t) \subseteq Available \cup thread[h].missing
      /\ ~(Spends(t) \subseteq Available)
  BY <1>0 DEF ForgetInv, KeptInv, MissingInv
<1>2. CASE t \in orphans /\ UNCHANGED <<orphans, orphRef>>
  BY <1>0, <1>1, <1>2, KeepReturn
<1>3. ASSUME NEW O, orphans' \subseteq (orphans \ O) \cup {t}, t \notin orphans,
             orphRef' = {e \in orphRef : ~(e[2] \in O /\ e[1] \in Spends(e[2]))} \cup waits
      PROVE  KeptInv'
  <2>1. PICK c : Goes(h, c) /\ c.pc \in {"idle", "promote"} /\ c.stack = Stack(h) /\ (c.pc = "idle" => c.stack = <<>>)
    BY <1>0 DEF Return, Idle, Promoting, Call
  <2>2. thread'[h] = c
    BY <2>1 DEF Goes, ForgetInv, BuildInv, PoolInv, TypeOK
  <2>3. Utxo' = Utxo /\ Available' = Available /\ \A u : Conflicts(pool, u)' <=> Conflicts(pool, u)
    BY <1>0 DEF Available, Utxo, Confirmed, Conflicts
  <2>4. Stack(h)' = Stack(h) /\ ~InAdd(h)' /\ (In(h, "idle")' => Stack(h)' = <<>>) /\ ~In(h, "reconcile")'
    BY <2>1, <2>2 DEF Stack, InAdd, In
  <2>5. \A u \in orphans \ O : \A k : <<k, u>> \in orphRef => <<k, u>> \in orphRef'
    <3> SUFFICES ASSUME NEW u \in orphans \ O, NEW k, <<k, u>> \in orphRef PROVE <<k, u>> \in orphRef'
      OBVIOUS
    <3>1. <<k, u>>[2] = u
      OBVIOUS
    <3> QED  BY <1>3, <3>1
  <2>6. \A u \in orphans \ O : Wanted(h, u) => Wanted(h, u)'
    BY <2>4, <2>5 DEF Wanted
  <2>7. \A k \in thread[h].missing : <<k, t>> \in orphRef'
    BY <1>3
  <2>8. \A u \in orphans' : \A k \in Spends(u) : k \in Available' \/ <<k, u>> \in orphRef'
    <3> SUFFICES ASSUME NEW u \in orphans', NEW k \in Spends(u) PROVE k \in Available \/ <<k, u>> \in orphRef'
      BY <2>3
    <3>1. CASE u = t
      BY <1>1, <2>7, <3>1
    <3>2. CASE u \in orphans \ O
      BY <2>5, <3>2 DEF ForgetInv, KeptInv
    <3> QED  BY <1>3, <3>1, <3>2
  <2>9. \A u \in orphans' \cap Signed \cap Standard : Kept(h, u)'
    <3> SUFFICES ASSUME NEW u \in orphans' \cap Signed \cap Standard PROVE Kept(h, u)'
      OBVIOUS
    <3>1. CASE u = t
      BY <1>1, <2>3, <3>1 DEF Kept
    <3>2. CASE u # t
      BY <1>3, <2>3, <2>6, <3>2 DEF Kept, ForgetInv, KeptInv
    <3> QED  BY <3>1, <3>2
  <2>10. MissingInv'
    BY <2>4 DEF MissingInv, InAdd, In
  <2> QED  BY <2>4, <2>8, <2>9, <2>10 DEF KeptInv
<1>4. CASE /\ t \notin orphans
           /\ orphans' = orphans \cup {t}
           /\ orphRef' = orphRef \cup waits
  <2>1. orphRef = {e \in orphRef : ~(e[2] \in {} /\ e[1] \in Spends(e[2]))}
    OBVIOUS
  <2>2. orphans' \subseteq (orphans \ {}) \cup {t}
    BY ONLY <1>4
  <2>3. orphRef' = {e \in orphRef : ~(e[2] \in {} /\ e[1] \in Spends(e[2]))} \cup waits
    BY ONLY <1>4, <2>1
  <2> QED  BY ONLY <1>3, <1>4, <2>2, <2>3
<1>5. ASSUME NEW old \in orphans, t \notin orphans,
             orphans' = (orphans \ {old}) \cup {t},
             orphRef' = WithoutOrphan(old) \cup waits
      PROVE  KeptInv'
  <2>1. WithoutOrphan(old) = {e \in orphRef : ~(e[2] \in {old} /\ e[1] \in Spends(e[2]))}
    BY DEF WithoutOrphan
  <2>2. orphRef' = {e \in orphRef : ~(e[2] \in {old} /\ e[1] \in Spends(e[2]))} \cup waits
    BY ONLY <1>5, <2>1
  <2>3. t \notin orphans /\ orphans' \subseteq (orphans \ {old}) \cup {t}
    BY ONLY <1>5
  <2> QED  BY ONLY <1>3, <2>2, <2>3
<1> QED  BY <1>2, <1>4, <1>5 DEF AddOrphan

(* The insertion: who waited for it is wanted by its promoteOrphans. *)
LEMMA KeepCommit ==
    ASSUME OneConnection, ForgetInv, NEW h, Thread = {h}, Commit(h)
    PROVE  KeptInv'
<1> DEFINE t == Adding(h)
<1>0. /\ In(h, "commit") /\ InAdd(h) /\ chain' = chain /\ t \in Tx /\ t \in Standard
      /\ orphans' = orphans \ {t} /\ orphRef' = WithoutOrphan(t)
      /\ pool.entries \subseteq Tx
  BY DEF Commit, In, InAdd, ForgetInv, BuildInv, PoolInv, TypeOK
<1> SUFFICES ASSUME chain = <<>> PROVE KeptInv'
  BY <1>0 DEF KeptInv
<1>1. Utxo' = Utxo
  BY <1>0 DEF Utxo, Confirmed
<1>2. \A u \in orphans' : u # t /\ \A k : <<k, u>> \in orphRef => <<k, u>> \in orphRef'
  <2> SUFFICES ASSUME NEW u \in orphans', NEW k, <<k, u>> \in orphRef PROVE <<k, u>> \in orphRef'
    BY <1>0
  <2>1. <<k, u>>[2] = u
    OBVIOUS
  <2> QED  BY <1>0, <2>1 DEF WithoutOrphan
<1>3. MakeRoom(pool, t) = {pool}
  <2>1. IsFiniteSet(pool.entries) /\ Cardinality(pool.entries) <= Cardinality(Tx)
    BY <1>0, FS_Subset DEF OneConnection
  <2>2. Cardinality(pool.entries) \in Nat /\ Cardinality(Tx) \in Nat
    BY <2>1, FS_CardinalityType DEF OneConnection
  <2> QED  BY <2>1, <2>2, PoolAssumption DEF MakeRoom, OneConnection
<1>4. \A u \in orphans : \A k \in Spends(u) : k \in Available \/ <<k, u>> \in orphRef
  BY DEF ForgetInv, KeptInv
<1>5. CASE pool' = pool /\ Return(h)
  <2>1. PICK c : Goes(h, c) /\ c.pc \in {"idle", "promote"} /\ c.stack = Stack(h) /\ (c.pc = "idle" => c.stack = <<>>)
    BY <1>5 DEF Return, Idle, Promoting, Call
  <2>2. thread'[h] = c
    BY <2>1 DEF Goes, ForgetInv, BuildInv, PoolInv, TypeOK
  <2>3. Available' = Available /\ \A u : Conflicts(pool, u)' <=> Conflicts(pool, u)
    BY <1>1, <1>5 DEF Available, Conflicts
  <2>4. Stack(h)' = Stack(h) /\ ~InAdd(h)' /\ (In(h, "idle")' => Stack(h)' = <<>>) /\ ~In(h, "reconcile")'
    BY <2>1, <2>2 DEF Stack, InAdd, In
  <2>5. \A u \in orphans' : Wanted(h, u) => Wanted(h, u)'
    BY <1>2, <2>4 DEF Wanted
  <2>6. \A u \in orphans' \cap Signed \cap Standard : Kept(h, u)'
    BY <1>0, <1>2, <2>3, <2>5 DEF Kept, ForgetInv, KeptInv
  <2>7. MissingInv'
    BY <2>4 DEF MissingInv, InAdd, In
  <2>8. \A u \in orphans' : \A k \in Spends(u) : k \in Available' \/ <<k, u>> \in orphRef'
    BY <1>0, <1>2, <1>4, <2>3
  <2> QED  BY <2>4, <2>6, <2>7, <2>8 DEF KeptInv
<1>6. CASE /\ t \notin pool.entries /\ pool' = InsertEntry(pool, t)
           /\ Goes(h, Promoting(Append(Stack(h), Frame(t))))
  <2> DEFINE st == Append(Stack(h), Frame(t))
  <2>1. /\ pool'.entries = pool.entries \cup {t}
        /\ DOMAIN pool'.spent = DOMAIN pool.spent \cup Spends(t)
    BY <1>6 DEF InsertEntry
  <2>2. Available' = Available \cup {t} /\ \A u : Conflicts(pool, u) => Conflicts(pool, u)'
    BY <1>1, <2>1 DEF Available, Conflicts
  <2>3. thread'[h] = Promoting(st)
    BY <1>6 DEF Goes, ForgetInv, BuildInv, PoolInv, TypeOK
  <2>4. Stack(h)' = st /\ ~InAdd(h)' /\ ~In(h, "idle")' /\ ~In(h, "reconcile")'
    BY <2>3 DEF Stack, InAdd, In, Promoting, Call
  <2>5. Stack(h) \in Seq(Frames)
    BY DEF ForgetInv, BuildInv, PoolInv, TypeOK, Calls, Stack
  <2>6. /\ \A i \in DOMAIN Stack(h) : i \in DOMAIN st /\ st[i] = Stack(h)[i]
        /\ Len(st) \in DOMAIN st /\ st[Len(st)] = Frame(t)
    BY <2>5
  <2> HIDE DEF st
  <2>7. \A u \in orphans' : Wanted(h, u) => Wanted(h, u)'
    BY <1>2, <2>4, <2>6 DEF Wanted
  <2>8. \A u \in orphans' : <<t, u>> \in orphRef => Wanted(h, u)'
    <3> SUFFICES ASSUME NEW u \in orphans', <<t, u>> \in orphRef PROVE Wanted(h, u)'
      OBVIOUS
    <3>1. Frame(t).queue = <<t>> /\ Frame(t).seen = {}
      BY DEF Frame
    <3>2. 1 \in DOMAIN Frame(t).queue /\ Frame(t).queue[1] = t
      BY <3>1
    <3>3. <<Frame(t).queue[1], u>> \in orphRef'
      BY <1>2, <3>2
    <3> QED  BY <2>4, <2>6, <3>1, <3>2, <3>3 DEF Wanted
  <2>9. ASSUME NEW u \in orphans' \cap Signed \cap Standard PROVE Kept(h, u)'
    <3>1. Kept(h, u) /\ u # t
      BY <1>0 DEF ForgetInv, KeptInv
    <3>2. CASE ~(Spends(u) \subseteq Available) /\ Spends(u) \subseteq Available'
      <4>1. t \in Spends(u) /\ t \notin Available
        BY <2>2, <3>2
      <4> QED  BY <1>0, <1>4, <2>8, <4>1 DEF Kept
    <3> QED  BY <2>2, <2>7, <3>1, <3>2 DEF Kept
  <2>10. MissingInv'
    BY <2>4 DEF MissingInv, InAdd, In
  <2>11. \A u \in orphans' : \A k \in Spends(u) : k \in Available' \/ <<k, u>> \in orphRef'
    BY <1>0, <1>2, <1>4, <2>2
  <2> QED  BY <2>4, <2>9, <2>10, <2>11 DEF KeptInv
<1> QED  BY <1>3, <1>5, <1>6 DEF Commit

(* promoteOrphans replaces its stack, and still wants whom it wanted. *)
LEMMA KeepPromoting ==
    ASSUME ForgetInv, NEW h, Thread = {h}, NEW c, Goes(h, c), UNCHANGED <<chain, pool, orphans, orphRef>>,
           In(h, "promote"), c.pc \in {"idle", "begin", "promote"}, c.missing = {},
           c.pc = "idle" => c.stack = <<>>,
           \A t \in orphans : Wanted(h, t) => Wanted(h, t)' \/ (c.pc = "begin" /\ c.tx = t)
    PROVE  KeptInv'
<1> SUFFICES ASSUME chain = <<>> PROVE KeptInv'
  BY DEF KeptInv
<1>1. thread'[h] = c
  BY DEF Goes, ForgetInv, BuildInv, PoolInv, TypeOK
<1>2. Utxo' = Utxo /\ Available' = Available /\ \A t : Conflicts(pool, t)' <=> Conflicts(pool, t)
  BY DEF Available, Utxo, Confirmed, Conflicts
<1>3. ~InAdd(h) /\ (c.pc = "begin" => InAdd(h)' /\ Adding(h)' = c.tx)
  BY <1>1 DEF InAdd, In, Adding
<1>4. \A t \in orphans \cap Signed \cap Standard : Kept(h, t)'
  BY <1>2, <1>3 DEF Kept, ForgetInv, KeptInv
<1>5. MissingInv'
  BY <1>1 DEF MissingInv, InAdd, In
<1>6. (In(h, "idle")' => Stack(h)' = <<>>) /\ ~In(h, "reconcile")'
  BY <1>1 DEF In, Stack
<1> QED  BY <1>2, <1>4, <1>5, <1>6 DEF ForgetInv, KeptInv

(* Another frame on top of the stack. *)
LEMMA TopReplaced ==
    ASSUME TypeOK, NEW h \in Thread, In(h, "promote"), NEW f
    PROVE  /\ Len(Stack(h)) \in DOMAIN Stack(h) /\ Top(h) = Stack(h)[Len(Stack(h))]
           /\ DOMAIN SetTop(h, f) = DOMAIN Stack(h)
           /\ SetTop(h, f)[Len(Stack(h))] = f
           /\ \A i \in DOMAIN Stack(h) \ {Len(Stack(h))} : SetTop(h, f)[i] = Stack(h)[i]
<1> DEFINE s == Stack(h)
<1> DEFINE n == Len(s)
<1> DEFINE p == SubSeq(s, 1, n - 1)
<1>1. s \in Seq(Frames) /\ n \in Nat \ {0} /\ DOMAIN s = 1 .. n
  BY TopFrame
<1> HIDE DEF s
<1>2. s \in Seq(Frames \cup {f})
  <2>1. Seq(Frames) \subseteq Seq(Frames \cup {f})
    OBVIOUS
  <2> QED  BY <1>1, <2>1
<1>3. p \in Seq(Frames \cup {f}) /\ Len(p) = n - 1 /\ \A i \in 1 .. n - 1 : p[i] = s[i]
  BY <1>1, <1>2
<1>4. SetTop(h, f) = Append(p, f)
  BY DEF SetTop, Pop, s
<1> HIDE DEF p
<1> DEFINE a == Append(p, f)
<1>5. /\ DOMAIN a = 1 .. Len(p) + 1
      /\ a[Len(p) + 1] = f
      /\ \A i \in 1 .. Len(p) : a[i] = p[i]
  BY <1>3
<1> HIDE DEF a
<1>6. Len(p) + 1 = n /\ n \in DOMAIN s
  BY <1>1, <1>3
<1>7. \A i \in DOMAIN s \ {n} : i \in 1 .. n - 1
  BY <1>1
<1>8. DOMAIN a = DOMAIN s /\ a[n] = f /\ \A i \in DOMAIN s \ {n} : a[i] = s[i]
  BY <1>1, <1>3, <1>5, <1>6, <1>7
<1> QED  BY <1>4, <1>6, <1>8 DEF Top, s, a

LEMMA KeepScan ==
    ASSUME ForgetInv, NEW h, Thread = {h}, ScanOrphans(h)
    PROVE  KeptInv'
<1> DEFINE q == Top(h).queue
<1> DEFINE found == {e[2] : e \in {x \in orphRef : x[1] = Head(q)}} \ Top(h).seen
<1> DEFINE f == [for |-> Top(h).for, queue |-> Tail(q), candidates |-> found, seen |-> Top(h).seen \cup found]
<1> DEFINE c == Promoting(SetTop(h, f))
<1>1. /\ TypeOK /\ In(h, "promote") /\ Top(h).candidates = {} /\ q # <<>>
      /\ Goes(h, c) /\ UNCHANGED <<chain, pool, orphans, orphRef>>
  BY DEF ScanOrphans, ForgetInv, BuildInv, PoolInv
<1>2. c.pc = "promote" /\ c.missing = {} /\ c.stack = SetTop(h, f)
  BY DEF Promoting, Call
<1>3. Stack(h)' = SetTop(h, f)
  BY <1>1, <1>2 DEF Goes, TypeOK, Stack
<1>4. f.queue = Tail(q) /\ f.candidates = found /\ f.seen = Top(h).seen \cup found
  OBVIOUS
<1>5. q \in Seq(Tx)
  BY <1>1, TopFrame DEF Frames
<1>6. \A t, j : j \in DOMAIN q /\ <<q[j], t>> \in orphRef /\ t \notin Top(h).seen =>
         t \in found \/ \E k \in DOMAIN Tail(q) : Tail(q)[k] = q[j]
  <2> SUFFICES ASSUME NEW t, NEW j \in DOMAIN q, <<q[j], t>> \in orphRef, t \notin Top(h).seen, t \notin found
               PROVE  \E k \in DOMAIN Tail(q) : Tail(q)[k] = q[j]
    OBVIOUS
  <2>1. j # 1
    <3> SUFFICES ASSUME j = 1 PROVE FALSE
      OBVIOUS
    <3>1. <<q[j], t>>[1] = Head(q) /\ <<q[j], t>>[2] = t
      BY <1>5
    <3> QED  BY <3>1
  <2> HIDE DEF q
  <2>2. j - 1 \in DOMAIN Tail(q) /\ Tail(q)[j - 1] = q[j]
    BY <1>1, <1>5, <2>1
  <2> QED  BY <2>2
<1> HIDE DEF f, c, found
<1>7. ASSUME NEW t \in orphans, Wanted(h, t) PROVE Wanted(h, t)'
  <2> DEFINE n == Len(Stack(h))
  <2>1. PICK i \in DOMAIN Stack(h) :
           \/ t \in Stack(h)[i].candidates
           \/ t \notin Stack(h)[i].seen /\ \E j \in DOMAIN Stack(h)[i].queue : <<Stack(h)[i].queue[j], t>> \in orphRef
    BY <1>7 DEF Wanted
  <2>2. /\ n \in DOMAIN Stack(h) /\ Top(h) = Stack(h)[n] /\ DOMAIN SetTop(h, f) = DOMAIN Stack(h)
        /\ SetTop(h, f)[n] = f
        /\ \A k \in DOMAIN Stack(h) \ {n} : SetTop(h, f)[k] = Stack(h)[k]
    BY <1>1, TopReplaced
  <2>3. CASE i # n
    BY <1>1, <1>3, <2>1, <2>2, <2>3 DEF Wanted
  <2>4. CASE i = n
    <3>1. PICK j \in DOMAIN q : t \notin Top(h).seen /\ <<q[j], t>> \in orphRef
      BY <1>1, <2>1, <2>2, <2>4
    <3>2. CASE t \in found
      BY <1>3, <1>4, <2>2, <3>2 DEF Wanted
    <3>3. CASE t \notin found
      <4>1. PICK k \in DOMAIN f.queue : f.queue[k] = q[j]
        BY <1>4, <1>6, <3>1, <3>3
      <4>2. t \notin f.seen /\ <<f.queue[k], t>> \in orphRef'
        BY <1>1, <1>4, <3>1, <3>3, <4>1
      <4> QED  BY <1>3, <2>2, <4>2 DEF Wanted
    <3> QED  BY <3>2, <3>3
  <2> QED  BY <2>3, <2>4
<1> QED  BY <1>1, <1>2, <1>7, KeepPromoting

LEMMA KeepTry ==
    ASSUME ForgetInv, NEW h, Thread = {h}, TryOrphan(h)
    PROVE  KeptInv'
<1>1. TypeOK /\ In(h, "promote") /\ UNCHANGED <<chain, pool, orphans, orphRef>>
  BY DEF TryOrphan, ForgetInv, BuildInv, PoolInv
<1>2. PICK u \in Top(h).candidates :
         Goes(h, IF u \in orphans
                 THEN Call("begin", u, 0, {}, SetTop(h, [Top(h) EXCEPT !.candidates = @ \ {u}]))
                 ELSE Promoting(SetTop(h, [Top(h) EXCEPT !.candidates = @ \ {u}])))
  BY DEF TryOrphan
<1> DEFINE f == [Top(h) EXCEPT !.candidates = @ \ {u}]
<1> DEFINE c == IF u \in orphans THEN Call("begin", u, 0, {}, SetTop(h, f)) ELSE Promoting(SetTop(h, f))
<1>3. Top(h) \in Frames
  BY <1>1, TopFrame
<1>4. f.candidates = Top(h).candidates \ {u} /\ f.seen = Top(h).seen /\ f.queue = Top(h).queue
  BY <1>3 DEF Frames
<1> HIDE DEF f
<1>5. /\ c.pc \in {"begin", "promote"} /\ c.missing = {} /\ c.stack = SetTop(h, f)
      /\ u \in orphans => c.pc = "begin" /\ c.tx = u
  BY DEF Call, Promoting
<1>6. Goes(h, c)
  BY <1>2 DEF f
<1> HIDE DEF c
<1>7. Stack(h)' = SetTop(h, f)
  BY <1>1, <1>5, <1>6 DEF Goes, TypeOK, Stack
<1>8. ASSUME NEW t \in orphans, Wanted(h, t) PROVE Wanted(h, t)' \/ (c.pc = "begin" /\ c.tx = t)
  <2> DEFINE n == Len(Stack(h))
  <2>1. PICK i \in DOMAIN Stack(h) :
           \/ t \in Stack(h)[i].candidates
           \/ t \notin Stack(h)[i].seen /\ \E j \in DOMAIN Stack(h)[i].queue : <<Stack(h)[i].queue[j], t>> \in orphRef
    BY <1>8 DEF Wanted
  <2>2. /\ n \in DOMAIN Stack(h) /\ Top(h) = Stack(h)[n] /\ DOMAIN SetTop(h, f) = DOMAIN Stack(h)
        /\ SetTop(h, f)[n] = f
        /\ \A k \in DOMAIN Stack(h) \ {n} : SetTop(h, f)[k] = Stack(h)[k]
    BY <1>1, TopReplaced
  <2>3. CASE i # n
    BY <1>1, <1>7, <2>1, <2>2, <2>3 DEF Wanted
  <2>4. CASE i = n /\ t = u
    BY <1>5, <1>8, <2>4
  <2>5. CASE i = n /\ t # u
    <3>1. \/ t \in f.candidates
          \/ t \notin f.seen /\ \E j \in DOMAIN f.queue : <<f.queue[j], t>> \in orphRef
      BY <1>4, <2>1, <2>2, <2>5
    <3> QED  BY <1>1, <1>7, <2>2, <3>1 DEF Wanted
  <2> QED  BY <2>3, <2>4, <2>5
<1> QED  BY <1>1, <1>5, <1>6, <1>8, KeepPromoting

LEMMA KeepPromoteEnds ==
    ASSUME ForgetInv, NEW h, Thread = {h}, PromoteEnds(h)
    PROVE  KeptInv'
<1> DEFINE s == Stack(h)
<1> DEFINE n == Len(s)
<1>1. /\ TypeOK /\ In(h, "promote") /\ UNCHANGED <<chain, pool, orphans, orphRef>>
      /\ Top(h).candidates = {} /\ Top(h).queue = <<>> /\ Top(h) = s[n]
  BY DEF PromoteEnds, ForgetInv, BuildInv, PoolInv, Top
<1>2. s \in Seq(Frames) /\ n \in Nat \ {0} /\ DOMAIN s = 1 .. n /\ Top(h) \in Frames
  BY <1>1, TopFrame
<1>3. ASSUME NEW t, Wanted(h, t)
      PROVE  \E i \in 1 .. n - 1 :
                \/ t \in s[i].candidates
                \/ t \notin s[i].seen /\ \E j \in DOMAIN s[i].queue : <<s[i].queue[j], t>> \in orphRef
  <2>1. PICK i \in DOMAIN s :
           \/ t \in s[i].candidates
           \/ t \notin s[i].seen /\ \E j \in DOMAIN s[i].queue : <<s[i].queue[j], t>> \in orphRef
    BY <1>3 DEF Wanted
  <2>2. DOMAIN <<>> = {}
    OBVIOUS
  <2>3. i # n
    BY <1>1, <2>1, <2>2
  <2> HIDE DEF s
  <2>4. i \in 1 .. n - 1
    BY <1>2, <2>3
  <2> QED  BY <2>1, <2>4
<1>4. CASE n = 1
  <2>1. Goes(h, Idle)
    BY <1>4 DEF PromoteEnds
  <2>2. Idle.pc = "idle" /\ Idle.missing = {} /\ Idle.stack = <<>>
    BY DEF Idle, Call
  <2>3. 1 .. n - 1 = {}
    BY <1>4
  <2>4. \A t : ~Wanted(h, t)
    BY <1>3, <2>3
  <2> QED  BY <1>1, <2>1, <2>2, <2>4, KeepPromoting
<1>5. CASE n # 1
  <2> DEFINE below == s[n - 1]
  <2> DEFINE f == [below EXCEPT !.queue = Append(@, Top(h).for)]
  <2> DEFINE st == Append(SubSeq(s, 1, n - 2), f)
  <2>1. Goes(h, Promoting(st))
    BY <1>5 DEF PromoteEnds
  <2>2. Promoting(st).pc = "promote" /\ Promoting(st).missing = {} /\ Promoting(st).stack = st
    BY DEF Promoting, Call
  <2>3. Stack(h)' = st
    BY <1>1, <2>1, <2>2 DEF Goes, TypeOK, Stack
  <2>4. n - 1 \in 1 .. n /\ n - 2 \in 0 .. n
    <3> HIDE DEF n
    <3> QED  BY <1>2, <1>5
  <2>5. below \in Frames
    BY <1>2, <2>4
  <2>6. f.candidates = below.candidates /\ f.seen = below.seen /\ f.queue = Append(below.queue, Top(h).for)
    <3> HIDE DEF below
    <3> QED  BY <2>5 DEF Frames
  <2>7. below.queue \in Seq(Tx)
    BY <2>5 DEF Frames
  <2>8. \A j \in DOMAIN below.queue : j \in DOMAIN f.queue /\ f.queue[j] = below.queue[j]
    <3> HIDE DEF below, f
    <3> QED  BY <2>6, <2>7
  <2> HIDE DEF f
  <2>9. /\ DOMAIN st = 1 .. n - 1
        /\ st[n - 1] = f
        /\ \A i \in 1 .. n - 2 : st[i] = s[i]
    <3> DEFINE p == SubSeq(s, 1, n - 2)
    <3> HIDE DEF s
    <3>1. p \in Seq(Frames) /\ Len(p) = n - 2 /\ \A i \in 1 .. n - 2 : p[i] = s[i]
      BY <1>2, <2>4
    <3> HIDE DEF p, n
    <3>2. /\ DOMAIN Append(p, f) = 1 .. n - 2 + 1
          /\ Append(p, f)[n - 2 + 1] = f
          /\ \A i \in 1 .. n - 2 : Append(p, f)[i] = p[i]
      BY <2>4, <3>1
    <3>3. n - 2 + 1 = n - 1
      BY <1>2
    <3> QED  BY <3>1, <3>2, <3>3 DEF p
  <2> HIDE DEF st
  <2>10. ASSUME NEW t \in orphans, Wanted(h, t) PROVE Wanted(h, t)'
    <3>1. PICK i \in 1 .. n - 1 :
             \/ t \in s[i].candidates
             \/ t \notin s[i].seen /\ \E j \in DOMAIN s[i].queue : <<s[i].queue[j], t>> \in orphRef
      BY <1>3, <2>10
    <3>2. CASE i = n - 1
      <4>1. \/ t \in f.candidates
            \/ t \notin f.seen /\ \E j \in DOMAIN f.queue : <<f.queue[j], t>> \in orphRef'
        BY <1>1, <2>6, <2>8, <3>1, <3>2
      <4> QED  BY <2>3, <2>9, <3>2, <4>1 DEF Wanted
    <3>3. CASE i # n - 1
      <4>1. i \in 1 .. n - 2
        <5> HIDE DEF n
        <5> QED  BY <1>2, <3>3
      <4> QED  BY <1>1, <2>3, <2>9, <3>1, <4>1 DEF Wanted
    <3> QED  BY <3>2, <3>3
  <2> QED  BY <1>1, <2>1, <2>2, <2>10, KeepPromoting
<1> QED  BY <1>4, <1>5

(* With one connection, no eviction and no disconnecttip, and before a     *)
(* block changes what is unspent: whatever the order of arrival, the       *)
(* orphans that fall out of a full orphan map and the nesting of           *)
(* promoteOrphans and Add, no orphan is left behind that could be taken.   *)
THEOREM NoOrphanForgotten == ASSUME OneConnection PROVE Spec => []NoForgottenOrphan
<1>1. Init => ForgetInv
  <2> SUFFICES ASSUME Init PROVE KeptInv
    BY InitBuildInv DEF ForgetInv
  <2>1. orphans = {} /\ \A h \in Thread : thread[h].pc = "idle" /\ thread[h].stack = <<>>
    BY DEF Init, Idle, Call
  <2> QED  BY <2>1 DEF KeptInv, MissingInv, InAdd, In, Stack
<1>2. ForgetInv /\ [Next]_vars => ForgetInv'
  <2> SUFFICES ASSUME ForgetInv, [Next]_vars PROVE ForgetInv'
    OBVIOUS
  <2>1. BuildInv'
    BY StepBuildInv DEF ForgetInv
  <2>2. PICK h : Thread = {h}
    BY DEF OneConnection
  <2>3. CASE UNCHANGED vars
    <3>1. /\ thread' = thread /\ orphans' = orphans /\ orphRef' = orphRef /\ chain' = chain
          /\ Available' = Available /\ Utxo' = Utxo /\ \A t : Conflicts(pool, t)' <=> Conflicts(pool, t)
      BY <2>3 DEF vars, Available, Utxo, Confirmed, Conflicts
    <3>2. \A t : Kept(h, t)' <=> Kept(h, t)
      BY <3>1 DEF Kept, Wanted, InAdd, Adding, Stack
    <3>3. MissingInv' <=> MissingInv
      BY <3>1 DEF MissingInv, InAdd, In, Key, Adding
    <3>4. In(h, "idle")' = In(h, "idle") /\ In(h, "reconcile")' = In(h, "reconcile") /\ Stack(h)' = Stack(h)
      BY <3>1 DEF In, Stack
    <3>5. KeptInv'
      BY <2>2, <3>1, <3>2, <3>3, <3>4 DEF ForgetInv, KeptInv
    <3> QED  BY <2>1, <3>5 DEF ForgetInv
  <2>4. CASE DisconnectTip
    BY <2>4 DEF DisconnectTip, OneConnection
  <2>5. CASE ConnectBlock(h) \/ ConnectSeveral(h)
    <3>1. PICK S : chain' = Append(chain, S)
      BY <2>5 DEF ConnectBlock, ConnectSeveral, OneConnection
    <3>2. chain \in Seq(SUBSET Tx)
      BY DEF ForgetInv, BuildInv, PoolInv, TypeOK
    <3>3. chain' # <<>>
      BY <3>1, <3>2
    <3> QED  BY <2>1, <3>3 DEF ForgetInv, KeptInv
  <2>6. CASE RemoveForBlock(h)
    <3>1. chain # <<>> /\ chain' = chain
      BY <2>2, <2>6 DEF RemoveForBlock, ForgetInv, KeptInv
    <3> QED  BY <2>1, <3>1 DEF ForgetInv, KeptInv
  <2>7. CASE (\E t \in Tx : Submit(h, t)) \/ Continue(h)
    BY <2>1, <2>2, <2>6, <2>7, KeepSubmit, KeepValidation, KeepReject, KeepAddOrphan, KeepCommit,
       KeepScan, KeepTry, KeepPromoteEnds DEF Continue, ForgetInv
  <2> QED  BY <2>2, <2>3, <2>4, <2>5, <2>7 DEF Next
<1>3. ForgetInv => NoForgottenOrphan
  <2> SUFFICES ASSUME ForgetInv, Quiet, chain = <<>>, NEW t \in orphans \cap Signed \cap Standard,
                      Spends(t) \subseteq Utxo \cup pool.entries, ~Conflicts(pool, t)
               PROVE  FALSE
    BY DEF NoForgottenOrphan
  <2>1. PICK h : Thread = {h}
    BY DEF OneConnection
  <2>2. In(h, "idle") /\ Stack(h) = <<>> /\ Kept(h, t) /\ ~InAdd(h)
    BY <2>1 DEF Quiet, ForgetInv, KeptInv, InAdd, In
  <2>3. DOMAIN Stack(h) = {}
    BY <2>2
  <2> QED  BY <2>2, <2>3 DEF Kept, Wanted, Available
<1> QED  BY <1>1, <1>2, <1>3, PTL DEF Spec
=============================================================================
