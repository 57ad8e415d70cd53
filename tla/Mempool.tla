------------------------------ MODULE Mempool -------------------------------
(***************************************************************************)
(* The transaction pool (internal/mempool/mempool.go) beside the active    *)
(* chain.  A thread is a goroutine that delivers transactions and blocks:  *)
(* a peer connection (p2p handleConn), an RPC call, the miner.             *)
(*                                                                         *)
(* Pool.Add validates without the pool lock held: it takes the lock for    *)
(* each lookup, then once more to insert.  Each of these is a step, so     *)
(* that another thread can come between.  promoteOrphans calls Add again,  *)
(* hence the stack of calls.                                               *)
(*                                                                         *)
(* A transaction has one output, known by the transaction itself.  Scripts *)
(* and policy are properties of the transaction (Signed, Standard); fee    *)
(* and size are its fee rate.  Lock times and coinbase maturity are left   *)
(* out.                                                                    *)
(***************************************************************************)
EXTENDS Integers, Sequences, FiniteSets

CONSTANTS
    Tx,
    NoTx,              \* absence of a transaction
    Coin,              \* outputs unspent in the chain at the start
    Inputs,            \* [Tx -> Seq(Coin \cup Tx)]
    Rate,              \* [Tx -> Nat], feeRatePerKB
    Signed,            \* its input scripts verify
    Standard,          \* it passes checkStandardness and pays the relay fee
    MaxTx,             \* 50000 in the code
    MaxOrphans,        \* 100 in the code
    MaxAncestorDepth,  \* 25 in the code
    TxIndexEnabled,
    Thread,
    Environment        \* which of "block", "several", "disconnecttip" happen

ASSUME TxAssumption ==
    /\ Tx \cap Coin = {} /\ NoTx \notin Tx
    /\ Inputs \in [Tx -> Seq(Coin \cup Tx) \ {<<>>}]
    /\ \A t \in Tx : \A i, j \in DOMAIN Inputs[t] : Inputs[t][i] = Inputs[t][j] => i = j
    /\ Rate \in [Tx -> Nat]
    /\ Signed \subseteq Tx /\ Standard \subseteq Tx

ASSUME PoolAssumption ==
    /\ MaxTx \in Nat \ {0} /\ MaxOrphans \in Nat \ {0} /\ MaxAncestorDepth \in Nat
    /\ TxIndexEnabled \in BOOLEAN
    /\ Environment \subseteq {"block", "several", "disconnecttip"}

VARIABLES
    chain,     \* transactions of each block of the active chain, oldest first
    pool,      \* Pool.entries, spent, parents, childs
    orphans,   \* Pool.orphans
    orphRef,   \* Pool.orphRef, pairs of a missing output and a waiting orphan
    thread     \* the call each thread is in

vars == <<chain, pool, orphans, orphRef, thread>>

OutPoint == Coin \cup Tx
Spends(t) == {Inputs[t][i] : i \in DOMAIN Inputs[t]}
SpendsAny(T) == UNION {Spends(t) : t \in T}

Confirmed == UNION {chain[i] : i \in DOMAIN chain}
Utxo == (Coin \cup Confirmed) \ SpendsAny(Confirmed)

-----------------------------------------------------------------------------
(* The maps of the pool.  A call works on a value p of the variable pool.  *)

EmptyPool == [entries |-> {}, spent |-> [k \in {} |-> k], parents |-> {}, childs |-> {}]

(* t, its descendants along childs, theirs, ... *)
WithDescendants(p, T) ==
    LET Closed(D) == \A e \in p.childs : e[1] \in D => e[2] \in D
    IN {d \in p.entries : \A D \in SUBSET p.entries : T \cap p.entries \subseteq D /\ Closed(D) => d \in D}

(* Mutant: the outpoints of a removed entry stay taken. *)
RemoveEntriesKeepSpent(p, T) ==
    LET gone == WithDescendants(p, T)
    IN [entries |-> p.entries \ gone,
        spent   |-> p.spent,
        parents |-> {e \in p.parents : e[2] \notin gone},
        childs  |-> {e \in p.childs : e[1] \notin gone /\ ~(e[2] \in gone /\ e \in p.parents)}]

(* removeEntryLocked(t, true) for every t \in T.  With RBF disabled every  *)
(* caller removes the descendants as well.                                 *)
RemoveEntries(p, T) ==
    LET gone == WithDescendants(p, T)
    IN [entries |-> p.entries \ gone,
        spent   |-> [k \in DOMAIN p.spent \ SpendsAny(gone) |-> p.spent[k]],
        parents |-> {e \in p.parents : e[2] \notin gone},
        childs  |-> {e \in p.childs : e[1] \notin gone /\ ~(e[2] \in gone /\ e \in p.parents)}]

(* Mutant: only the first input is linked to its parent. *)
InsertEntryFirstLink(p, t) ==
    LET links == ({Inputs[t][1]} \cap p.entries) \X {t}
    IN [entries |-> p.entries \cup {t},
        spent   |-> [k \in DOMAIN p.spent \cup Spends(t) |-> IF k \in Spends(t) THEN t ELSE p.spent[k]],
        parents |-> p.parents \cup links,
        childs  |-> p.childs \cup links]

(* Mutant: the outpoint is recorded as its own owner. *)
InsertEntryWrongOwner(p, t) ==
    LET links == (Spends(t) \cap p.entries) \X {t}
    IN [entries |-> p.entries \cup {t},
        spent   |-> [k \in DOMAIN p.spent \cup Spends(t) |-> IF k \in Spends(t) THEN k ELSE p.spent[k]],
        parents |-> p.parents \cup links,
        childs  |-> p.childs \cup links]

InsertEntry(p, t) ==
    LET links == (Spends(t) \cap p.entries) \X {t}
    IN [entries |-> p.entries \cup {t},
        spent   |-> [k \in DOMAIN p.spent \cup Spends(t) |-> IF k \in Spends(t) THEN t ELSE p.spent[k]],
        parents |-> p.parents \cup links,
        childs  |-> p.childs \cup links]

Largest(S) == CHOOSE n \in S : \A m \in S : m <= n

(* Links lead to transactions that were pooled earlier, so they never loop. *)
AncestorDepth(p) ==
    LET depth[t \in Tx] == Largest({0} \cup {1 + depth[e[1]] : e \in {f \in p.parents : f[2] = t}})
    IN depth

(* Mutant: the link to the parent is not counted. *)
DepthAllowedOneMore(p, t) ==
    \A u \in Spends(t) \cap p.entries : AncestorDepth(p)[u] <= MaxAncestorDepth

DepthAllowed(p, t) ==
    \A u \in Spends(t) \cap p.entries : 1 + AncestorDepth(p)[u] <= MaxAncestorDepth

(* The entries lowestEvictionCandidate may return. *)
EvictionCandidates(p) ==
    LET leaves == {t \in p.entries : \A e \in p.childs : e[1] # t}
        among  == IF leaves # {} THEN leaves ELSE p.entries
    IN {t \in among : \A u \in among : Rate[t] <= Rate[u]}

(* Mutant: a full pool takes one more. *)
MakeRoomOneMore(p, t) ==
    IF Cardinality(p.entries) <= MaxTx
    THEN {p}
    ELSE {RemoveEntries(p, {low}) : low \in {u \in EvictionCandidates(p) : Rate[t] > Rate[u]}}

(* The pools in which Add goes on: the pool as it is, or one entry and its *)
(* descendants short; none when the transaction does not pay for a place.  *)
MakeRoom(p, t) ==
    IF Cardinality(p.entries) < MaxTx
    THEN {p}
    ELSE {RemoveEntries(p, {low}) : low \in {u \in EvictionCandidates(p) : Rate[t] > Rate[u]}}

Conflicts(p, t) == Spends(t) \cap DOMAIN p.spent # {}

-----------------------------------------------------------------------------
(* The calls. *)

Call(pc, t, i, missing, stack) ==
    [pc |-> pc, tx |-> t, at |-> i, missing |-> missing, block |-> {}, stack |-> stack]

Idle == Call("idle", NoTx, 0, {}, <<>>)

Promoting(stack) == Call("promote", NoTx, 0, {}, stack)

Reconciling(S) ==
    [pc |-> "reconcile", tx |-> NoTx, at |-> 0, missing |-> {}, block |-> S, stack |-> <<>>]

(* One promoteOrphans call: the parents still to scan for and the          *)
(* candidates of the last scan.                                            *)
Frame(t) == [for |-> t, queue |-> <<t>>, candidates |-> {}, seen |-> {}]

Init ==
    /\ chain = <<>>
    /\ pool = EmptyPool
    /\ orphans = {}
    /\ orphRef = {}
    /\ thread = [h \in Thread |-> Idle]

In(h, pc) == thread[h].pc = pc
Adding(h) == thread[h].tx
Key(h) == Inputs[Adding(h)][thread[h].at]

Stack(h) == thread[h].stack

Goes(h, call) == thread' = [thread EXCEPT ![h] = call]
Goto(h, pc) == Goes(h, Call(pc, Adding(h), thread[h].at, thread[h].missing, Stack(h)))

(* Add returns: to promoteOrphans, or to the caller. *)
Return(h) == Goes(h, IF Stack(h) = <<>> THEN Idle ELSE Promoting(Stack(h)))

Submit(h, t) ==
    /\ In(h, "idle")
    /\ Goes(h, Call("begin", t, 0, {}, <<>>))
    /\ UNCHANGED <<chain, pool, orphans, orphRef>>

CheckConfirmed(h) ==
    /\ In(h, "begin")
    /\ \/ /\ TxIndexEnabled /\ Adding(h) \in Confirmed
          /\ Return(h)
       \/ /\ ~(TxIndexEnabled /\ Adding(h) \in Confirmed)
          /\ Goes(h, Call("conflict", Adding(h), 1, {}, Stack(h)))
    /\ UNCHANGED <<chain, pool, orphans, orphRef>>

(* The next input, or the end of validateTransaction with these missing. *)
NextInput(h, missing) ==
    IF thread[h].at < Len(Inputs[Adding(h)])
    THEN Goes(h, Call("conflict", Adding(h), thread[h].at + 1, missing, Stack(h)))
    ELSE Goes(h, Call(IF missing = {} THEN "commit" ELSE "orphan",
                      Adding(h), thread[h].at, missing, Stack(h)))

(* The previous output is found: its script is run. *)
VerifyInput(h) ==
    IF Adding(h) \in Signed THEN NextInput(h, thread[h].missing) ELSE Return(h)

CheckConflict(h) ==
    /\ In(h, "conflict")
    /\ IF Key(h) \in DOMAIN pool.spent THEN Return(h) ELSE Goto(h, "utxo")
    /\ UNCHANGED <<chain, pool, orphans, orphRef>>

LookupUtxo(h) ==
    /\ In(h, "utxo")
    /\ IF Key(h) \in Utxo THEN VerifyInput(h) ELSE Goto(h, "parent")
    /\ UNCHANGED <<chain, pool, orphans, orphRef>>

LookupParent(h) ==
    /\ In(h, "parent")
    /\ IF Key(h) \in pool.entries
       THEN VerifyInput(h)
       ELSE NextInput(h, thread[h].missing \cup {Key(h)})
    /\ UNCHANGED <<chain, pool, orphans, orphRef>>

(* deleteOrphanLocked *)
WithoutOrphan(t) == {e \in orphRef : ~(t \in orphans /\ e[2] = t /\ e[1] \in Spends(t))}

(* Mutant: the evicted orphan keeps its references. *)
AddOrphanKeepsRefs(h) ==
    /\ In(h, "orphan")
    /\ LET t == Adding(h)
           waits == thread[h].missing \X {t}
       IN \/ /\ t \in orphans
             /\ UNCHANGED <<orphans, orphRef>>
          \/ /\ t \notin orphans /\ Cardinality(orphans) < MaxOrphans
             /\ orphans' = orphans \cup {t}
             /\ orphRef' = orphRef \cup waits
          \/ /\ t \notin orphans /\ Cardinality(orphans) >= MaxOrphans
             /\ \E old \in orphans : orphans' = (orphans \ {old}) \cup {t}
             /\ orphRef' = orphRef \cup waits
    /\ Return(h)
    /\ UNCHANGED <<chain, pool>>

(* Mutant: the orphan waits for one missing output only. *)
AddOrphanOneWait(h) ==
    /\ In(h, "orphan")
    /\ \E m \in thread[h].missing :
          /\ orphans' = orphans \cup {Adding(h)}
          /\ orphRef' = IF Adding(h) \in orphans THEN orphRef ELSE orphRef \cup {<<m, Adding(h)>>}
    /\ Return(h)
    /\ UNCHANGED <<chain, pool>>

AddOrphan(h) ==
    /\ In(h, "orphan")
    /\ LET t == Adding(h)
           waits == thread[h].missing \X {t}
       IN \/ /\ t \in orphans
             /\ UNCHANGED <<orphans, orphRef>>
          \/ /\ t \notin orphans /\ Cardinality(orphans) < MaxOrphans
             /\ orphans' = orphans \cup {t}
             /\ orphRef' = orphRef \cup waits
          \/ /\ t \notin orphans /\ Cardinality(orphans) >= MaxOrphans
             /\ \E old \in orphans : /\ orphans' = (orphans \ {old}) \cup {t}
                                     /\ orphRef' = WithoutOrphan(old) \cup waits
    /\ Return(h)
    /\ UNCHANGED <<chain, pool>>

RejectNonStandard(h) ==
    /\ In(h, "commit") /\ Adding(h) \notin Standard
    /\ Return(h)
    /\ UNCHANGED <<chain, pool, orphans, orphRef>>

(* The part of Add under the pool lock.  The orphan is dropped and the     *)
(* place is made before the transaction is looked at again.                *)
Commit(h) ==
    LET t == Adding(h)
    IN /\ In(h, "commit") /\ t \in Standard
       /\ orphans' = orphans \ {t}
       /\ orphRef' = WithoutOrphan(t)
       /\ \/ /\ MakeRoom(pool, t) = {}
             /\ UNCHANGED pool /\ Return(h)
          \/ \E p \in MakeRoom(pool, t) :
                IF t \in p.entries \/ Conflicts(p, t) \/ ~DepthAllowed(p, t)
                THEN pool' = p /\ Return(h)
                ELSE /\ pool' = InsertEntry(p, t)
                     /\ Goes(h, Promoting(Append(Stack(h), Frame(t))))
       /\ UNCHANGED chain

-----------------------------------------------------------------------------
(* promoteOrphans *)

Top(h) == Stack(h)[Len(Stack(h))]
Pop(h) == SubSeq(Stack(h), 1, Len(Stack(h)) - 1)
SetTop(h, f) == Append(Pop(h), f)

ScanOrphans(h) ==
    /\ In(h, "promote") /\ Top(h).candidates = {} /\ Top(h).queue # <<>>
    /\ LET found == {e[2] : e \in {f \in orphRef : f[1] = Head(Top(h).queue)}} \ Top(h).seen
       IN Goes(h, Promoting(SetTop(h,
              [for |-> Top(h).for, queue |-> Tail(Top(h).queue),
               candidates |-> found, seen |-> Top(h).seen \cup found])))
    /\ UNCHANGED <<chain, pool, orphans, orphRef>>

(* Mutant: a candidate that stays an orphan is tried for ever. *)
TryOrphanAgain(h) ==
    /\ In(h, "promote")
    /\ \E t \in Top(h).candidates :
          Goes(h, IF t \in orphans
                  THEN Call("begin", t, 0, {}, Stack(h))
                  ELSE Promoting(SetTop(h, [Top(h) EXCEPT !.candidates = @ \ {t}])))
    /\ UNCHANGED <<chain, pool, orphans, orphRef>>

TryOrphan(h) ==
    /\ In(h, "promote")
    /\ \E t \in Top(h).candidates :
          LET rest == SetTop(h, [Top(h) EXCEPT !.candidates = @ \ {t}])
          IN Goes(h, IF t \in orphans THEN Call("begin", t, 0, {}, rest) ELSE Promoting(rest))
    /\ UNCHANGED <<chain, pool, orphans, orphRef>>

(* The call ends; the promoteOrphans that ran the Add queues the new entry. *)
PromoteEnds(h) ==
    /\ In(h, "promote") /\ Top(h).candidates = {} /\ Top(h).queue = <<>>
    /\ Goes(h, IF Len(Stack(h)) = 1
               THEN Idle
               ELSE LET below == Stack(h)[Len(Stack(h)) - 1]
                    IN Promoting(Append(SubSeq(Stack(h), 1, Len(Stack(h)) - 2),
                                        [below EXCEPT !.queue = Append(@, Top(h).for)])))
    /\ UNCHANGED <<chain, pool, orphans, orphRef>>

-----------------------------------------------------------------------------
(* Blocks. *)

(* What validateBlockTransactions lets into a block on these outputs. *)
Buildable(S, utxo) ==
    /\ SpendsAny(S) \subseteq utxo \cup S
    /\ \A t, u \in S : t # u => Spends(t) \cap Spends(u) = {}

NewBlocks == {S \in SUBSET (Tx \ Confirmed) : S # {} /\ Buildable(S, Utxo)}

(* A thread delivers a block that the chain connects ... *)
ConnectBlock(h) ==
    /\ "block" \in Environment /\ In(h, "idle")
    /\ \E S \in NewBlocks :
          /\ chain' = Append(chain, S)
          /\ Goes(h, Reconciling(S))
    /\ UNCHANGED <<pool, orphans, orphRef>>

(* ... or one that connects an orphan block waiting for it as well. *)
ConnectSeveral(h) ==
    /\ "several" \in Environment /\ In(h, "idle")
    /\ \E S \in NewBlocks : \E R \in SUBSET (Tx \ (Confirmed \cup S)) :
          /\ R # {} /\ Buildable(R, (Utxo \cup S) \ SpendsAny(S))
          /\ chain' = chain \o <<S, R>>
          /\ Goes(h, Reconciling(S))
    /\ UNCHANGED <<pool, orphans, orphRef>>

(* Mutant: transactions that conflict with the block stay. *)
RemoveForBlockOwnOnly(h) ==
    /\ In(h, "reconcile")
    /\ pool' = RemoveEntries(pool, thread[h].block)
    /\ Goes(h, Idle)
    /\ UNCHANGED <<chain, orphans, orphRef>>

(* Only the block that was delivered is reconciled with the pool. *)
RemoveForBlock(h) ==
    /\ In(h, "reconcile")
    /\ LET S == thread[h].block
           unconfirmed == RemoveEntries(pool, S)
           conflicting == {t \in unconfirmed.entries : Spends(t) \cap SpendsAny(S) # {}}
       IN pool' = RemoveEntries(unconfirmed, conflicting)
    /\ Goes(h, Idle)
    /\ UNCHANGED <<chain, orphans, orphRef>>

(* The disconnecttip RPC leaves the pool as it is. *)
DisconnectTip ==
    /\ "disconnecttip" \in Environment /\ chain # <<>>
    /\ chain' = SubSeq(chain, 1, Len(chain) - 1)
    /\ UNCHANGED <<pool, orphans, orphRef, thread>>

Continue(h) ==
    \/ CheckConfirmed(h) \/ CheckConflict(h) \/ LookupUtxo(h) \/ LookupParent(h)
    \/ AddOrphan(h) \/ RejectNonStandard(h) \/ Commit(h)
    \/ ScanOrphans(h) \/ TryOrphan(h) \/ PromoteEnds(h)
    \/ RemoveForBlock(h)

Next ==
    \/ \E h \in Thread :
          \/ \E t \in Tx : Submit(h, t)
          \/ ConnectBlock(h) \/ ConnectSeveral(h)
          \/ Continue(h)
    \/ DisconnectTip

(* A call never waits for anything but a lock that is held for a bounded   *)
(* time, so a goroutine in a call goes on.                                 *)
Fairness == \A h \in Thread : WF_vars(Continue(h))

Spec == Init /\ [][Next]_vars /\ Fairness

-----------------------------------------------------------------------------
(* Properties. *)

PCs == {"idle", "begin", "conflict", "utxo", "parent", "orphan", "commit", "promote", "reconcile"}

Frames == [for : Tx, queue : Seq(Tx), candidates : SUBSET Tx, seen : SUBSET Tx]

Calls == [pc : PCs, tx : Tx \cup {NoTx}, at : Nat, missing : SUBSET OutPoint,
          block : SUBSET Tx, stack : Seq(Frames)]

(* Every map has its type, a call looks only at inputs its transaction     *)
(* has, and promoteOrphans runs with a frame to return to.                 *)
TypeOK ==
    /\ chain \in Seq(SUBSET Tx)
    /\ pool.entries \subseteq Tx
    /\ pool.spent \in [DOMAIN pool.spent -> Tx] /\ DOMAIN pool.spent \subseteq OutPoint
    /\ pool.parents \subseteq Tx \X Tx /\ pool.childs \subseteq Tx \X Tx
    /\ orphans \subseteq Tx
    /\ orphRef \subseteq OutPoint \X Tx
    /\ thread \in [Thread -> Calls]
    /\ \A h \in Thread :
          /\ ~In(h, "idle") /\ ~In(h, "promote") /\ ~In(h, "reconcile") =>
                Adding(h) \in Tx /\ thread[h].missing \subseteq Spends(Adding(h))
          /\ In(h, "conflict") \/ In(h, "utxo") \/ In(h, "parent") =>
                thread[h].at \in DOMAIN Inputs[Adding(h)]
          /\ In(h, "orphan") => thread[h].missing # {}
          /\ In(h, "promote") => thread[h].stack # <<>>

(* The four maps agree at every unlock, whatever was inserted, evicted and *)
(* reconciled: each outpoint an entry spends has that one owner, nothing   *)
(* else is recorded as spent, parents and childs are each other's inverse  *)
(* and no link outlives one of its ends.                                   *)
PoolConsistent ==
    /\ \A t, u \in pool.entries : t # u => Spends(t) \cap Spends(u) = {}
    /\ DOMAIN pool.spent = SpendsAny(pool.entries)
    /\ \A t \in pool.entries : \A k \in Spends(t) : pool.spent[k] = t
    /\ pool.parents = pool.childs
    /\ \A e \in pool.parents : {e[1], e[2]} \subseteq pool.entries /\ e[1] \in Spends(e[2])

(* An entry that spends an output of another entry is linked to it, so     *)
(* that eviction, RemoveForBlock and the order of a template see it.       *)
LinksComplete ==
    \A t, u \in pool.entries : t \in Spends(u) => <<t, u>> \in pool.parents

(* Neither the pool nor the orphan map outgrows its limit. *)
PoolBounded ==
    /\ Cardinality(pool.entries) <= MaxTx
    /\ Cardinality(orphans) <= MaxOrphans

(* No chain of linked entries is deeper than checkAncestorDepthLocked      *)
(* allows, also when entries are evicted, confirmed or disconnected in     *)
(* the middle of it.                                                       *)
DepthBounded ==
    \A t \in pool.entries : AncestorDepth(pool)[t] <= MaxAncestorDepth

(* orphRef lists the orphans and nothing else: each waits for at least one *)
(* of its inputs, and no reference outlives the orphan (deleteOrphanLocked *)
(* finds the references through the inputs, addOrphan made them from the   *)
(* missing ones).                                                          *)
OrphansConsistent ==
    /\ \A t \in orphans : \E e \in orphRef : e[2] = t
    /\ \A e \in orphRef : e[2] \in orphans /\ e[1] \in Spends(e[2])

Quiet == \A h \in Thread : In(h, "idle")

(* Between calls every entry can be mined together with the others: no     *)
(* entry is confirmed already, and each of its inputs is unspent in the    *)
(* chain or the output of an entry.  This is what RemoveForBlock is for.   *)
EntriesBuildable ==
    Quiet => /\ Buildable(pool.entries, Utxo)
             /\ pool.entries \cap Confirmed = {}

(* promoteOrphans leaves no orphan behind that Add would now accept.  A    *)
(* block that brings the missing output promotes nothing, so this is about *)
(* the time before the first one.                                          *)
NoForgottenOrphan ==
    Quiet /\ chain = <<>> => \A t \in orphans \cap Signed \cap Standard :
                ~ /\ Spends(t) \subseteq Utxo \cup pool.entries
                  /\ ~Conflicts(pool, t)
                  /\ DepthAllowed(pool, t)

(* Add returns: promoteOrphans and the Adds it runs come to an end. *)
AddReturns == \A h \in Thread : In(h, "begin") ~> In(h, "idle")

(* Between calls every entry can be mined, is not too deep below other     *)
(* entries, and is linked to those it spends from: what a template, the    *)
(* ancestor limit and the removal of a parent's dependents rely on.        *)
EntriesSound == EntriesBuildable /\ DepthBounded /\ LinksComplete
=============================================================================
