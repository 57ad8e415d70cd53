------------------------- MODULE MinerSupervisorProofs -------------------------
(***************************************************************************)
(* Proofs about the miner, for any number of loops, workers, transactions, *)
(* callers and tips.                                                       *)
(*                                                                         *)
(* A call of MineBlock is followed through its steps by two predicates:    *)
(* Shape says what the call itself may hold at each step, OnTip what it    *)
(* may rely on as long as its parent is still the tip.  A new tip has a    *)
(* new number, so it makes OnTip trivial for every call under way.  Every  *)
(* step of a call keeps both and drops no block (MoveOK).                  *)
(***************************************************************************)
EXTENDS MinerSupervisor, MiningSafety, FiniteSetTheorems, TLAPS

Templates == {"fresh", "select", "wait", "join", "handle", "connect"}
Hashed == {"select", "wait", "join", "handle", "connect"}

Shape(m) ==
    /\ m \in Call
    /\ m.out # "none" => m.at = "idle"
    /\ m.at \notin {"select", "wait", "join"} => m.running = {}
    /\ m.at \in {"idle", "bits", "txs", "fresh"} => m.resultc = "empty"
    /\ m.at \notin {"join", "handle", "connect"} => m.taken = "empty"
    /\ m.at \in {"join", "handle"} => m.taken # "empty"
    /\ m.at = "connect" => m.taken = "block"
    /\ m.at \in Hashed => ~m.mixed
    /\ m.resultc = "block" \/ m.taken = "block" => m.prev < MaxTip

OnTip(m) ==
    /\ m.prev <= tip.id
    /\ m.prev = tip.id /\ m.at \in Templates \cup {"txs"} => ~m.mixed
    /\ m.prev = tip.id /\ m.at \in Templates => InputsConnect(m)

MineInv ==
    /\ tip \in [id : 0..MaxTip, confirmed : SUBSET Tx]
    /\ ctx \in [Loop -> BOOLEAN]
    /\ mine \in [Loop -> Call]
    /\ \A l \in Loop : Shape(mine[l]) /\ OnTip(mine[l])

(* The call of loop l may become m without losing a block. *)
KeepsBlock(l, m) ==
    HasBlock(mine[l]) =>
        \/ HasBlock(m)
        \/ m.out \in {"block", "badprev"}
        \/ m.out = "error" /\ mine[l].at = "connect" /\ ~WithinLimits(mine[l])
        \/ m.out = "cancelled" /\ ctx[l]
        \/ m.out = "stale" /\ ~CheckTemplateFreshness(mine[l]).fresh

NoBlockLost ==
    \A l \in Loop : HasBlock(mine[l]) /\ ~HasBlock(mine'[l])
        => \/ mine'[l].out \in {"block", "badprev"}
           \/ mine'[l].out = "error" /\ mine[l].at = "connect" /\ ~WithinLimits(mine[l])
           \/ mine'[l].out = "cancelled" /\ ctx[l]
           \/ mine'[l].out = "stale" /\ ~CheckTemplateFreshness(mine[l]).fresh

MoveOK(l, m) == Shape(m) /\ OnTip(m) /\ KeepsBlock(l, m)

(* Only the call of l moves on. *)
Moves(l) ==
    /\ \E m : MoveOK(l, m) /\ mine' = [mine EXCEPT ![l] = m]
    /\ UNCHANGED <<tip, ctx>>

LEMMA MineInvSound == MineInv => TemplateSound /\ MiningTypeOK
<1> SUFFICES ASSUME MineInv PROVE TemplateSound /\ MiningTypeOK
  OBVIOUS
<1>1. TemplateFromOneTip
  BY DEF MineInv, Shape, Hashed, TemplateFromOneTip
<1>2. MinedInputsConnect
  BY DEF MineInv, OnTip, Templates, MinedInputsConnect
<1> QED  BY <1>1, <1>2 DEF TemplateSound, MineInv, MiningTypeOK

LEMMA MovesKeepsInv ==
    ASSUME MineInv, NEW l \in Loop, Moves(l)
    PROVE  MineInv'
<1>1. PICK m : MoveOK(l, m) /\ mine' = [mine EXCEPT ![l] = m]
  BY DEF Moves
<1>2. UNCHANGED <<tip, ctx>>
  BY DEF Moves
<1>3. mine' \in [Loop -> Call]
  BY <1>1 DEF MineInv, MoveOK, Shape
<1>4. \A k \in Loop : Shape(mine'[k]) /\ OnTip(mine'[k])
  BY <1>1 DEF MineInv, MoveOK
<1>5. \A k \in Loop : OnTip(mine'[k]) => OnTip(mine[k])'
  BY <1>2 DEF OnTip, InputsConnect, Spendable
<1>6. \A k \in Loop : Shape(mine'[k]) <=> Shape(mine[k])'
  BY DEF Shape
<1> QED  BY <1>2, <1>3, <1>4, <1>5, <1>6 DEF MineInv

(* FoundBlockNotLost, for a step in which only one call moves. *)
LEMMA MovesLosesNothing ==
    ASSUME MineInv, NEW l \in Loop, Moves(l)
    PROVE  NoBlockLost
<1>1. PICK m : MoveOK(l, m) /\ mine' = [mine EXCEPT ![l] = m]
  BY DEF Moves
<1>2. \A k \in Loop \ {l} : mine'[k] = mine[k]
  BY <1>1 DEF MineInv
<1>3. mine'[l] = m
  BY <1>1 DEF MineInv
<1> QED  BY <1>1, <1>2, <1>3 DEF NoBlockLost, MoveOK, KeepsBlock
-----------------------------------------------------------------------------
(* The template *)

(***************************************************************************)
(* NewBlockTemplate can always stop: the transactions that are buildable   *)
(* together, the union of all such sets, leave none that could be added.   *)
(***************************************************************************)
LEMMA SelectedSound ==
    ASSUME NEW pool \in SUBSET Tx, NEW height
    PROVE  /\ Selected(pool, height) \in SUBSET Tx
           /\ \A t \in Selected(pool, height) : Spendable(t, Selected(pool, height), height)
<1> DEFINE Good == {S \in SUBSET pool : \A t \in S : Spendable(t, S, height)}
           all == UNION Good
           Full(S) == /\ \A t \in S : templateTxIsBuildable(t, S, height)
                      /\ \A t \in pool \ S : ~templateTxIsBuildable(t, S, height)
<1>1. ASSUME NEW S, NEW T, S \subseteq T, NEW t, Spendable(t, S, height)
      PROVE  Spendable(t, T, height)
  BY <1>1 DEF Spendable
<1>2. all \in Good
  BY <1>1
<1>3. ASSUME NEW t \in pool \ all, Spendable(t, all, height)
      PROVE  FALSE
  <2>1. all \cup {t} \in Good
    BY <1>1, <1>2, <1>3
  <2>2. ASSUME NEW S \in Good PROVE S \subseteq all
    OBVIOUS
  <2> HIDE DEF Good, all
  <2>3. all \cup {t} \subseteq all
    BY <2>1, <2>2
  <2> QED  BY <1>3, <2>3
<1>4. all \in SUBSET pool /\ Full(all)
  BY <1>2, <1>3 DEF templateTxIsBuildable
<1>5. Selected(pool, height) = CHOOSE S \in SUBSET pool : Full(S)
  BY DEF Selected
<1> HIDE DEF Full, all, Good
<1>6. Selected(pool, height) \in SUBSET pool /\ Full(Selected(pool, height))
  BY <1>4, <1>5
<1> QED  BY <1>6 DEF Full, templateTxIsBuildable
-----------------------------------------------------------------------------
(* The steps of a call *)

(* What is known of the call that takes a step. *)
LEMMA CallKnown ==
    ASSUME MineInv, NEW l \in Loop
    PROVE  Shape(mine[l]) /\ OnTip(mine[l]) /\ tip.id \in 0..MaxTip
  BY DEF MineInv

LEMMA NoCallShape == Shape(NoCall) /\ NoCall \in Call
  BY MiningAssumption DEF Shape, NoCall, Call, Steps, Messages, Outcomes, Hashed

(* A call that returns has nothing left; its block must be accounted for. *)
LEMMA ReturnMoves ==
    ASSUME MineInv, NEW l \in Loop, NEW outcome \in Outcomes, Return(l, outcome),
           UNCHANGED <<tip, ctx>>,
           \/ ~HasBlock(mine[l])
           \/ outcome \in {"block", "badprev"}
           \/ outcome = "error" /\ mine[l].at = "connect" /\ ~WithinLimits(mine[l])
           \/ outcome = "cancelled" /\ ctx[l]
           \/ outcome = "stale" /\ ~CheckTemplateFreshness(mine[l]).fresh
    PROVE  Moves(l)
<1> DEFINE m == [NoCall EXCEPT !.out = outcome]
<1>1. m \in Call /\ m.out = outcome /\ m.at = "idle" /\ m.running = {} /\ m.resultc = "empty"
      /\ m.taken = "empty" /\ m.prev = 0
  BY NoCallShape DEF NoCall, Call
<1>2. mine' = [mine EXCEPT ![l] = m]
  BY DEF Return, Set
<1> HIDE DEF m
<1>3. Shape(m)
  BY <1>1 DEF Shape, Hashed
<1>4. OnTip(m)
  BY <1>1, CallKnown DEF OnTip, Templates
<1>5. KeepsBlock(l, m)
  BY <1>1 DEF KeepsBlock
<1> QED  BY <1>2, <1>3, <1>4, <1>5 DEF Moves, MoveOK

LEMMA StepReadTip ==
    ASSUME MineInv, NEW l \in Loop, mine[l] = NoCall, ReadTip(l)
    PROVE  Moves(l)
<1> DEFINE m == [NoCall EXCEPT !.at = "bits", !.prev = tip.id]
<1>0. tip.id \in 0..MaxTip
  BY CallKnown
<1>1. m \in Call /\ m.out = "none" /\ m.at = "bits" /\ m.running = {} /\ m.resultc = "empty"
      /\ m.taken = "empty" /\ m.prev = tip.id
  BY <1>0, NoCallShape DEF NoCall, Call, Steps
<1>2. mine' = [mine EXCEPT ![l] = m] /\ UNCHANGED <<tip, ctx>>
  BY DEF ReadTip, Set
<1> HIDE DEF m
<1>3. Shape(m)
  BY <1>1 DEF Shape, Hashed
<1>4. OnTip(m)
  BY <1>0, <1>1 DEF OnTip, Templates
<1>5. KeepsBlock(l, m)
  BY DEF KeepsBlock, HasBlock, NoCall
<1> QED  BY <1>2, <1>3, <1>4, <1>5 DEF Moves, MoveOK

LEMMA StepReadBits ==
    ASSUME MineInv, NEW l \in Loop, ReadBits(l)
    PROVE  Moves(l)
<1> DEFINE m == mine[l]
<1>1. Shape(m) /\ OnTip(m) /\ m.at = "bits" /\ tip.id \in 0..MaxTip
  BY CallKnown DEF ReadBits
<1>2. CASE Return(l, "error")
  <2>1. ~HasBlock(m)
    BY <1>1 DEF HasBlock, Shape
  <2> QED  BY <1>2, <2>1, ReturnMoves DEF ReadBits, Outcomes
<1>3. CASE Set(l, [m EXCEPT !.at = "txs", !.mixed = tip.id # m.prev])
  <2> DEFINE n == [m EXCEPT !.at = "txs", !.mixed = tip.id # m.prev]
  <2>1. n \in Call /\ n.at = "txs" /\ n.mixed = (tip.id # m.prev) /\ n.prev = m.prev /\ n.out = m.out
        /\ n.running = m.running /\ n.resultc = m.resultc /\ n.taken = m.taken
    BY <1>1 DEF Shape, Call, Steps
  <2>2. mine' = [mine EXCEPT ![l] = n] /\ UNCHANGED <<tip, ctx>>
    BY <1>3 DEF ReadBits, Set
  <2> HIDE DEF n
  <2>3. Shape(n)
    BY <1>1, <2>1 DEF Shape, Hashed
  <2>4. OnTip(n)
    BY <1>1, <2>1 DEF OnTip, Templates
  <2>5. KeepsBlock(l, n)
    BY <1>1, <2>1 DEF KeepsBlock, HasBlock
  <2> QED  BY <2>2, <2>3, <2>4, <2>5 DEF Moves, MoveOK
<1> QED  BY <1>2, <1>3 DEF ReadBits

LEMMA StepReadTxs ==
    ASSUME MineInv, NEW l \in Loop, ReadTxs(l)
    PROVE  Moves(l)
<1> DEFINE m == mine[l]
<1>1. Shape(m) /\ OnTip(m) /\ m.at = "txs" /\ tip.id \in 0..MaxTip
  BY CallKnown DEF ReadTxs
<1>2. PICK pool \in SUBSET Tx :
          Set(l, [m EXCEPT !.at = "fresh", !.mixed = m.mixed \/ tip.id # m.prev, !.block = Selected(pool, m.prev + 1)])
  BY DEF ReadTxs
<1> DEFINE block == Selected(pool, m.prev + 1)
           n == [m EXCEPT !.at = "fresh", !.mixed = m.mixed \/ tip.id # m.prev, !.block = block]
<1>3. block \in SUBSET Tx /\ \A t \in block : Spendable(t, block, m.prev + 1)
  BY SelectedSound
<1>4. mine' = [mine EXCEPT ![l] = n] /\ UNCHANGED <<tip, ctx>>
  BY <1>2 DEF ReadTxs, Set
<1> HIDE DEF block
<1>5. n \in Call /\ n.at = "fresh" /\ n.mixed = (m.mixed \/ tip.id # m.prev) /\ n.prev = m.prev /\ n.out = m.out
      /\ n.running = m.running /\ n.resultc = m.resultc /\ n.taken = m.taken /\ n.block = block
  BY <1>1, <1>3 DEF Shape, Call, Steps
<1> HIDE DEF n
<1>6. Shape(n)
  BY <1>1, <1>5 DEF Shape, Hashed
<1>7. InputsConnect(n)
  BY <1>3, <1>5 DEF InputsConnect
<1>8. OnTip(n)
  BY <1>1, <1>5, <1>7 DEF OnTip, Templates
<1>9. KeepsBlock(l, n)
  BY <1>1, <1>5 DEF KeepsBlock, HasBlock
<1> QED  BY <1>4, <1>6, <1>8, <1>9 DEF Moves, MoveOK

LEMMA StepStartWorkers ==
    ASSUME MineInv, NEW l \in Loop, StartWorkers(l)
    PROVE  Moves(l)
<1> DEFINE m == mine[l]
<1>1. Shape(m) /\ OnTip(m) /\ m.at = "fresh"
  BY CallKnown DEF StartWorkers
<1>2. CASE Return(l, "stale")
  <2>1. ~HasBlock(m)
    BY <1>1 DEF HasBlock, Shape
  <2> QED  BY <1>2, <2>1, ReturnMoves DEF StartWorkers, Outcomes
<1>3. CASE CheckTemplateFreshness(m).fresh /\ Set(l, [m EXCEPT !.at = "select", !.running = Worker])
  <2> DEFINE n == [m EXCEPT !.at = "select", !.running = Worker]
  <2>1. n \in Call /\ n.at = "select" /\ n.mixed = m.mixed /\ n.prev = m.prev /\ n.out = m.out
        /\ n.resultc = m.resultc /\ n.taken = m.taken /\ n.block = m.block
    BY <1>1 DEF Shape, Call, Steps
  <2>2. mine' = [mine EXCEPT ![l] = n] /\ UNCHANGED <<tip, ctx>>
    BY <1>3 DEF StartWorkers, Set
  <2>3. m.prev = tip.id
    BY <1>3 DEF CheckTemplateFreshness
  <2> HIDE DEF n
  <2>4. ~n.mixed /\ InputsConnect(n)
    BY <1>1, <2>1, <2>3 DEF OnTip, Templates, InputsConnect
  <2>5. Shape(n)
    BY <1>1, <2>1, <2>4 DEF Shape, Hashed
  <2>6. OnTip(n)
    BY <1>1, <2>1, <2>4 DEF OnTip, Templates
  <2>7. KeepsBlock(l, n)
    BY <1>1, <2>1 DEF KeepsBlock, HasBlock
  <2> QED  BY <2>2, <2>5, <2>6, <2>7 DEF Moves, MoveOK
<1> QED  BY <1>2, <1>3 DEF StartWorkers
(* A call with a template goes on with it and keeps its block. *)
LEMMA TemplateMoves ==
    ASSUME MineInv, NEW l \in Loop, NEW n, mine' = [mine EXCEPT ![l] = n], UNCHANGED <<tip, ctx>>,
           mine[l].at \in Templates, Shape(n),
           n.prev = mine[l].prev, n.mixed = mine[l].mixed, n.block = mine[l].block,
           HasBlock(mine[l]) => HasBlock(n)
    PROVE  Moves(l)
<1>1. OnTip(mine[l])
  BY CallKnown
<1>2. InputsConnect(n) <=> InputsConnect(mine[l])
  BY DEF InputsConnect
<1>3. OnTip(n)
  BY <1>1, <1>2 DEF OnTip
<1>4. KeepsBlock(l, n)
  BY DEF KeepsBlock
<1> QED  BY <1>3, <1>4 DEF Moves, MoveOK

Sent(m, msg, n) == n = TrySend(m, msg, TRUE) \/ n = TrySend(m, msg, FALSE)

(* What a send makes of a call, and that a block which was there stays. *)
LEMMA TrySendShape ==
    ASSUME NEW m, Shape(m), m.at \in {"select", "wait", "join"},
           NEW msg \in Messages \ {"empty"}, msg = "block" => m.prev < MaxTip,
           NEW sent, Sent(m, msg, sent)
    PROVE  /\ Shape(sent) /\ sent.at = m.at
           /\ sent.prev = m.prev /\ sent.mixed = m.mixed /\ sent.block = m.block
           /\ HasBlock(m) => HasBlock(sent)
<1>1. CASE m.resultc = "empty"
  <2> DEFINE n == [m EXCEPT !.resultc = msg, !.cancel = TRUE]
  <2>1. n \in Call /\ n.at = m.at /\ n.mixed = m.mixed /\ n.prev = m.prev /\ n.out = m.out
        /\ n.resultc = msg /\ n.taken = m.taken /\ n.block = m.block /\ n.running = m.running
    BY DEF Shape, Call
  <2>2. n = sent
    BY <1>1 DEF TrySend, Sent
  <2> HIDE DEF n
  <2>3. Shape(n)
    BY <2>1 DEF Shape, Hashed
  <2>4. HasBlock(m) => HasBlock(n)
    BY <1>1, <2>1 DEF HasBlock
  <2> QED  BY <2>1, <2>2, <2>3, <2>4
<1>2. CASE m.resultc # "empty"
  <2>0. PICK cancel \in BOOLEAN : sent = [m EXCEPT !.cancel = cancel]
    BY <1>2 DEF TrySend, Sent, Shape, Call
  <2> DEFINE n == [m EXCEPT !.cancel = cancel]
  <2>1. n \in Call /\ n.at = m.at /\ n.mixed = m.mixed /\ n.prev = m.prev /\ n.out = m.out
        /\ n.resultc = m.resultc /\ n.taken = m.taken /\ n.block = m.block /\ n.running = m.running
    BY DEF Shape, Call
  <2>2. n = sent
    BY <2>0
  <2> HIDE DEF n
  <2>3. Shape(n)
    BY <2>1 DEF Shape, Hashed
  <2>4. HasBlock(m) => HasBlock(n)
    BY <2>1 DEF HasBlock
  <2> QED  BY <2>1, <2>2, <2>3, <2>4
<1> QED  BY <1>1, <1>2

(* A worker is gone. *)
LEMMA WorkerGone ==
    ASSUME NEW m, Shape(m), m.at \in {"select", "wait", "join"}, NEW w,
           NEW n, n = [m EXCEPT !.running = m.running \ {w}]
    PROVE  /\ Shape(n) /\ n.prev = m.prev /\ n.mixed = m.mixed /\ n.block = m.block
           /\ HasBlock(m) => HasBlock(n)
<1>1. n \in Call /\ n.at = m.at /\ n.mixed = m.mixed /\ n.prev = m.prev /\ n.out = m.out
      /\ n.resultc = m.resultc /\ n.taken = m.taken /\ n.block = m.block
  BY DEF Shape, Call
<1>2. Shape(n)
  BY <1>1 DEF Shape, Hashed
<1>3. HasBlock(m) => HasBlock(n)
  BY <1>1 DEF HasBlock
<1> QED  BY <1>1, <1>2, <1>3

LEMMA StepWorker ==
    ASSUME MineInv, NEW l \in Loop, NEW w \in Worker, WorkerSends(l, w) \/ WorkerStops(l, w)
    PROVE  Moves(l)
<1> DEFINE m == mine[l]
<1>1. Shape(m) /\ w \in m.running /\ UNCHANGED <<tip, ctx>>
  BY CallKnown DEF WorkerSends, WorkerStops
<1>2. m.at \in {"select", "wait", "join"} /\ m.at \in Templates
  BY <1>1 DEF Shape, Templates
<1>3. CASE WorkerStops(l, w)
  <2> DEFINE n == [m EXCEPT !.running = m.running \ {w}]
  <2>1. /\ Shape(n) /\ n.prev = m.prev /\ n.mixed = m.mixed /\ n.block = m.block
        /\ HasBlock(m) => HasBlock(n)
    BY <1>1, <1>2, WorkerGone
  <2>2. mine' = [mine EXCEPT ![l] = n]
    BY <1>3 DEF WorkerStops, Set
  <2> HIDE DEF n
  <2> QED  BY <1>1, <1>2, <2>1, <2>2, TemplateMoves
<1>4. CASE WorkerSends(l, w)
  <2>1. PICK msg \in Findable(m) :
            Set(l, [TrySend(m, msg, FALSE) EXCEPT !.running = TrySend(m, msg, FALSE).running \ {w}])
    BY <1>4 DEF WorkerSends
  <2>2. msg \in Messages \ {"empty"} /\ (msg = "block" => m.prev < MaxTip)
    BY DEF Findable, Messages
  <2> DEFINE sent == TrySend(m, msg, FALSE)
             n == [sent EXCEPT !.running = sent.running \ {w}]
  <2>3. mine' = [mine EXCEPT ![l] = n]
    BY <2>1 DEF Set
  <2>4. Sent(m, msg, sent)
    BY DEF Sent
  <2> HIDE DEF sent
  <2>5. /\ Shape(sent) /\ sent.prev = m.prev /\ sent.mixed = m.mixed /\ sent.block = m.block
        /\ sent.at = m.at
        /\ HasBlock(m) => HasBlock(sent)
    BY <1>1, <1>2, <2>2, <2>4, TrySendShape
  <2>6. /\ Shape(n) /\ n.prev = sent.prev /\ n.mixed = sent.mixed /\ n.block = sent.block
        /\ HasBlock(sent) => HasBlock(n)
    BY <1>2, <2>5, WorkerGone
  <2> HIDE DEF n
  <2> QED  BY <1>1, <1>2, <2>3, <2>5, <2>6, TemplateMoves
<1> QED  BY <1>3, <1>4

LEMMA StepStaleTick ==
    ASSUME MineInv, NEW l \in Loop, StaleTick(l)
    PROVE  Moves(l)
<1> DEFINE m == mine[l]
<1>1. Shape(m) /\ m.at = "select" /\ m.at \in Templates /\ UNCHANGED <<tip, ctx>>
  BY CallKnown DEF StaleTick, Templates
<1>2. PICK msg \in {"refresh", "stale"} : Set(l, TrySend(m, msg, TRUE))
  BY DEF StaleTick
<1> DEFINE n == TrySend(m, msg, TRUE)
<1>3. msg \in Messages \ {"empty"} /\ msg # "block"
  BY DEF Messages
<1>4. mine' = [mine EXCEPT ![l] = n]
  BY <1>2 DEF Set
<1>5. Sent(m, msg, n)
  BY DEF Sent
<1> HIDE DEF n
<1>6. /\ Shape(n) /\ n.prev = m.prev /\ n.mixed = m.mixed /\ n.block = m.block
      /\ HasBlock(m) => HasBlock(n)
  BY <1>1, <1>3, <1>5, TrySendShape
<1> QED  BY <1>1, <1>4, <1>6, TemplateMoves

(* The result that lies in the channel is taken. *)
LEMMA TakeMoves ==
    ASSUME MineInv, NEW l \in Loop, NEW at \in {"join", "handle"},
           mine[l].at \in {"select", "wait"}, mine[l].resultc # "empty",
           at = "handle" => mine[l].running = {},
           Set(l, [mine[l] EXCEPT !.at = at, !.taken = mine[l].resultc, !.resultc = "empty"]),
           UNCHANGED <<tip, ctx>>
    PROVE  Moves(l)
<1> DEFINE m == mine[l]
           n == [m EXCEPT !.at = at, !.taken = m.resultc, !.resultc = "empty"]
<1>1. Shape(m) /\ m.at \in Templates
  BY CallKnown DEF Templates
<1>2. n \in Call /\ n.at = at /\ n.mixed = m.mixed /\ n.prev = m.prev /\ n.out = m.out
      /\ n.resultc = "empty" /\ n.taken = m.resultc /\ n.block = m.block /\ n.running = m.running
  BY <1>1 DEF Shape, Call, Steps, Messages
<1>3. mine' = [mine EXCEPT ![l] = n]
  BY DEF Set
<1> HIDE DEF n
<1>4. Shape(n)
  BY <1>1, <1>2 DEF Shape, Hashed
<1>5. HasBlock(m) => HasBlock(n)
  BY <1>1, <1>2 DEF HasBlock, Shape
<1> QED  BY <1>1, <1>2, <1>3, <1>4, <1>5, TemplateMoves

LEMMA StepSelectResult ==
    ASSUME MineInv, NEW l \in Loop, SelectResult(l)
    PROVE  Moves(l)
  BY TakeMoves DEF SelectResult

LEMMA StepSelectDone ==
    ASSUME MineInv, NEW l \in Loop, SelectDone(l)
    PROVE  Moves(l)
<1>1. Shape(mine[l]) /\ mine[l].at = "select" /\ mine[l].running = {} /\ UNCHANGED <<tip, ctx>>
  BY CallKnown DEF SelectDone
<1>2. CASE mine[l].resultc = "empty"
  <2>1. ~HasBlock(mine[l])
    BY <1>1, <1>2 DEF HasBlock, Shape
  <2> QED  BY <1>1, <1>2, <2>1, ReturnMoves DEF SelectDone, Outcomes
<1>3. CASE mine[l].resultc # "empty"
  BY <1>1, <1>3, TakeMoves DEF SelectDone
<1> QED  BY <1>2, <1>3

LEMMA StepCancelled ==
    ASSUME MineInv, NEW l \in Loop, Cancelled(l)
    PROVE  Moves(l)
<1>1. /\ Shape(mine[l]) /\ mine[l].at = "wait" /\ mine[l].running = {} /\ UNCHANGED <<tip, ctx>>
      /\ ctx[l] \in BOOLEAN
  BY CallKnown DEF Cancelled, MineInv
<1>2. CASE ctx[l] /\ Return(l, "cancelled")
  BY <1>1, <1>2, ReturnMoves DEF Outcomes
<1>3. CASE mine[l].resultc = "empty" /\ Return(l, "error")
  <2>1. ~HasBlock(mine[l])
    BY <1>1, <1>3 DEF HasBlock, Shape
  <2> QED  BY <1>1, <1>3, <2>1, ReturnMoves DEF Outcomes
<1>4. CASE /\ mine[l].resultc # "empty"
           /\ Set(l, [mine[l] EXCEPT !.at = "handle", !.taken = mine[l].resultc, !.resultc = "empty"])
  BY <1>1, <1>4, TakeMoves
<1> QED  BY <1>2, <1>3, <1>4 DEF Cancelled

(* Only the step of a call with a template changes. *)
LEMMA AtMoves ==
    ASSUME MineInv, NEW l \in Loop, NEW at,
           \/ mine[l].at = "select" /\ at = "wait"
           \/ mine[l].at = "join" /\ at = "handle" /\ mine[l].running = {}
           \/ mine[l].at = "handle" /\ at = "connect" /\ mine[l].taken = "block",
           Set(l, [mine[l] EXCEPT !.at = at]), UNCHANGED <<tip, ctx>>
    PROVE  Moves(l)
<1> DEFINE m == mine[l]
           n == [m EXCEPT !.at = at]
<1>1. Shape(m) /\ m.at \in Templates
  BY CallKnown DEF Templates
<1>2. n \in Call /\ n.at = at /\ n.mixed = m.mixed /\ n.prev = m.prev /\ n.out = m.out
      /\ n.resultc = m.resultc /\ n.taken = m.taken /\ n.block = m.block /\ n.running = m.running
  BY <1>1 DEF Shape, Call, Steps
<1>3. mine' = [mine EXCEPT ![l] = n]
  BY DEF Set
<1> HIDE DEF n
<1>4. Shape(n)
  BY <1>1, <1>2 DEF Shape, Hashed
<1>5. HasBlock(m) => HasBlock(n)
  BY <1>1, <1>2 DEF HasBlock
<1> QED  BY <1>1, <1>2, <1>3, <1>4, <1>5, TemplateMoves

LEMMA StepWaits ==
    ASSUME MineInv, NEW l \in Loop, SelectCancelled(l) \/ Joined(l)
    PROVE  Moves(l)
  BY AtMoves DEF SelectCancelled, Joined

LEMMA StepHandleResult ==
    ASSUME MineInv, NEW l \in Loop, HandleResult(l)
    PROVE  Moves(l)
<1>1. Shape(mine[l]) /\ mine[l].at = "handle" /\ UNCHANGED <<tip, ctx>>
  BY CallKnown DEF HandleResult
<1>2. mine[l].taken \in Messages \ {"empty"}
  BY <1>1 DEF Shape, Call
<1>3. CASE mine[l].taken \in {"failure", "stale", "refresh"}
  <2>1. ~HasBlock(mine[l])
    BY <1>3 DEF HasBlock
  <2>2. \E outcome \in Outcomes : Return(l, outcome)
    BY <1>3 DEF HandleResult, Outcomes
  <2> QED  BY <1>1, <2>1, <2>2, ReturnMoves
<1>4. CASE mine[l].taken = "block" /\ CheckTemplateFreshness(mine[l]).fresh
  BY <1>1, <1>4, AtMoves DEF HandleResult
<1>5. CASE mine[l].taken = "block" /\ ~CheckTemplateFreshness(mine[l]).fresh
  BY <1>1, <1>5, ReturnMoves DEF HandleResult, Outcomes
<1> QED  BY <1>2, <1>3, <1>4, <1>5 DEF Messages

LEMMA StepAge ==
    ASSUME MineInv, NEW l \in Loop, Age(l)
    PROVE  Moves(l)
<1> DEFINE m == mine[l]
<1>1. Shape(m) /\ m.at \in Templates /\ UNCHANGED <<tip, ctx>>
  BY CallKnown DEF Age, Shape, Call, Steps, Templates
<1>2. PICK age \in {"soft", "hard"} : Set(l, [m EXCEPT !.age = age])
  BY DEF Age
<1> DEFINE n == [m EXCEPT !.age = age]
<1>3. n \in Call /\ n.at = m.at /\ n.mixed = m.mixed /\ n.prev = m.prev /\ n.out = m.out
      /\ n.resultc = m.resultc /\ n.taken = m.taken /\ n.block = m.block /\ n.running = m.running
  BY <1>1 DEF Shape, Call
<1>4. mine' = [mine EXCEPT ![l] = n]
  BY <1>2 DEF Set
<1> HIDE DEF n
<1>5. Shape(n)
  BY <1>1, <1>3 DEF Shape, Hashed
<1>6. HasBlock(m) => HasBlock(n)
  BY <1>3 DEF HasBlock
<1> QED  BY <1>1, <1>3, <1>4, <1>5, <1>6, TemplateMoves
(***************************************************************************)
(* A new tip: no call under way can extend it, and the one that made it    *)
(* has returned.                                                           *)
(***************************************************************************)
LEMMA NewTipKeepsInv ==
    ASSUME MineInv, tip' \in [id : 0..MaxTip, confirmed : SUBSET Tx], tip'.id > tip.id,
           UNCHANGED ctx, mine' \in [Loop -> Call],
           \A l \in Loop : mine'[l] = mine[l] \/ (Shape(mine'[l]) /\ mine'[l].prev = 0 /\ mine'[l].at = "idle")
    PROVE  MineInv'
<1>1. ASSUME NEW l \in Loop
      PROVE  Shape(mine'[l]) /\ mine'[l].prev \in Int /\ (mine'[l].prev < tip'.id \/ mine'[l].at = "idle")
             /\ mine'[l].prev <= tip'.id
  <2>1. CASE mine'[l] = mine[l]
    BY <2>1, CallKnown, MiningAssumption DEF OnTip, Shape, Call
  <2>2. CASE mine'[l] # mine[l]
    BY <2>2, MiningAssumption
  <2> QED  BY <2>1, <2>2
<1>2. \A l \in Loop : OnTip(mine[l])'
  BY <1>1, MiningAssumption DEF OnTip, Templates
<1>3. \A l \in Loop : Shape(mine[l])'
  BY <1>1 DEF Shape
<1> QED  BY <1>2, <1>3 DEF MineInv

LEMMA StepNewTip ==
    ASSUME MineInv, NewTip
    PROVE  MineInv' /\ NoBlockLost
<1>1. tip.id \in 0..MaxTip /\ tip.id < MaxTip /\ UNCHANGED <<ctx, mine>>
  BY DEF MineInv, NewTip
<1>2. PICK S \in SUBSET Tx : tip' = [id |-> tip.id + 1, confirmed |-> S]
  BY DEF NewTip
<1>3. tip' \in [id : 0..MaxTip, confirmed : SUBSET Tx] /\ tip'.id > tip.id
  BY <1>1, <1>2, MiningAssumption
<1>4. MineInv'
  BY <1>1, <1>3, NewTipKeepsInv DEF MineInv
<1> QED  BY <1>1, <1>4 DEF NoBlockLost

(* A mined block that extends the tip is refused for a limit of its size or time only. *)
LEMMA StepConnect ==
    ASSUME MineInv, NEW l \in Loop, Connect(l)
    PROVE  MineInv' /\ NoBlockLost /\ \A k \in Loop \ {l} : mine'[k] = mine[k]
<1> DEFINE m == mine[l]
<1>1. Shape(m) /\ OnTip(m) /\ m.at = "connect" /\ tip.id \in 0..MaxTip /\ UNCHANGED ctx
  BY CallKnown DEF Connect
<1>2. CASE m.prev # tip.id
  <2>1. Moves(l)
    BY <1>1, <1>2, ReturnMoves DEF Connect, Outcomes
  <2> QED  BY <2>1, MovesKeepsInv, MovesLosesNothing DEF Moves, MineInv
<1>3. CASE m.prev = tip.id /\ ~WithinLimits(m)
  <2>1. Return(l, "error") /\ UNCHANGED tip
    BY <1>1, <1>3 DEF Connect, BlockValid
  <2>2. Moves(l)
    BY <1>1, <1>3, <2>1, ReturnMoves DEF Outcomes
  <2> QED  BY <2>2, MovesKeepsInv, MovesLosesNothing DEF Moves, MineInv
<1>4. CASE m.prev = tip.id /\ WithinLimits(m)
  <2>1. BlockValid(m)
    BY <1>1, <1>4 DEF OnTip, Templates, BlockValid
  <2>2. Return(l, "block") /\ tip' = [id |-> tip.id + 1, confirmed |-> tip.confirmed \cup m.block]
    BY <1>1, <1>4, <2>1 DEF Connect
  <2> DEFINE n == [NoCall EXCEPT !.out = "block"]
  <2>3. n \in Call /\ n.out = "block" /\ n.at = "idle" /\ n.running = {} /\ n.resultc = "empty"
        /\ n.taken = "empty" /\ n.prev = 0
    BY NoCallShape DEF NoCall, Call, Outcomes
  <2>4. mine' = [mine EXCEPT ![l] = n]
    BY <2>2 DEF Return, Set
  <2> HIDE DEF n
  <2>5. Shape(n)
    BY <2>3 DEF Shape, Hashed
  <2>6. mine' \in [Loop -> Call] /\ mine'[l] = n /\ \A k \in Loop \ {l} : mine'[k] = mine[k]
    BY <2>3, <2>4 DEF MineInv
  <2>7. m.prev < MaxTip
    BY <1>1 DEF Shape
  <2>8. m.block \in SUBSET Tx /\ tip.confirmed \in SUBSET Tx
    BY <1>1 DEF Shape, Call, MineInv
  <2>9. tip' \in [id : 0..MaxTip, confirmed : SUBSET Tx] /\ tip'.id > tip.id
    BY <1>1, <1>4, <2>2, <2>7, <2>8, MiningAssumption
  <2>10. MineInv'
    BY <1>1, <2>3, <2>5, <2>6, <2>9, NewTipKeepsInv
  <2>11. NoBlockLost
    BY <2>3, <2>6 DEF NoBlockLost
  <2> QED  BY <2>6, <2>10, <2>11
<1> QED  BY <1>2, <1>3, <1>4

(* All that a call does to the calls and the chain. *)
MiningGoesOn(l) == MineInv' /\ NoBlockLost /\ \A k \in Loop \ {l} : mine'[k] = mine[k]

LEMMA MovesGoesOn ==
    ASSUME MineInv, NEW l \in Loop, Moves(l)
    PROVE  MiningGoesOn(l)
  BY MovesKeepsInv, MovesLosesNothing DEF Moves, MiningGoesOn, MineInv

LEMMA StepMine ==
    ASSUME MineInv, NEW l \in Loop, MineStep(l)
    PROVE  MiningGoesOn(l)
<1>1. CASE Connect(l)
  BY <1>1, StepConnect DEF MiningGoesOn
<1>2. CASE ~Connect(l)
  <2>1. Moves(l)
    BY <1>2, StepReadBits, StepReadTxs, StepStartWorkers, StepWorker, StepSelectResult, StepSelectDone,
       StepWaits, StepCancelled, StepHandleResult DEF MineStep
  <2> QED  BY <2>1, MovesGoesOn
<1> QED  BY <1>1, <1>2

LEMMA MineIsolated ==
    ASSUME MineInv, UNCHANGED <<tip, mine>>, ctx' \in [Loop -> BOOLEAN]
    PROVE  MineInv' /\ NoBlockLost
<1>1. \A l \in Loop : Shape(mine[l])' /\ OnTip(mine[l])'
  BY DEF MineInv, Shape, OnTip, InputsConnect, Spendable
<1> QED  BY <1>1 DEF MineInv, NoBlockLost

(* A call that is over has no block left when its outcome is looked at. *)
LEMMA StepReturned ==
    ASSUME MineInv, NEW l \in Loop, mine[l].out # "none", mine' = [mine EXCEPT ![l] = NoCall],
           UNCHANGED <<tip, ctx>>
    PROVE  MiningGoesOn(l) /\ mine'[l] = NoCall
<1>1. ~HasBlock(mine[l])
  BY CallKnown DEF HasBlock, Shape
<1>2. OnTip(NoCall)
  BY CallKnown DEF OnTip, NoCall, Templates
<1>3. Moves(l)
  BY <1>1, <1>2, NoCallShape DEF Moves, MoveOK, KeepsBlock
<1> QED  BY <1>3, MovesGoesOn DEF MineInv
-----------------------------------------------------------------------------
(* The supervisor *)

(* A loop in one of these steps has been started and has not yet told the  *)
(* wait group that it is done.                                             *)
LiveSteps == LoopSteps \ {"unused", "reserved", "exiting", "over"}
Live == {l \in Loop : loop[l] \in LiveSteps}

SupTypes ==
    /\ miner \in MinerFields
    /\ enabled \in BOOLEAN
    /\ loop \in [Loop -> LoopSteps] /\ exit \in [Loop -> Reasons]
    /\ call \in [Caller -> Calls]

(* Only a loop that mines has a call of MineBlock. *)
MinesWhenMining == \A l \in Loop : loop[l] # "mining" => mine[l] = NoCall

WaitGroupExact == IsFiniteSet(Live) /\ wg = Cardinality(Live)

(* A loop that is reserved is spawned by one request. *)
SpawnsReserved ==
    /\ \A c \in Caller : call[c].at = "spawn" => call[c].loop \in Loop /\ loop[call[c].loop] = "reserved"
    /\ \A c, d \in Caller : call[c].at = "spawn" /\ call[d].at = "spawn" /\ call[c].loop = call[d].loop => c = d

SupInv == MineInv /\ SupTypes /\ MinesWhenMining /\ WaitGroupExact /\ SpawnsReserved /\ ActiveHasLoop

(* A field that getminerstatus reads may change, but not whose session it is. *)
SameSession == miner' \in MinerFields /\ miner'.active = miner.active /\ miner'.cancel = miner.cancel

LEMMA SupInvSound == SupInv => TemplateSound /\ TypeOK /\ ActiveHasLoop
<1>1. SupInv => wg \in Nat
  BY FS_CardinalityType DEF SupInv, WaitGroupExact
<1> QED  BY <1>1, MineInvSound DEF SupInv, SupTypes, TypeOK

(***************************************************************************)
(* A loop goes on from one step to another before it tells the wait group. *)
(***************************************************************************)
LEMMA LoopGoesOn ==
    ASSUME SupInv, NEW l \in Loop, NEW step \in LiveSteps, loop[l] \in LiveSteps, Goto(l, step),
           MiningGoesOn(l), step = "mining" \/ mine'[l] = NoCall,
           exit' \in [Loop -> Reasons], SameSession, UNCHANGED <<enabled, wg, call>>
    PROVE  SupInv' /\ NoBlockLost
<1>1. /\ loop' \in [Loop -> LoopSteps] /\ loop'[l] = step
      /\ \A k \in Loop \ {l} : loop'[k] = loop[k] /\ mine'[k] = mine[k]
      /\ loop \in [Loop -> LoopSteps]
  BY DEF Goto, SupInv, SupTypes, LiveSteps, MiningGoesOn
<1>2. SupTypes'
  BY <1>1 DEF SupInv, SupTypes, SameSession
<1>3. MinesWhenMining'
  BY <1>1 DEF SupInv, MinesWhenMining
<1>4. Live' = Live
  BY <1>1 DEF Live
<1>5. WaitGroupExact'
  BY <1>4 DEF SupInv, WaitGroupExact
<1>6. SpawnsReserved'
  BY <1>1 DEF SupInv, SpawnsReserved, LiveSteps
<1>7. ActiveHasLoop'
  BY <1>1 DEF SupInv, ActiveHasLoop, SameSession, LiveSteps
<1> QED  BY <1>2, <1>3, <1>5, <1>6, <1>7 DEF SupInv, MiningGoesOn

(* The same, away from MineBlock. *)
LEMMA LoopElsewhere ==
    ASSUME SupInv, NEW l \in Loop, NEW step \in LiveSteps, loop[l] \in LiveSteps \ {"mining"}, Goto(l, step),
           UNCHANGED miningVars, exit' \in [Loop -> Reasons], SameSession, UNCHANGED <<enabled, wg, call>>
    PROVE  SupInv' /\ NoBlockLost
<1>1. mine[l] = NoCall
  BY DEF SupInv, MinesWhenMining
<1>2. MiningGoesOn(l)
  BY MineIsolated DEF miningVars, SupInv, MiningGoesOn, MineInv
<1> QED  BY <1>1, <1>2, LoopGoesOn DEF miningVars

LEMMA ExitTyped ==
    ASSUME SupInv, NEW l \in Loop, NEW r \in Reasons, exit' = [exit EXCEPT ![l] = r]
    PROVE  exit' \in [Loop -> Reasons]
  BY DEF SupInv, SupTypes

(* The fields a loop writes on its way. *)
LEMMA HashingOnly ==
    ASSUME SupInv, NEW h \in BOOLEAN, miner' = [miner EXCEPT !.hashing = h]
    PROVE  SameSession
  BY DEF SupInv, SupTypes, MinerFields, SameSession

LEMMA RecoveringOnly ==
    ASSUME SupInv, NEW r \in BOOLEAN, miner' = [miner EXCEPT !.recovering = r]
    PROVE  SameSession
  BY DEF SupInv, SupTypes, MinerFields, SameSession

LEMMA HashingRecovering ==
    ASSUME SupInv, NEW h \in BOOLEAN, NEW r \in BOOLEAN,
           miner' = [miner EXCEPT !.hashing = h, !.recovering = r]
    PROVE  SameSession
  BY DEF SupInv, SupTypes, MinerFields, SameSession

LEMMA HashingStopped ==
    ASSUME SupInv, NEW r \in Reasons, miner' = [miner EXCEPT !.hashing = FALSE, !.lastStop = r]
    PROVE  SameSession
  BY DEF SupInv, SupTypes, MinerFields, SameSession

LEMMA MinerUnchanged ==
    ASSUME SupInv, UNCHANGED miner
    PROVE  SameSession
  BY DEF SupInv, SupTypes, SameSession
-----------------------------------------------------------------------------
(* The steps of a loop *)

LEMMA StepLoopTop ==
    ASSUME SupInv, NEW l \in Loop, LoopTop(l)
    PROVE  SupInv' /\ NoBlockLost
<1>1. loop[l] = "top" /\ UNCHANGED <<miningVars, miner, enabled, wg, call>>
  BY DEF LoopTop
<1>2. PICK step \in {"exit", "limit"} : Goto(l, step)
  BY DEF LoopTop, Exit
<1>3. exit' \in [Loop -> Reasons]
  BY ExitTyped DEF LoopTop, Exit, Reasons, SupInv, SupTypes
<1> QED  BY <1>1, <1>2, <1>3, LoopElsewhere, MinerUnchanged DEF LiveSteps, LoopSteps

LEMMA StepLoopLimit ==
    ASSUME SupInv, NEW l \in Loop, LoopLimit(l)
    PROVE  SupInv' /\ NoBlockLost
<1>1. loop[l] = "limit" /\ UNCHANGED <<miningVars, enabled, wg, call>>
  BY DEF LoopLimit
<1>2. PICK step \in {"exit", "peers"} : Goto(l, step)
  BY DEF LoopLimit, Exit
<1>3. exit' \in [Loop -> Reasons]
  BY ExitTyped DEF LoopLimit, Exit, Reasons, SupInv, SupTypes
<1>4. SameSession
  BY HashingStopped, MinerUnchanged DEF LoopLimit, Reasons
<1> QED  BY <1>1, <1>2, <1>3, <1>4, LoopElsewhere DEF LiveSteps, LoopSteps

LEMMA StepLoopPeers ==
    ASSUME SupInv, NEW l \in Loop, LoopPeers(l)
    PROVE  SupInv' /\ NoBlockLost
<1>1. loop[l] = "peers" /\ UNCHANGED <<miningVars, enabled, wg, call>>
  BY DEF LoopPeers
<1>2. PICK step \in {"paused", "storage"} : Goto(l, step)
  BY DEF LoopPeers, Pause
<1>3. exit' \in [Loop -> Reasons]
  BY ExitTyped DEF LoopPeers, Reasons, SupInv, SupTypes
<1>4. SameSession
  BY HashingOnly, MinerUnchanged DEF LoopPeers, Pause
<1> QED  BY <1>1, <1>2, <1>3, <1>4, LoopElsewhere DEF LiveSteps, LoopSteps

LEMMA StepLoopStorage ==
    ASSUME SupInv, NEW l \in Loop, LoopStorage(l)
    PROVE  SupInv' /\ NoBlockLost
<1>1. loop[l] = "storage" /\ UNCHANGED <<miningVars, enabled, wg, call>>
  BY DEF LoopStorage
<1>2. PICK step \in {"exit", "safety"} : Goto(l, step)
  BY DEF LoopStorage, Exit
<1>3. exit' \in [Loop -> Reasons]
  BY ExitTyped DEF LoopStorage, Exit, Reasons, SupInv, SupTypes
<1>4. SameSession
  BY HashingStopped, MinerUnchanged DEF LoopStorage, Reasons
<1> QED  BY <1>1, <1>2, <1>3, <1>4, LoopElsewhere DEF LiveSteps, LoopSteps

LEMMA StepLoopSafety ==
    ASSUME SupInv, NEW l \in Loop, LoopSafety(l)
    PROVE  SupInv' /\ NoBlockLost
<1>1. loop[l] = "safety" /\ UNCHANGED <<miningVars, enabled, wg, call>>
  BY DEF LoopSafety
<1>2. PICK step \in {"epoch", "paused", "highstale"} : Goto(l, step)
  BY DEF LoopSafety, Pause
<1>3. exit' \in [Loop -> Reasons]
  BY ExitTyped DEF LoopSafety, Reasons, SupInv, SupTypes
<1>4. SameSession
  BY HashingOnly, HashingRecovering, MinerUnchanged DEF LoopSafety, Pause
<1> QED  BY <1>1, <1>2, <1>3, <1>4, LoopElsewhere DEF LiveSteps, LoopSteps

LEMMA StepLoopResumes ==
    ASSUME SupInv, NEW l \in Loop, LoopResumes(l)
    PROVE  SupInv' /\ NoBlockLost
<1>1. /\ loop[l] \in {"paused", "highstale", "retry"} /\ Goto(l, "top")
      /\ UNCHANGED <<miningVars, enabled, wg, exit, call>>
  BY DEF LoopResumes
<1>2. SameSession
  BY DEF LoopResumes, SupInv, SupTypes, MinerFields, SameSession
<1>3. exit' \in [Loop -> Reasons]
  BY <1>1 DEF SupInv, SupTypes
<1> QED  BY <1>1, <1>2, <1>3, LoopElsewhere DEF LiveSteps, LoopSteps

LEMMA StepLoopPauseCancelled ==
    ASSUME SupInv, NEW l \in Loop, LoopPauseCancelled(l)
    PROVE  SupInv' /\ NoBlockLost
<1>1. /\ loop[l] \in {"paused", "highstale", "retry"} /\ Goto(l, "exit")
      /\ UNCHANGED <<miningVars, miner, enabled, wg, exit, call>>
  BY DEF LoopPauseCancelled
<1>2. exit' \in [Loop -> Reasons]
  BY <1>1 DEF SupInv, SupTypes
<1> QED  BY <1>1, <1>2, LoopElsewhere, MinerUnchanged DEF LiveSteps, LoopSteps

LEMMA StepLoopEpoch ==
    ASSUME SupInv, NEW l \in Loop, LoopEpoch(l)
    PROVE  SupInv' /\ NoBlockLost
<1>1. /\ loop[l] = "epoch" /\ Goto(l, "mining") /\ ReadTip(l)
      /\ miner' = [miner EXCEPT !.recovering = FALSE, !.hashing = TRUE]
      /\ UNCHANGED <<enabled, wg, exit, call>>
  BY DEF LoopEpoch
<1>2. mine[l] = NoCall
  BY <1>1 DEF SupInv, MinesWhenMining
<1>3. MiningGoesOn(l)
  BY <1>1, <1>2, StepReadTip, MovesGoesOn DEF SupInv
<1>4. SameSession
  BY <1>1 DEF SupInv, SupTypes, MinerFields, SameSession
<1>5. exit' \in [Loop -> Reasons]
  BY <1>1 DEF SupInv, SupTypes
<1> QED  BY <1>1, <1>3, <1>4, <1>5, LoopGoesOn DEF LiveSteps, LoopSteps

(* A call of MineBlock takes a step while its loop waits for it. *)
LEMMA StepInCall ==
    ASSUME SupInv, NEW l \in Loop, loop[l] = "mining", MiningGoesOn(l), SameSession,
           UNCHANGED <<enabled, wg, loop, exit, call>>
    PROVE  SupInv' /\ NoBlockLost
<1>1. MinesWhenMining'
  BY DEF SupInv, MinesWhenMining, MiningGoesOn
<1>2. SupTypes'
  BY DEF SupInv, SupTypes, SameSession
<1>3. WaitGroupExact' /\ SpawnsReserved' /\ ActiveHasLoop'
  BY DEF SupInv, WaitGroupExact, Live, SpawnsReserved, ActiveHasLoop, SameSession
<1> QED  BY <1>1, <1>2, <1>3 DEF SupInv, MiningGoesOn

LEMMA StepLoopMines ==
    ASSUME SupInv, NEW l \in Loop, LoopMines(l)
    PROVE  SupInv' /\ NoBlockLost
<1>1. loop[l] = "mining" /\ MineStep(l) /\ UNCHANGED svars
  BY DEF LoopMines
<1>2. MiningGoesOn(l)
  BY <1>1, StepMine DEF SupInv
<1> QED  BY <1>1, <1>2, StepInCall, MinerUnchanged DEF svars

LEMMA StepLoopProgress ==
    ASSUME SupInv, NEW l \in Loop, LoopProgress(l)
    PROVE  SupInv' /\ NoBlockLost
<1>1. /\ loop[l] = "mining" /\ miner' = [miner EXCEPT !.recovering = FALSE]
      /\ UNCHANGED <<miningVars, enabled, wg, loop, exit, call>>
  BY DEF LoopProgress
<1>2. MiningGoesOn(l)
  BY <1>1, MineIsolated DEF miningVars, SupInv, MineInv, MiningGoesOn
<1> QED  BY <1>1, <1>2, StepInCall, RecoveringOnly

(***************************************************************************)
(* MineBlock has returned: whatever the outcome, the loop goes on to one   *)
(* of its other steps.                                                     *)
(***************************************************************************)
LEMMA StepOutcome ==
    ASSUME SupInv, NEW l \in Loop, NEW outcomes, "none" \notin outcomes, Returned(l, outcomes),
           NEW step \in {"exit", "top", "retry", "announce"}, Goto(l, step),
           exit' \in [Loop -> Reasons], SameSession
    PROVE  SupInv' /\ NoBlockLost
<1>1. /\ loop[l] = "mining" /\ mine[l].out # "none" /\ mine' = [mine EXCEPT ![l] = NoCall]
      /\ UNCHANGED <<tip, ctx, enabled, wg, call>>
  BY DEF Returned
<1>2. MiningGoesOn(l) /\ mine'[l] = NoCall
  BY <1>1, StepReturned DEF SupInv
<1> QED  BY <1>1, <1>2, LoopGoesOn DEF LiveSteps, LoopSteps
LEMMA StepLoopReturns ==
    ASSUME SupInv, NEW l \in Loop,
           LoopCancelled(l) \/ LoopRefresh(l) \/ LoopStale(l) \/ LoopFound(l)
    PROVE  SupInv' /\ NoBlockLost
<1>1. CASE LoopCancelled(l)
  <2>1. exit' \in [Loop -> Reasons]
    BY <1>1, ExitTyped DEF LoopCancelled, Exit, Reasons
  <2>2. SameSession
    BY <1>1, HashingOnly DEF LoopCancelled
  <2> QED  BY <1>1, <2>1, <2>2, StepOutcome DEF LoopCancelled, Exit
<1>2. CASE LoopRefresh(l)
  <2>1. exit' \in [Loop -> Reasons]
    BY <1>2 DEF LoopRefresh, SupInv, SupTypes
  <2>2. SameSession
    BY <1>2 DEF LoopRefresh, SupInv, SupTypes, MinerFields, SameSession
  <2> QED  BY <1>2, <2>1, <2>2, StepOutcome DEF LoopRefresh
<1>3. CASE LoopStale(l)
  <2>1. exit' \in [Loop -> Reasons]
    BY <1>3, ExitTyped DEF LoopStale, Reasons
  <2>2. SameSession
    BY <1>3, HashingRecovering DEF LoopStale
  <2> QED  BY <1>3, <2>1, <2>2, StepOutcome DEF LoopStale
<1>4. CASE LoopFound(l)
  <2>1. exit' \in [Loop -> Reasons]
    BY <1>4 DEF LoopFound, SupInv, SupTypes
  <2>2. SameSession
    BY <1>4, HashingOnly DEF LoopFound
  <2> QED  BY <1>4, <2>1, <2>2, StepOutcome DEF LoopFound
<1> QED  BY <1>1, <1>2, <1>3, <1>4

LEMMA StepLoopBadPrev ==
    ASSUME SupInv, NEW l \in Loop, LoopBadPrev(l)
    PROVE  SupInv' /\ NoBlockLost
<1>1. exit' \in [Loop -> Reasons]
  BY DEF LoopBadPrev, SupInv, SupTypes
<1> DEFINE stale == miner.stale + 1
           m == [miner EXCEPT !.hashing = FALSE, !.stale = stale]
           paused == [m EXCEPT !.staleRatePause = TRUE]
<1>0. stale \in Nat
  BY DEF SupInv, SupTypes, MinerFields
<1>3. miner' = m \/ miner' = paused
  BY DEF LoopBadPrev
<1> HIDE DEF stale
<1>2. m \in MinerFields /\ m.active = miner.active /\ m.cancel = miner.cancel
  BY <1>0 DEF SupInv, SupTypes, MinerFields
<1> HIDE DEF m
<1>4. paused \in MinerFields /\ paused.active = m.active /\ paused.cancel = m.cancel
  BY <1>2 DEF MinerFields
<1>5. SameSession
  BY <1>2, <1>3, <1>4 DEF SameSession
<1> QED  BY <1>1, <1>5, StepOutcome DEF LoopBadPrev

LEMMA StepLoopFailed ==
    ASSUME SupInv, NEW l \in Loop, LoopFailed(l)
    PROVE  SupInv' /\ NoBlockLost
<1>1. exit' \in [Loop -> Reasons]
  BY ExitTyped DEF LoopFailed, Reasons
<1>2. CASE miner.recovering
  BY <1>1, <1>2, HashingOnly, StepOutcome DEF LoopFailed
<1>3. CASE ~miner.recovering
  <2> DEFINE n == IF miner.rejected < MaxRejected THEN miner.rejected + 1 ELSE miner.rejected
  <2>1. n \in Nat
    BY DEF SupInv, SupTypes, MinerFields
  <2>2. miner' = [miner EXCEPT !.hashing = FALSE, !.rejected = n]
    BY <1>3 DEF LoopFailed
  <2> HIDE DEF n
  <2>3. SameSession
    BY <2>1, <2>2 DEF SupInv, SupTypes, MinerFields, SameSession
  <2> QED  BY <1>1, <2>3, StepOutcome DEF LoopFailed
<1> QED  BY <1>2, <1>3

LEMMA StepLoopAccepted ==
    ASSUME SupInv, NEW l \in Loop, LoopAccepted(l)
    PROVE  SupInv' /\ NoBlockLost
<1>1. /\ loop[l] = "announce" /\ Goto(l, "top")
      /\ miner' = [miner EXCEPT !.blocks = miner.blocks + 1, !.staleRatePause = FALSE, !.recovering = TRUE]
      /\ UNCHANGED <<miningVars, enabled, wg, exit, call>>
  BY DEF LoopAccepted
<1> DEFINE blocks == miner.blocks + 1
<1>2. blocks \in Nat
  BY DEF SupInv, SupTypes, MinerFields
<1>3. miner' = [miner EXCEPT !.blocks = blocks, !.staleRatePause = FALSE, !.recovering = TRUE]
  BY <1>1
<1> HIDE DEF blocks
<1>4. SameSession
  BY <1>2, <1>3 DEF SupInv, SupTypes, MinerFields, SameSession
<1>5. exit' \in [Loop -> Reasons]
  BY <1>1 DEF SupInv, SupTypes
<1> QED  BY <1>1, <1>4, <1>5, LoopElsewhere DEF LiveSteps, LoopSteps

(* The calls and the chain stay as they are. *)
LEMMA MiningRests ==
    ASSUME SupInv, UNCHANGED miningVars
    PROVE  MineInv' /\ NoBlockLost
  BY MineIsolated DEF miningVars, SupInv, MineInv

LEMMA StepLoopDone ==
    ASSUME SupInv, NEW l \in Loop, LoopDone(l)
    PROVE  SupInv' /\ NoBlockLost
<1>1. /\ loop[l] = "exit" /\ wg' = wg - 1 /\ Goto(l, "exiting")
      /\ UNCHANGED <<miningVars, miner, enabled, exit, call>>
  BY DEF LoopDone
<1>2. /\ loop' \in [Loop -> LoopSteps] /\ loop'[l] = "exiting"
      /\ \A k \in Loop \ {l} : loop'[k] = loop[k]
  BY <1>1 DEF Goto, SupInv, SupTypes, LoopSteps
<1>3. SupTypes'
  BY <1>1, <1>2 DEF SupInv, SupTypes
<1>4. MinesWhenMining'
  BY <1>1, <1>2 DEF SupInv, MinesWhenMining, miningVars
<1>5. WaitGroupExact'
  <2>1. Live' = Live \ {l} /\ l \in Live
    BY <1>1, <1>2 DEF Live, LiveSteps, LoopSteps
  <2> QED  BY <1>1, <2>1, FS_RemoveElement DEF SupInv, WaitGroupExact
<1>6. SpawnsReserved'
  BY <1>1, <1>2 DEF SupInv, SpawnsReserved
<1>7. ActiveHasLoop'
  BY <1>1, <1>2 DEF SupInv, ActiveHasLoop
<1> QED  BY <1>1, <1>3, <1>4, <1>5, <1>6, <1>7, MiningRests DEF SupInv

LEMMA StepLoopCleanup ==
    ASSUME SupInv, NEW l \in Loop, LoopCleanup(l)
    PROVE  SupInv' /\ NoBlockLost
<1>1. loop[l] = "exiting" /\ Goto(l, "over") /\ UNCHANGED <<miningVars, enabled, wg, exit, call>>
  BY DEF LoopCleanup
<1>2. /\ loop' \in [Loop -> LoopSteps] /\ loop'[l] = "over"
      /\ \A k \in Loop \ {l} : loop'[k] = loop[k]
  BY <1>1 DEF Goto, SupInv, SupTypes, LoopSteps
<1>3. PICK reason \in Reasons :
          miner' = [miner EXCEPT !.active = FALSE, !.hashing = FALSE, !.cancel = NoLoop,
                                 !.requested = "none", !.lastStop = reason]
  BY DEF LoopCleanup, SupInv, SupTypes, MinerFields
<1>4. miner' \in MinerFields /\ ~miner'.active
  BY <1>3 DEF SupInv, SupTypes, MinerFields, Reasons
<1>5. SupTypes'
  BY <1>1, <1>2, <1>4 DEF SupInv, SupTypes
<1>6. MinesWhenMining'
  BY <1>1, <1>2 DEF SupInv, MinesWhenMining, miningVars
<1>7. Live' = Live
  BY <1>1, <1>2 DEF Live, LiveSteps
<1>8. WaitGroupExact'
  BY <1>1, <1>7 DEF SupInv, WaitGroupExact
<1>9. SpawnsReserved' /\ ActiveHasLoop'
  BY <1>1, <1>2, <1>4 DEF SupInv, SpawnsReserved, ActiveHasLoop
<1> QED  BY <1>1, <1>5, <1>6, <1>8, <1>9, MiningRests DEF SupInv

LEMMA StepLoop ==
    ASSUME SupInv, NEW l \in Loop, LoopStep(l)
    PROVE  SupInv' /\ NoBlockLost
  BY StepLoopTop, StepLoopLimit, StepLoopPeers, StepLoopStorage, StepLoopSafety, StepLoopResumes,
     StepLoopPauseCancelled, StepLoopEpoch, StepLoopMines, StepLoopReturns, StepLoopBadPrev, StepLoopFailed,
     StepLoopAccepted, StepLoopDone, StepLoopCleanup DEF LoopStep
-----------------------------------------------------------------------------
(* The requests *)

(* A request moves on and spawns nothing. *)
LEMMA StepRequest ==
    ASSUME SupInv, NEW c \in Caller, NEW r \in Calls, r.at # "spawn", Request(c, r),
           UNCHANGED <<tip, mine, wg, loop, exit>>, ctx' \in [Loop -> BOOLEAN],
           miner' \in MinerFields, miner'.active => miner' = miner, enabled' \in BOOLEAN
    PROVE  SupInv' /\ NoBlockLost
<1>1. call' \in [Caller -> Calls] /\ call'[c] = r /\ \A d \in Caller \ {c} : call'[d] = call[d]
  BY DEF Request, SupInv, SupTypes
<1>2. SupTypes'
  BY <1>1 DEF SupInv, SupTypes
<1>3. SpawnsReserved'
  BY <1>1 DEF SupInv, SpawnsReserved
<1>4. MinesWhenMining' /\ WaitGroupExact' /\ ActiveHasLoop'
  BY DEF SupInv, MinesWhenMining, WaitGroupExact, Live, ActiveHasLoop
<1>5. MineInv' /\ NoBlockLost
  BY MineIsolated DEF SupInv
<1> QED  BY <1>2, <1>3, <1>4, <1>5 DEF SupInv

LEMMA NoRequestTyped == NoRequest \in Calls /\ NoRequest.at = "idle"
  BY DEF NoRequest, Calls

LEMMA StepStartChecked ==
    ASSUME SupInv, NEW c \in Caller, StartChecked(c)
    PROVE  SupInv' /\ NoBlockLost
<1> DEFINE r == [op |-> "start", at |-> "lock", loop |-> NoLoop]
<1>1. r \in Calls /\ r.at = "lock"
  BY DEF Calls
<1>2. Request(c, r) /\ UNCHANGED <<tip, ctx, mine, miner, enabled, wg, loop, exit>>
  BY DEF StartChecked, miningVars
<1> HIDE DEF r
<1> QED  BY <1>1, <1>2, StepRequest DEF SupInv, SupTypes, MineInv

LEMMA StepAlreadyRunning ==
    ASSUME SupInv, NEW c \in Caller, AlreadyRunning(c)
    PROVE  SupInv' /\ NoBlockLost
<1>1. Request(c, NoRequest) /\ UNCHANGED <<tip, ctx, mine, miner, enabled, wg, loop, exit>>
  BY DEF AlreadyRunning, miningVars
<1> QED  BY <1>1, NoRequestTyped, StepRequest DEF SupInv, SupTypes, MineInv

LEMMA StepStopReturned ==
    ASSUME SupInv, NEW c \in Caller, StopReturned(c)
    PROVE  SupInv' /\ NoBlockLost
<1>1. enabled' = FALSE /\ UNCHANGED <<tip, ctx, mine, miner, wg, loop, exit>>
  BY DEF StopReturned, miningVars
<1>2. CASE Request(c, NoRequest)
  BY <1>1, <1>2, NoRequestTyped, StepRequest DEF SupInv, SupTypes, MineInv
<1>3. CASE Request(c, [call[c] EXCEPT !.at = "lock"])
  <2> DEFINE r == [call[c] EXCEPT !.at = "lock"]
  <2>1. r \in Calls /\ r.at = "lock"
    BY DEF SupInv, SupTypes, Calls
  <2>2. Request(c, r)
    BY <1>3
  <2> HIDE DEF r
  <2> QED  BY <1>1, <2>1, <2>2, StepRequest DEF SupInv, SupTypes, MineInv
<1> QED  BY <1>2, <1>3 DEF StopReturned

LEMMA StepStopLocked ==
    ASSUME SupInv, NEW c \in Caller, StopLocked(c)
    PROVE  SupInv' /\ NoBlockLost
<1>1. PICK op \in {"stop", "restart"}, reason \in {"rpc_stopminer", "supervisor_shutdown"} :
          /\ Request(c, [op |-> op, at |-> "wait", loop |-> NoLoop])
          /\ miner' = [miner EXCEPT !.requested = reason, !.active = FALSE, !.hashing = FALSE,
                                    !.cancel = NoLoop, !.lastStop = reason]
  BY DEF StopLocked
<1>2. UNCHANGED <<tip, mine, enabled, wg, loop, exit>> /\ ctx' \in [Loop -> BOOLEAN]
  BY DEF StopLocked, SupInv, MineInv
<1>3. miner' \in MinerFields /\ ~miner'.active
  BY <1>1 DEF SupInv, SupTypes, MinerFields, Reasons
<1> DEFINE r == [op |-> op, at |-> "wait", loop |-> NoLoop]
<1>4. r \in Calls /\ r.at = "wait" /\ Request(c, r)
  BY <1>1 DEF Calls
<1> HIDE DEF r
<1> QED  BY <1>2, <1>3, <1>4, StepRequest DEF SupInv, SupTypes

LEMMA StepStartLocked ==
    ASSUME SupInv, NEW c \in Caller, StartLocked(c)
    PROVE  SupInv' /\ NoBlockLost
<1>1. PICK l \in Loop, limit \in StopAfter :
          /\ loop[l] = "unused"
          /\ miner' = [Idle EXCEPT !.active = TRUE, !.cancel = l, !.limit = limit, !.recovering = miner.recovering]
          /\ Goto(l, "reserved")
          /\ Request(c, [call[c] EXCEPT !.at = "spawn", !.loop = l])
  BY DEF StartLocked
<1>2. UNCHANGED <<miningVars, enabled, wg, exit>>
  BY DEF StartLocked
<1>3. miner' \in MinerFields /\ miner'.cancel = l
  BY <1>1, SupervisorAssumption DEF Idle, SupInv, SupTypes, MinerFields, Reasons
<1>4. /\ loop' \in [Loop -> LoopSteps] /\ loop'[l] = "reserved"
      /\ \A k \in Loop \ {l} : loop'[k] = loop[k]
  BY <1>1 DEF Goto, SupInv, SupTypes, LoopSteps
<1> DEFINE r == [call[c] EXCEPT !.at = "spawn", !.loop = l]
<1>5. r \in Calls /\ r.at = "spawn" /\ r.loop = l /\ call' = [call EXCEPT ![c] = r]
  BY <1>1 DEF SupInv, SupTypes, Calls, Request
<1> HIDE DEF r
<1>6. call' \in [Caller -> Calls] /\ call'[c] = r /\ \A d \in Caller \ {c} : call'[d] = call[d]
  BY <1>5 DEF SupInv, SupTypes
<1>7. SupTypes'
  BY <1>2, <1>3, <1>4, <1>6 DEF SupInv, SupTypes
<1>8. MinesWhenMining'
  BY <1>1, <1>2, <1>4 DEF SupInv, MinesWhenMining, miningVars
<1>9. Live' = Live
  BY <1>1, <1>4 DEF Live, LiveSteps
<1>10. WaitGroupExact'
  BY <1>2, <1>9 DEF SupInv, WaitGroupExact
<1>11. SpawnsReserved'
  BY <1>1, <1>4, <1>5, <1>6 DEF SupInv, SpawnsReserved
<1>12. ActiveHasLoop'
  BY <1>3, <1>4 DEF ActiveHasLoop
<1> QED  BY <1>2, <1>7, <1>8, <1>10, <1>11, <1>12, MiningRests DEF SupInv

LEMMA StepStartSpawn ==
    ASSUME SupInv, NEW c \in Caller, StartSpawn(c)
    PROVE  SupInv' /\ NoBlockLost
<1> DEFINE l == call[c].loop
<1>1. l \in Loop /\ loop[l] = "reserved" /\ call[c].at = "spawn"
  BY DEF StartSpawn, SupInv, SpawnsReserved
<1>2. enabled' = TRUE /\ wg' = wg + 1 /\ Goto(l, "top") /\ UNCHANGED <<miningVars, miner, exit>>
  BY DEF StartSpawn
<1>3. call' \in [Caller -> Calls] /\ call'[c].at = "idle" /\ \A d \in Caller \ {c} : call'[d] = call[d]
  BY NoRequestTyped DEF StartSpawn, Request, SupInv, SupTypes
<1>4. SpawnsReserved /\ \A d \in Caller \ {c} : call[d].at = "spawn" => call[d].loop # l
  BY <1>1 DEF SupInv, SpawnsReserved
<1> HIDE DEF l
<1>5. /\ loop' \in [Loop -> LoopSteps] /\ loop'[l] = "top"
      /\ \A k \in Loop \ {l} : loop'[k] = loop[k]
  BY <1>1, <1>2 DEF Goto, SupInv, SupTypes, LoopSteps
<1>6. SupTypes'
  BY <1>2, <1>3, <1>5 DEF SupInv, SupTypes
<1>7. MinesWhenMining'
  BY <1>1, <1>2, <1>5 DEF SupInv, MinesWhenMining, miningVars
<1>8. WaitGroupExact'
  <2>1. Live' = Live \cup {l} /\ l \notin Live
    BY <1>1, <1>5 DEF Live, LiveSteps, LoopSteps
  <2> QED  BY <1>2, <2>1, FS_AddElement DEF SupInv, WaitGroupExact
<1>9. SpawnsReserved'
  BY <1>3, <1>4, <1>5 DEF SpawnsReserved
<1>10. ActiveHasLoop'
  BY <1>2, <1>5 DEF SupInv, ActiveHasLoop
<1> QED  BY <1>2, <1>6, <1>7, <1>8, <1>9, <1>10, MiningRests DEF SupInv

LEMMA StepSurroundings ==
    ASSUME SupInv, Surroundings, UNCHANGED svars
    PROVE  SupInv' /\ NoBlockLost
<1>1. CASE NewTip
  <2>1. MineInv' /\ NoBlockLost /\ UNCHANGED mine
    BY <1>1, StepNewTip DEF SupInv, NewTip
  <2>2. SupTypes' /\ MinesWhenMining' /\ WaitGroupExact' /\ SpawnsReserved' /\ ActiveHasLoop'
    BY <2>1 DEF svars, SupInv, SupTypes, MinesWhenMining, WaitGroupExact, Live, SpawnsReserved, ActiveHasLoop
  <2> QED  BY <2>1, <2>2 DEF SupInv
<1>2. ASSUME NEW l \in Loop, Age(l) \/ StaleTick(l)
      PROVE  SupInv' /\ NoBlockLost
  <2>1. loop[l] = "mining"
    <3>1. mine[l].at # NoCall.at
      BY <1>2 DEF Age, StaleTick, NoCall
    <3> QED  BY <3>1 DEF SupInv, MinesWhenMining
  <2>2. MiningGoesOn(l)
    BY <1>2, StepAge, StepStaleTick, MovesGoesOn DEF SupInv
  <2> QED  BY <2>1, <2>2, StepInCall, MinerUnchanged DEF svars
<1> QED  BY <1>1, <1>2 DEF Surroundings
-----------------------------------------------------------------------------
(* The theorems *)

LEMMA InitSupInv == Init => SupInv
<1> SUFFICES ASSUME Init PROVE SupInv
  OBVIOUS
<1>1. MineInv
  <2>1. tip.id = 0 /\ tip \in [id : 0..MaxTip, confirmed : SUBSET Tx]
    BY MiningAssumption DEF Init, MiningInit
  <2>2. OnTip(NoCall)
    BY <2>1 DEF OnTip, NoCall, Templates
  <2> QED  BY <2>1, <2>2, NoCallShape DEF Init, MiningInit, MineInv
<1>2. SupTypes
  BY NoRequestTyped DEF Init, SupTypes, Idle, MinerFields, Reasons, LoopSteps
<1>3. Live = {}
  BY DEF Init, Live, LiveSteps
<1>4. WaitGroupExact
  BY <1>3, FS_EmptySet DEF Init, WaitGroupExact
<1>5. MinesWhenMining /\ SpawnsReserved /\ ActiveHasLoop
  BY NoRequestTyped DEF Init, MiningInit, MinesWhenMining, SpawnsReserved, ActiveHasLoop, Idle
<1> QED  BY <1>1, <1>2, <1>4, <1>5 DEF SupInv

LEMMA StepSupInv == SupInv /\ [Next]_vars => SupInv' /\ NoBlockLost
<1> SUFFICES ASSUME SupInv, [Next]_vars PROVE SupInv' /\ NoBlockLost
  OBVIOUS
<1>1. CASE UNCHANGED vars
  <2>1. MineInv' /\ NoBlockLost
    BY <1>1, MiningRests DEF vars
  <2>2. SupTypes' /\ MinesWhenMining' /\ WaitGroupExact' /\ SpawnsReserved' /\ ActiveHasLoop'
    BY <1>1 DEF vars, svars, miningVars, SupInv, SupTypes, MinesWhenMining, WaitGroupExact, Live,
                SpawnsReserved, ActiveHasLoop
  <2> QED  BY <2>1, <2>2 DEF SupInv
<1>2. ASSUME NEW c \in Caller, StartChecked(c) \/ StopLocked(c) \/ CallStep(c)
      PROVE  SupInv' /\ NoBlockLost
  BY <1>2, StepStartChecked, StepStopLocked, StepAlreadyRunning, StepStartLocked, StepStartSpawn,
     StepStopReturned DEF CallStep
<1>3. ASSUME NEW l \in Loop, LoopStep(l) \/ LoopProgress(l)
      PROVE  SupInv' /\ NoBlockLost
  BY <1>3, StepLoop, StepLoopProgress
<1>4. CASE Surroundings /\ UNCHANGED svars
  BY <1>4, StepSurroundings
<1> QED  BY <1>1, <1>2, <1>3, <1>4 DEF Next

(***************************************************************************)
(* For any loops, workers, transactions and tips, whatever the chain does  *)
(* while MineBlock runs: workers never hash a template read from two tips, *)
(* and the inputs of a block that still extends the tip connect.           *)
(***************************************************************************)
THEOREM TemplateAlwaysSound == Spec => []TemplateSound
<1>1. SupInv => TemplateSound
  BY SupInvSound
<1> QED  BY InitSupInv, StepSupInv, <1>1, PTL DEF Spec

(* Every field of the miner, its loops and its requests holds a value of its type. *)
THEOREM MinerTypeCorrect == Spec => []TypeOK
<1>1. SupInv => TypeOK
  BY SupInvSound
<1> QED  BY InitSupInv, StepSupInv, <1>1, PTL DEF Spec

(***************************************************************************)
(* getminerstatus never reports a running miner with nothing behind it,    *)
(* however many sessions were started and stopped before, restarts         *)
(* included (minerActive and minerCancel).                                 *)
(***************************************************************************)
THEOREM RunningMinerHasLoop == Spec => []ActiveHasLoop
<1>1. SupInv => ActiveHasLoop
  BY SupInvSound
<1> QED  BY InitSupInv, StepSupInv, <1>1, PTL DEF Spec

(***************************************************************************)
(* A block that got into the result channel of MineBlock is submitted,     *)
(* whatever workers, ticker and cancellation send after it; only a         *)
(* cancelled loop and a template that is no longer fresh may drop it, and  *)
(* the chain refuses it only for a lost race or for a limit the template   *)
(* ignores.                                                                *)
(***************************************************************************)
THEOREM FoundBlockNeverLost == Spec => FoundBlockNotLost
<1>1. SupInv /\ [Next]_vars => [NoBlockLost]_mine
  BY StepSupInv
<1> QED  BY InitSupInv, StepSupInv, <1>1, PTL DEF Spec, FoundBlockNotLost, NoBlockLost

(* What the return of a stop request means. *)
Stopped ==
    \A c \in Caller : call[c].at = "wait" /\ call'[c].at # "wait"
        => \A l \in Loop : mine[l].running = {} /\ loop[l] \notin {"mining", "announce"}

LEMMA EmptyWaitGroup ==
    ASSUME SupInv, wg = 0
    PROVE  \A l \in Loop : mine[l].running = {} /\ loop[l] \notin {"mining", "announce"}
<1>1. Live = {}
  BY FS_EmptySet DEF SupInv, WaitGroupExact
<1>2. \A l \in Loop : loop[l] \notin {"mining", "announce"}
  BY <1>1 DEF Live, LiveSteps, LoopSteps
<1> QED  BY <1>2 DEF SupInv, MinesWhenMining, NoCall

LEMMA StepStopped == SupInv /\ [Next]_vars => Stopped
<1> SUFFICES ASSUME SupInv, [Next]_vars PROVE Stopped
  OBVIOUS
<1> SUFFICES ASSUME NEW c \in Caller, call[c].at = "wait", call'[c].at # "wait"
             PROVE  wg = 0
  BY EmptyWaitGroup DEF Stopped
<1>1. call' # call
  OBVIOUS
<1>2. PICK d \in Caller : StartChecked(d) \/ StopLocked(d) \/ CallStep(d)
  BY <1>1 DEF Next, vars, svars, LoopStep, LoopTop, LoopLimit, LoopPeers, LoopStorage, LoopSafety, LoopResumes,
     LoopPauseCancelled, LoopEpoch, LoopMines, LoopCancelled, LoopRefresh, LoopStale, LoopBadPrev, LoopFailed,
     LoopFound, LoopAccepted, LoopDone, LoopCleanup, LoopProgress, Returned
<1>3. call' = [call EXCEPT ![d] = call'[d]]
  BY <1>2 DEF StartChecked, StopLocked, CallStep, AlreadyRunning, StartLocked, StartSpawn, StopReturned, Request,
     SupInv, SupTypes
<1>4. d = c
  BY <1>3 DEF SupInv, SupTypes
<1> QED  BY <1>2, <1>4 DEF StartChecked, StopLocked, CallStep, AlreadyRunning, StartLocked, StartSpawn, StopReturned

(***************************************************************************)
(* When stopMiner returns, no worker of any loop hashes and no block is    *)
(* found but not yet announced, because the wait group counts exactly the  *)
(* loops that were started and have not ended (minerLoopWg).               *)
(***************************************************************************)
THEOREM StopAlwaysStops == Spec => StopMeansStopped
<1>1. SupInv /\ [Next]_vars => [Stopped]_vars
  BY StepStopped
<1> QED  BY InitSupInv, StepSupInv, <1>1, PTL DEF Spec, StopMeansStopped, Stopped
-----------------------------------------------------------------------------
(* One session *)

(***************************************************************************)
(* With one loop, hence one session, the reason and the number of blocks   *)
(* that are reported are those of that session.  With several they may be  *)
(* mixed up: a restart begins while the loop before it has told the wait   *)
(* group but has not cleaned up.                                           *)
(***************************************************************************)
OneLoop == \A k, l \in Loop : k = l

Requested == {"rpc_stopminer", "supervisor_shutdown"}

(* Between the test of the limit and the count of the next block. *)
Counting == {"peers", "storage", "safety", "epoch", "mining", "announce"}

SessionInv ==
    /\ miner.cancel # NoLoop => miner.active
    /\ \A l \in Loop : ctx[l] /\ loop[l] # "over" => miner.requested \in Requested
    /\ \A l \in Loop : ctx[l] => loop[l] # "unused"
    /\ StopReasonKept
    /\ miner.limit > 0 => miner.blocks <= miner.limit
    /\ \A l \in Loop : miner.limit > 0 /\ loop[l] \in Counting => miner.blocks < miner.limit

FieldsKept ==
    /\ miner'.requested = miner.requested /\ miner'.limit = miner.limit /\ miner'.blocks = miner.blocks
    /\ miner'.active = miner.active /\ miner'.cancel = miner.cancel

(* The loop takes a step that is not its last one and counts no block. *)
PassesOn(l) ==
    /\ FieldsKept /\ UNCHANGED ctx
    /\ loop[l] \notin {"unused", "over"}
    /\ \E step \in LoopSteps \ {"unused", "over"} :
          /\ Goto(l, step)
          /\ step \in Counting => loop[l] \in Counting \/ (miner.limit > 0 => miner.blocks < miner.limit)

LEMMA PassesOnKeeps ==
    ASSUME OneLoop, SupInv, SessionInv, NEW l \in Loop, PassesOn(l)
    PROVE  SessionInv'
<1>1. PICK step \in LoopSteps \ {"unused", "over"} :
          /\ loop' = [loop EXCEPT ![l] = step]
          /\ step \in Counting => loop[l] \in Counting \/ (miner.limit > 0 => miner.blocks < miner.limit)
  BY DEF PassesOn, Goto
<1>2. loop'[l] = step /\ \A k \in Loop : k = l
  BY <1>1 DEF OneLoop, SupInv, SupTypes
<1>3. FieldsKept /\ UNCHANGED ctx /\ loop[l] \notin {"unused", "over"}
  BY DEF PassesOn
<1>4. (miner.cancel # NoLoop => miner.active)'
  BY <1>3 DEF FieldsKept, SessionInv
<1>5. \A k \in Loop : /\ ctx'[k] /\ loop'[k] # "over" => miner'.requested \in Requested
                      /\ loop'[k] \notin {"unused", "over"}
  BY <1>1, <1>2, <1>3 DEF FieldsKept, SessionInv
<1>6. (miner.limit > 0 => miner.blocks <= miner.limit)'
  BY <1>3 DEF FieldsKept, SessionInv
<1>7. \A k \in Loop : miner'.limit > 0 /\ loop'[k] \in Counting => miner'.blocks < miner'.limit
  BY <1>1, <1>2, <1>3 DEF FieldsKept, SessionInv
<1> QED  BY <1>4, <1>5, <1>6, <1>7 DEF SessionInv, StopReasonKept

(* The loop goes on to this step. *)
LEMMA PassesOnTo ==
    ASSUME NEW l \in Loop, FieldsKept, UNCHANGED ctx, loop[l] \notin {"unused", "over"},
           NEW step \in LoopSteps \ {"unused", "over"}, Goto(l, step),
           step \in Counting => loop[l] \in Counting \/ (miner.limit > 0 => miner.blocks < miner.limit)
    PROVE  PassesOn(l)
  BY DEF PassesOn

LEMMA MinerRests ==
    ASSUME UNCHANGED miner
    PROVE  FieldsKept
  BY DEF FieldsKept

LEMMA HashingKept ==
    ASSUME SupInv, NEW h \in BOOLEAN, NEW r, NEW stop,
           \/ miner' = [miner EXCEPT !.hashing = h] \/ miner' = [miner EXCEPT !.hashing = h, !.recovering = r]
           \/ miner' = [miner EXCEPT !.recovering = r, !.hashing = h]
           \/ miner' = [miner EXCEPT !.hashing = h, !.lastStop = stop]
    PROVE  FieldsKept
  BY DEF SupInv, SupTypes, MinerFields, FieldsKept

LEMMA TestsPassOn ==
    ASSUME SupInv, NEW l \in Loop,
           LoopTop(l) \/ LoopLimit(l) \/ LoopPeers(l) \/ LoopStorage(l) \/ LoopSafety(l)
    PROVE  PassesOn(l)
<1>1. CASE LoopTop(l)
  BY <1>1, MinerRests, PassesOnTo DEF LoopTop, Exit, miningVars, LoopSteps, Counting
<1>2. CASE LoopLimit(l)
  <2>1. FieldsKept
    BY <1>2, MinerRests, HashingKept DEF LoopLimit
  <2>2. miner.limit \in Nat /\ miner.blocks \in Nat
    BY DEF SupInv, SupTypes, MinerFields
  <2> QED  BY <1>2, <2>1, <2>2, PassesOnTo DEF LoopLimit, Exit, miningVars, LoopSteps, Counting
<1>3. CASE LoopPeers(l)
  <2>1. FieldsKept
    BY <1>3, MinerRests, HashingKept DEF LoopPeers, Pause
  <2> QED  BY <1>3, <2>1, PassesOnTo DEF LoopPeers, Pause, miningVars, LoopSteps, Counting
<1>4. CASE LoopStorage(l)
  <2>1. FieldsKept
    BY <1>4, MinerRests, HashingKept DEF LoopStorage
  <2> QED  BY <1>4, <2>1, PassesOnTo DEF LoopStorage, Exit, miningVars, LoopSteps, Counting
<1>5. CASE LoopSafety(l)
  <2>1. FieldsKept
    BY <1>5, MinerRests, HashingKept DEF LoopSafety, Pause
  <2>2. loop[l] = "safety" /\ UNCHANGED ctx /\ \E step \in {"epoch", "paused", "highstale"} : Goto(l, step)
    BY <1>5 DEF LoopSafety, Pause, miningVars
  <2> QED  BY <2>1, <2>2, PassesOnTo DEF LoopSteps, Counting
<1> QED  BY <1>1, <1>2, <1>3, <1>4, <1>5

LEMMA PausesPassOn ==
    ASSUME SupInv, NEW l \in Loop, LoopResumes(l) \/ LoopPauseCancelled(l) \/ LoopEpoch(l) \/ LoopDone(l)
    PROVE  PassesOn(l)
<1>1. CASE LoopResumes(l)
  <2>1. FieldsKept
    BY <1>1 DEF LoopResumes, SupInv, SupTypes, MinerFields, FieldsKept
  <2> QED  BY <1>1, <2>1, PassesOnTo DEF LoopResumes, miningVars, LoopSteps, Counting
<1>2. CASE LoopPauseCancelled(l)
  BY <1>2, MinerRests, PassesOnTo DEF LoopPauseCancelled, miningVars, LoopSteps, Counting
<1>3. CASE LoopEpoch(l)
  <2>1. FieldsKept
    BY <1>3, HashingKept DEF LoopEpoch
  <2> QED  BY <1>3, <2>1, PassesOnTo DEF LoopEpoch, ReadTip, LoopSteps, Counting
<1>4. CASE LoopDone(l)
  BY <1>4, MinerRests, PassesOnTo DEF LoopDone, miningVars, LoopSteps, Counting
<1> QED  BY <1>1, <1>2, <1>3, <1>4

LEMMA ReturnsPassOn ==
    ASSUME SupInv, NEW l \in Loop,
           LoopCancelled(l) \/ LoopRefresh(l) \/ LoopStale(l) \/ LoopBadPrev(l) \/ LoopFailed(l) \/ LoopFound(l)
    PROVE  PassesOn(l)
<1>1. loop[l] = "mining" /\ UNCHANGED ctx
  BY DEF LoopCancelled, LoopRefresh, LoopStale, LoopBadPrev, LoopFailed, LoopFound, Returned
<1>2. \E step \in {"exit", "top", "retry", "announce"} : Goto(l, step)
  BY DEF LoopCancelled, LoopRefresh, LoopStale, LoopBadPrev, LoopFailed, LoopFound, Exit
<1>3. FieldsKept
  <2>1. CASE LoopCancelled(l) \/ LoopRefresh(l) \/ LoopStale(l) \/ LoopFound(l)
    BY <2>1, HashingKept DEF LoopCancelled, LoopRefresh, LoopStale, LoopFound
  <2>2. CASE LoopBadPrev(l)
    <3> DEFINE m == [miner EXCEPT !.hashing = FALSE, !.stale = miner.stale + 1]
    <3>1. miner' = m \/ miner' = [m EXCEPT !.staleRatePause = TRUE]
      BY <2>2 DEF LoopBadPrev
    <3> QED  BY <3>1 DEF SupInv, SupTypes, MinerFields, FieldsKept
  <2>3. CASE LoopFailed(l)
    BY <2>3 DEF LoopFailed, SupInv, SupTypes, MinerFields, FieldsKept
  <2> QED  BY <2>1, <2>2, <2>3
<1> QED  BY <1>1, <1>2, <1>3, PassesOnTo DEF LoopSteps, Counting

(* Nothing that SessionInv is about changes. *)
LEMMA SessionRests ==
    ASSUME SessionInv, UNCHANGED <<miner, loop, ctx>>
    PROVE  SessionInv'
  BY DEF SessionInv, StopReasonKept

LEMMA SessionLoop ==
    ASSUME OneLoop, SupInv, SessionInv, NEW l \in Loop, LoopStep(l) \/ LoopProgress(l)
    PROVE  SessionInv'
<1>1. CASE LoopMines(l)
  <2>1. UNCHANGED ctx
    BY <1>1 DEF LoopMines, MineStep, ReadBits, ReadTxs, StartWorkers, WorkerSends, WorkerStops, SelectResult,
       SelectDone, SelectCancelled, Cancelled, Joined, HandleResult, Connect
  <2> QED  BY <1>1, <2>1, SessionRests DEF LoopMines, svars
<1>2. CASE LoopProgress(l)
  BY <1>2 DEF LoopProgress, miningVars, SupInv, SupTypes, MinerFields, SessionInv, StopReasonKept
<1>3. CASE LoopAccepted(l)
  <2> DEFINE blocks == miner.blocks + 1
  <2>1. /\ miner' = [miner EXCEPT !.blocks = blocks, !.staleRatePause = FALSE, !.recovering = TRUE]
        /\ loop[l] = "announce" /\ Goto(l, "top") /\ UNCHANGED ctx
    BY <1>3 DEF LoopAccepted, miningVars
  <2>2. miner.limit > 0 => blocks <= miner.limit
    BY <2>1 DEF SessionInv, Counting, SupInv, SupTypes, MinerFields
  <2>3. miner'.requested = miner.requested /\ miner'.limit = miner.limit /\ miner'.blocks = blocks
        /\ miner'.active = miner.active /\ miner'.cancel = miner.cancel
    BY <2>1 DEF SupInv, SupTypes, MinerFields
  <2> HIDE DEF blocks
  <2>4. \A k \in Loop : k = l /\ loop'[k] = "top"
    BY <2>1 DEF OneLoop, Goto, SupInv, SupTypes
  <2> QED  BY <2>1, <2>2, <2>3, <2>4 DEF SessionInv, StopReasonKept, Counting
<1>4. CASE LoopCleanup(l)
  <2> DEFINE reason == IF miner.requested # "none" THEN miner.requested ELSE exit[l]
  <2>1. /\ miner' = [miner EXCEPT !.active = FALSE, !.hashing = FALSE, !.cancel = NoLoop,
                                 !.requested = "none", !.lastStop = reason]
        /\ loop[l] = "exiting" /\ Goto(l, "over") /\ UNCHANGED ctx
    BY <1>4 DEF LoopCleanup, miningVars
  <2>2. miner'.cancel = NoLoop /\ miner'.lastStop = reason /\ miner'.limit = miner.limit
        /\ miner'.blocks = miner.blocks
    BY <2>1 DEF SupInv, SupTypes, MinerFields
  <2>3. \A k \in Loop : k = l /\ loop'[k] = "over"
    BY <2>1 DEF OneLoop, Goto, SupInv, SupTypes
  <2>4. ctx[l] => reason \in Requested
    BY <2>1 DEF SessionInv, Requested
  <2> HIDE DEF reason
  <2> QED  BY <2>1, <2>2, <2>3, <2>4 DEF SessionInv, StopReasonKept, Requested, Counting, minerStopReasonIsUnexpected
<1>5. CASE LoopStep(l) /\ ~LoopMines(l) /\ ~LoopAccepted(l) /\ ~LoopCleanup(l)
  <2>1. PassesOn(l)
    BY <1>5, TestsPassOn, PausesPassOn, ReturnsPassOn DEF LoopStep
  <2> QED  BY <2>1, PassesOnKeeps
<1> QED  BY <1>1, <1>2, <1>3, <1>4, <1>5

LEMMA SessionCall ==
    ASSUME OneLoop, SupInv, SessionInv, NEW c \in Caller, StartChecked(c) \/ StopLocked(c) \/ CallStep(c)
    PROVE  SessionInv'
<1>1. CASE StartChecked(c) \/ AlreadyRunning(c) \/ StopReturned(c)
  BY <1>1, SessionRests DEF StartChecked, AlreadyRunning, StopReturned, miningVars
<1>2. CASE StopLocked(c)
  <2>1. PICK reason \in Requested :
            miner' = [miner EXCEPT !.requested = reason, !.active = FALSE, !.hashing = FALSE,
                                   !.cancel = NoLoop, !.lastStop = reason]
    BY <1>2 DEF StopLocked, Requested
  <2>2. /\ miner'.requested = reason /\ miner'.lastStop = reason /\ miner'.cancel = NoLoop
        /\ miner'.limit = miner.limit /\ miner'.blocks = miner.blocks
    BY <2>1 DEF SupInv, SupTypes, MinerFields
  <2>3. UNCHANGED loop /\ \A l \in Loop : ctx'[l] => ctx[l] \/ l = miner.cancel
    BY <1>2 DEF StopLocked
  <2>4. \A l \in Loop : l = miner.cancel => loop[l] # "unused"
    BY SupervisorAssumption DEF SupInv, ActiveHasLoop, SessionInv
  <2> QED  BY <2>2, <2>3, <2>4 DEF SessionInv, StopReasonKept, Requested, minerStopReasonIsUnexpected
<1>3. CASE StartLocked(c)
  <2>1. PICK l \in Loop, limit \in StopAfter :
            /\ loop[l] = "unused" /\ Goto(l, "reserved")
            /\ miner' = [Idle EXCEPT !.active = TRUE, !.cancel = l, !.limit = limit, !.recovering = miner.recovering]
    BY <1>3 DEF StartLocked
  <2>2. miner'.active /\ miner'.limit \in Nat /\ miner'.blocks = 0
    BY <2>1, SupervisorAssumption DEF Idle
  <2>3. \A k \in Loop : k = l /\ loop'[k] = "reserved" /\ ~ctx[k]
    BY <2>1 DEF OneLoop, Goto, SessionInv, SupInv, SupTypes
  <2>4. UNCHANGED ctx
    BY <1>3 DEF StartLocked, miningVars
  <2> QED  BY <2>2, <2>3, <2>4 DEF SessionInv, StopReasonKept, Counting
<1>4. CASE StartSpawn(c)
  <2>1. call[c].loop \in Loop /\ loop[call[c].loop] = "reserved" /\ Goto(call[c].loop, "top")
        /\ UNCHANGED <<miner, ctx>>
    BY <1>4 DEF StartSpawn, miningVars, SupInv, SpawnsReserved
  <2>2. \A k \in Loop : loop[k] = "reserved" /\ loop'[k] = "top"
    BY <2>1 DEF OneLoop, Goto, SupInv, SupTypes
  <2> QED  BY <2>1, <2>2 DEF SessionInv, StopReasonKept, Counting
<1> QED  BY <1>1, <1>2, <1>3, <1>4 DEF CallStep

LEMMA StepSessionInv ==
    ASSUME OneLoop
    PROVE  SupInv /\ SessionInv /\ [Next]_vars => SessionInv'
<1> SUFFICES ASSUME SupInv, SessionInv, [Next]_vars PROVE SessionInv'
  OBVIOUS
<1>1. CASE UNCHANGED vars
  BY <1>1, SessionRests DEF vars, svars, miningVars
<1>2. ASSUME NEW c \in Caller, StartChecked(c) \/ StopLocked(c) \/ CallStep(c)
      PROVE  SessionInv'
  BY <1>2, SessionCall
<1>3. ASSUME NEW l \in Loop, LoopStep(l) \/ LoopProgress(l)
      PROVE  SessionInv'
  BY <1>3, SessionLoop
<1>4. CASE Surroundings /\ UNCHANGED svars
  BY <1>4, SessionRests DEF Surroundings, NewTip, Age, StaleTick, svars
<1> QED  BY <1>1, <1>2, <1>3, <1>4 DEF Next

LEMMA InitSessionInv == Init => SessionInv
  BY DEF Init, MiningInit, Idle, SessionInv, StopReasonKept, Counting

(***************************************************************************)
(* While there has been one session: a loop stands behind a running miner, *)
(* a session that was stopped by a request is not reported as one that     *)
(* ended unexpectedly, and no more blocks are counted than were asked for, *)
(* for any callers, workers, transactions, tips and limits.                *)
(***************************************************************************)
THEOREM SessionAlwaysConsistent ==
    ASSUME OneLoop
    PROVE  Spec => []SessionConsistent
<1>1. SupInv /\ SessionInv => SessionConsistent
  BY DEF SupInv, SessionInv, SessionConsistent, LimitRespected
<1>2. SupInv /\ SessionInv /\ [Next]_vars => SessionInv'
  BY StepSessionInv
<1> QED  BY InitSupInv, InitSessionInv, StepSupInv, <1>1, <1>2, PTL DEF Spec
-----------------------------------------------------------------------------
(***************************************************************************)
(* The safety gate, for any peers, any way they come, go, lag and          *)
(* misbehave, and any lengths of the windows.  GateInv relates the time    *)
(* mined on the grace of a lost agreement to the age of the window and of  *)
(* the epoch, and the propagation grace to the own tip.                    *)
(***************************************************************************)

Whys == {"none", "no_peers", "stronger", "bad_peer", "behind", "sync", "peer_data_stale", "split",
         "template", "high_stale_rate", "override", "one_behind", "local_grace", "grace",
         "recovery", "agreement", "safe", "unexpected"}

Windows == [local : [tip : Int, age : Int], lost : Never .. Grace, recovered : Int, paused : BOOLEAN]

Loops == [at : {"stopped", "between", "paused", "mining"}, why : Whys, paused : BOOLEAN,
          error : BOOLEAN, own : BOOLEAN, age : 0 .. SoftAge]

Typed ==
    /\ localTip \in Nat /\ ownTip \in BOOLEAN
    /\ window \in Windows /\ session \in Loops
    /\ oldTemplate \in BOOLEAN /\ highStale \in BOOLEAN
    /\ solo \in Nat

(* The propagation grace was given on a tip no newer than the local one. *)
GraceOnOwnTip == window.local.tip <= localTip /\ (window.local.tip = localTip => ownTip)

OnGrace == session.at = "mining" /\ session.why = "grace"

(* What the epoch that is running has added so far; what any epoch may add. *)
EpochShare == IF OnGrace THEN session.age ELSE SoftAge

(* While agreement is not lost, one epoch; while the window runs, its age  *)
(* on top of that; then whatever the last epoch adds.                      *)
SoloCounted ==
    /\ window.lost = Never => solo <= EpochShare
    /\ window.lost \in 0 .. Grace - 1 => solo <= SoftAge + window.lost
    /\ window.lost # Never => solo <= SoftAge + Grace - 1 + EpochShare

GateInv ==
    /\ Typed /\ GraceOnOwnTip /\ SoloCounted
    /\ LocalGraceOnOwnTip
    /\ session.at = "paused" => session.paused
-----------------------------------------------------------------------------
(* The gate *)

LEMMA MinInIndices ==
    ASSUME NEW I, I \subseteq 1 .. 7, I # {}
    PROVE  Min(I) \in I
<1>1. \A k \in I : k \in {1, 2, 3, 4, 5, 6, 7}
  OBVIOUS
<1>2. \E m \in I : \A k \in I : m <= k
  <2>1. CASE 1 \in I
    BY <1>1, <2>1
  <2>2. CASE 1 \notin I /\ 2 \in I
    BY <1>1, <2>2
  <2>3. CASE 1 \notin I /\ 2 \notin I /\ 3 \in I
    BY <1>1, <2>3
  <2>4. CASE I \cap {1, 2, 3} = {} /\ 4 \in I
    BY <1>1, <2>4
  <2>5. CASE I \cap {1, 2, 3, 4} = {} /\ 5 \in I
    BY <1>1, <2>5
  <2>6. CASE I \cap {1, 2, 3, 4, 5} = {} /\ 6 \in I
    BY <1>1, <2>6
  <2>7. CASE I \subseteq {7}
    <3>1. I = {7}
      BY <2>7
    <3> QED  BY <3>1
  <2> QED  BY <1>1, <2>1, <2>2, <2>3, <2>4, <2>5, <2>6, <2>7
<1> QED  BY <1>2 DEF Min

LEMMA BlockerNamed ==
    ASSUME NEW bs, DOMAIN bs = 1 .. Len(bs), Len(bs) \in 0 .. 7
    PROVE  \/ FirstBlocker(bs) = "none" /\ \A i \in DOMAIN bs : ~bs[i][1]
           \/ \E i \in DOMAIN bs : bs[i][1] /\ FirstBlocker(bs) = bs[i][2]
<1> DEFINE I == {i \in 1 .. Len(bs) : bs[i][1]}
<1>1. CASE I = {}
  BY <1>1 DEF FirstBlocker, SelectInSeq
<1>2. CASE I # {}
  <2>1. Min(I) \in I
    BY <1>2, MinInIndices
  <2>2. SelectInSeq(bs, LAMBDA b : b[1]) = Min(I)
    BY <1>2 DEF SelectInSeq
  <2> QED  BY <2>1, <2>2 DEF FirstBlocker
<1> QED  BY <1>1, <1>2

LEMMA ReasonIsWhy ==
    ASSUME NEW in
    PROVE  /\ FirstBlocker(EarlyBlockers(in)) \in {"none", "no_peers", "stronger", "bad_peer", "behind", "sync"}
           /\ FirstBlocker(LateBlockers(in)) \in
                 {"none", "peer_data_stale", "split", "template", "high_stale_rate"}
<1> DEFINE early == EarlyBlockers(in)
           late == LateBlockers(in)
<1>1. /\ Len(early) = 5 /\ DOMAIN early = 1 .. 5
      /\ early[1][2] = "no_peers" /\ early[2][2] = "stronger" /\ early[3][2] = "bad_peer"
      /\ early[4][2] = "behind" /\ early[5][2] = "sync"
  BY DEF EarlyBlockers
<1>2. /\ Len(late) = 4 /\ DOMAIN late = 1 .. 4
      /\ late[1][2] = "peer_data_stale" /\ late[2][2] = "split" /\ late[3][2] = "template"
      /\ late[4][2] = "high_stale_rate"
  BY DEF LateBlockers
<1> HIDE DEF early, late
<1>3. FirstBlocker(early) \in {"none", "no_peers", "stronger", "bad_peer", "behind", "sync"}
  <2>1. \A i \in 1 .. 5 : i = 1 \/ i = 2 \/ i = 3 \/ i = 4 \/ i = 5
    OBVIOUS
  <2>2. FirstBlocker(early) = "none" \/ \E i \in 1 .. 5 : FirstBlocker(early) = early[i][2]
    <3>1. DOMAIN early = 1 .. Len(early) /\ Len(early) \in 0 .. 7 /\ DOMAIN early = 1 .. 5
      BY <1>1
    <3> QED  BY <3>1, BlockerNamed
  <2> QED  BY <1>1, <2>1, <2>2
<1>4. FirstBlocker(late) \in {"none", "peer_data_stale", "split", "template", "high_stale_rate"}
  <2>1. \A i \in 1 .. 4 : i = 1 \/ i = 2 \/ i = 3 \/ i = 4
    OBVIOUS
  <2>2. FirstBlocker(late) = "none" \/ \E i \in 1 .. 4 : FirstBlocker(late) = late[i][2]
    <3>1. DOMAIN late = 1 .. Len(late) /\ Len(late) \in 0 .. 7 /\ DOMAIN late = 1 .. 4
      BY <1>2
    <3> QED  BY <3>1, BlockerNamed
  <2> QED  BY <1>2, <2>1, <2>2
<1> QED  BY <1>3, <1>4 DEF early, late

(* What a verdict says, given what the windows told the gate. *)
LEMMA VerdictFacts ==
    ASSUME NEW in, NEW win
    PROVE  LET v == CheckSafeToMine(in, win)
           IN  /\ v.why \in Whys \ {"none"}
               /\ v.why = "grace" => win.grace
               /\ v.why = "local_grace" => win.local
<1> DEFINE early == FirstBlocker(EarlyBlockers(in))
           late == FirstBlocker(LateBlockers(in))
<1>1. /\ early \in {"none", "no_peers", "stronger", "bad_peer", "behind", "sync"}
      /\ late \in {"none", "peer_data_stale", "split", "template", "high_stale_rate"}
  BY ReasonIsWhy
<1> DEFINE v == CheckSafeToMine(in, win)
<1>2. \/ v = Verdict(TRUE, "override")
      \/ v = Verdict(FALSE, early) /\ early # "none"
      \/ v = Verdict(TRUE, "one_behind")
      \/ v = Verdict(TRUE, "local_grace") /\ win.local
      \/ v = Verdict(TRUE, "grace") /\ win.grace
      \/ v = Verdict(FALSE, "recovery")
      \/ v = Verdict(FALSE, "agreement")
      \/ v = Verdict(FALSE, late) /\ late # "none"
      \/ v = Verdict(TRUE, "safe")
  BY SafetyAssumption DEF CheckSafeToMine
<1> HIDE DEF v, early, late
<1>3. v.why # "none"
  BY <1>2 DEF Verdict
<1>5. v.why \in Whys
  <2>1. early \in Whys /\ late \in Whys
    BY <1>1 DEF Whys
  <2>2. v.why \in {early, late, "override", "one_behind", "local_grace", "grace", "recovery", "agreement", "safe"}
    BY <1>2 DEF Verdict
  <2> QED  BY <2>1, <2>2 DEF Whys
<1>4. /\ v.why = "grace" => win.grace
      /\ v.why = "local_grace" => win.local
  BY <1>1, <1>2 DEF Verdict
<1> QED  BY <1>3, <1>4, <1>5 DEF v

(* What an evaluation counts and what it leaves of the windows. *)
LEMMA AgreeingIsNat ==
    ASSUME NEW in \in Inputs
    PROVE  in.agreeing \in Nat
<1>1. PICK n, b, quiet, stuck :
        /\ n = assessMiningPeers([p \in Connected |-> classifyPeerSafety(peer[p])])
        /\ in = checkSafeToMine(n, b, quiet, stuck)
  BY DEF Inputs
<1>2. IsFiniteSet(Connected)
  BY SafetyAssumption, FS_Subset DEF Connected
<1> DEFINE cats == [p \in Connected |-> classifyPeerSafety(peer[p])]
<1>3. n["agreeing"] = Cardinality({p \in Connected : cats[p] = "agreeing"})
  BY <1>1 DEF assessMiningPeers
<1> HIDE DEF cats
<1>4. Cardinality({p \in Connected : cats[p] = "agreeing"}) \in Nat
  BY <1>2, FS_Subset, FS_CardinalityType
<1> QED  BY <1>1, <1>3, <1>4 DEF checkSafeToMine

LEMMA WindowFacts ==
    ASSUME window \in Windows, NEW in, in.agreeing \in Nat
    PROVE  LET w == applyMiningPeerAgreementWindow(in)
           IN  /\ w.after \in Windows
               /\ w.after.local \in {window.local, NoGrace}
               /\ \/ w.after.lost = Never /\ in.agreeing >= MinAgreeing
                  \/ w.after.lost = window.lost
                  \/ w.after.lost = 0 /\ window.lost = Never
               /\ w.grace => w.after.lost \in 0 .. Grace - 1
               /\ w.local => window.local.tip = localTip /\ window.local # NoGrace
<1> DEFINE local == applyLocalBlockPropagationGraceLocked(in)
           kept == IF local = "active" THEN window.local ELSE NoGrace
           lost == IF window.lost = Never THEN 0 ELSE window.lost
           back == IF window.recovered = Never THEN 0 ELSE window.recovered
           w == applyMiningPeerAgreementWindow(in)
<1>1. /\ MinAgreeing \in Nat /\ Grace \in Nat \ {0} /\ Recovery \in Nat
      /\ window.local \in [tip : Int, age : Int] /\ window.lost \in Never .. Grace
      /\ window.recovered \in Int /\ window.paused \in BOOLEAN /\ NoGrace \in [tip : Int, age : Int]
  BY SafetyAssumption DEF Windows, NoGrace, Never
<1>2. local = "active" => window.local.tip = localTip /\ window.local # NoGrace
  BY DEF applyLocalBlockPropagationGraceLocked
<1>3. kept \in [tip : Int, age : Int] /\ kept \in {window.local, NoGrace}
  BY <1>1
<1>4. lost \in 0 .. Grace /\ (lost = window.lost \/ (lost = 0 /\ window.lost = Never))
  BY <1>1 DEF Never
<1>5. back \in Int
  BY <1>1
<1> HIDE DEF local, kept, lost, back
<1> DEFINE a1 == [window EXCEPT !.local = NoGrace]
           a2 == [local |-> kept, lost |-> lost, recovered |-> Never,
                  paused |-> window.paused \/ lost >= Grace]
           a3 == [window EXCEPT !.local = kept, !.lost = Never, !.recovered = back]
           a4 == [local |-> kept, lost |-> Never, recovered |-> Never, paused |-> FALSE]
<1>6. \/ w = [after |-> a1, local |-> FALSE, grace |-> FALSE, recovery |-> FALSE]
      \/ w = [after |-> a2, local |-> local = "active", grace |-> lost < Grace, recovery |-> FALSE]
      \/ /\ ~(in.agreeing < MinAgreeing)
         /\ \/ w = [after |-> a3, local |-> local = "active", grace |-> FALSE, recovery |-> TRUE]
            \/ w = [after |-> a4, local |-> local = "active", grace |-> FALSE, recovery |-> FALSE]
  BY DEF applyMiningPeerAgreementWindow, local, kept, lost, back
<1> HIDE DEF w
<1>7. \/ w.after = a1 /\ ~w.grace /\ ~w.local
      \/ w.after = a2 /\ (w.grace => lost < Grace) /\ (w.local => local = "active")
      \/ w.after \in {a3, a4} /\ in.agreeing >= MinAgreeing /\ ~w.grace /\ (w.local => local = "active")
  <2>1. CASE w = [after |-> a1, local |-> FALSE, grace |-> FALSE, recovery |-> FALSE]
    BY <2>1, Zenon
  <2>2. CASE w = [after |-> a2, local |-> local = "active", grace |-> lost < Grace, recovery |-> FALSE]
    BY <2>2, Zenon
  <2>3. ~(in.agreeing < MinAgreeing) => in.agreeing >= MinAgreeing
    BY <1>1
  <2>4. CASE /\ ~(in.agreeing < MinAgreeing)
             /\ w = [after |-> a3, local |-> local = "active", grace |-> FALSE, recovery |-> TRUE]
    BY <2>3, <2>4, Zenon
  <2>5. CASE /\ ~(in.agreeing < MinAgreeing)
             /\ w = [after |-> a4, local |-> local = "active", grace |-> FALSE, recovery |-> FALSE]
    BY <2>3, <2>5, Zenon
  <2> QED  BY <1>6, <2>1, <2>2, <2>4, <2>5
<1>8. a1 \in Windows /\ a1.local = NoGrace /\ a1.lost = window.lost
  BY <1>1 DEF Windows
<1>9. a2 \in Windows /\ a2.local = kept /\ a2.lost = lost
  BY <1>1, <1>3, <1>4 DEF Windows, Never
<1>10. a3 \in Windows /\ a3.local = kept /\ a3.lost = Never
  <2>1. window \in [local : [tip : Int, age : Int], lost : Never .. Grace, recovered : Int, paused : BOOLEAN]
    BY DEF Windows
  <2>2. Never \in Never .. Grace
    BY <1>1 DEF Never
  <2>3. a3.local = kept /\ a3.lost = Never
    BY <2>1
  <2> DEFINE b1 == [window EXCEPT !.local = kept]
             b2 == [b1 EXCEPT !.lost = Never]
  <2>4. b1 \in Windows
    BY <1>3, <2>1 DEF Windows
  <2> HIDE DEF b1
  <2>5. b2 \in Windows
    BY <2>2, <2>4 DEF Windows
  <2> HIDE DEF b2
  <2>6. [b2 EXCEPT !.recovered = back] \in Windows
    BY <1>5, <2>5 DEF Windows
  <2>7. a3 = [b2 EXCEPT !.recovered = back]
    BY DEF b1, b2
  <2> QED  BY <2>3, <2>6, <2>7
<1>11. a4 \in Windows /\ a4.local = kept /\ a4.lost = Never
  BY <1>1, <1>3 DEF Windows, Never
<1> HIDE DEF a1, a2, a3, a4
<1>12. w.after \in Windows /\ w.after.local \in {window.local, NoGrace}
  BY <1>3, <1>7, <1>8, <1>9, <1>10, <1>11
<1>13. \/ w.after.lost = Never /\ in.agreeing >= MinAgreeing
       \/ w.after.lost = window.lost
       \/ w.after.lost = 0 /\ window.lost = Never
  BY <1>4, <1>7, <1>8, <1>9, <1>10, <1>11
<1>14. w.grace => w.after.lost \in 0 .. Grace - 1
  BY <1>1, <1>4, <1>7, <1>9
<1>15. w.local => window.local.tip = localTip /\ window.local # NoGrace
  BY <1>2, <1>7
<1> QED  BY <1>12, <1>13, <1>14, <1>15 DEF w

LEMMA EvaluationFacts ==
    ASSUME window \in Windows, NEW e \in Evaluations
    PROVE  /\ e.window \in Windows
           /\ e.window.local \in {window.local, NoGrace}
           /\ \/ e.window.lost = Never /\ e.in.agreeing >= MinAgreeing
              \/ e.window.lost = window.lost
              \/ e.window.lost = 0 /\ window.lost = Never
           /\ e.verdict.why \in Whys \ {"none"}
           /\ e.verdict.why = "grace" => e.window.lost \in 0 .. Grace - 1
           /\ e.verdict.why = "local_grace" => window.local.tip = localTip
<1>1. PICK in \in Inputs :
        e = [in |-> in, window |-> applyMiningPeerAgreementWindow(in).after,
             verdict |-> CheckSafeToMine(in, applyMiningPeerAgreementWindow(in))]
  BY DEF Evaluations
<1> DEFINE w == applyMiningPeerAgreementWindow(in)
           v == CheckSafeToMine(in, w)
<1>2. e.in = in /\ e.window = w.after /\ e.verdict = v
  BY <1>1
<1>3. in.agreeing \in Nat
  BY AgreeingIsNat
<1>4. /\ w.after \in Windows
      /\ w.after.local \in {window.local, NoGrace}
      /\ \/ w.after.lost = Never /\ in.agreeing >= MinAgreeing
         \/ w.after.lost = window.lost
         \/ w.after.lost = 0 /\ window.lost = Never
      /\ w.grace => w.after.lost \in 0 .. Grace - 1
      /\ w.local => window.local.tip = localTip
  BY <1>3, WindowFacts
<1> HIDE DEF w
<1>5. /\ v.why \in Whys \ {"none"}
      /\ v.why = "grace" => w.grace
      /\ v.why = "local_grace" => w.local
  BY VerdictFacts
<1> HIDE DEF v
<1> QED  BY <1>2, <1>4, <1>5
-----------------------------------------------------------------------------
(* The steps *)

LEMMA ShareBounded == GateInv => EpochShare \in 0 .. SoftAge /\ SoftAge \in Nat \ {0} /\ Grace \in Nat \ {0}
  BY SafetyAssumption DEF GateInv, Typed, Loops, EpochShare

(* An evaluation, whoever asks for it. *)
LEMMA EvaluatedFacts ==
    ASSUME GateInv, NEW e \in Evaluations, Evaluated(e)
    PROVE  /\ window' \in Windows /\ GraceOnOwnTip' /\ solo' \in Nat
           /\ UNCHANGED <<localTip, ownTip>>
           /\ window'.lost = Never => solo' <= EpochShare
           /\ window'.lost \in 0 .. Grace - 1 => solo' <= SoftAge + window'.lost
           /\ window'.lost # Never => solo' <= SoftAge + Grace - 1 + EpochShare
<1>1. /\ window \in Windows /\ localTip \in Nat /\ solo \in Nat /\ window.lost \in Int
      /\ GraceOnOwnTip /\ SoloCounted
  BY SafetyAssumption DEF GateInv, Typed, Windows, Never
<1>2. /\ window' = e.window /\ UNCHANGED <<localTip, ownTip>>
      /\ solo' = IF e.in.agreeing >= MinAgreeing THEN 0 ELSE solo
  BY DEF Evaluated
<1>3. /\ e.window \in Windows
      /\ e.window.local \in {window.local, NoGrace}
      /\ \/ e.window.lost = Never /\ e.in.agreeing >= MinAgreeing
         \/ e.window.lost = window.lost
         \/ e.window.lost = 0 /\ window.lost = Never
  BY <1>1, EvaluationFacts
<1>4. GraceOnOwnTip'
  BY <1>1, <1>2, <1>3 DEF GraceOnOwnTip, NoGrace, Never
<1>5. solo' \in Nat /\ solo' <= solo
  BY <1>1, <1>2
<1>6. EpochShare \in 0 .. SoftAge /\ SoftAge \in Nat \ {0} /\ Grace \in Nat \ {0}
  BY ShareBounded
<1>7. CASE e.window.lost = Never /\ e.in.agreeing >= MinAgreeing
  <2>1. solo' = 0
    BY <1>2, <1>7
  <2> QED  BY <1>2, <1>3, <1>4, <1>6, <1>7, <2>1
<1>8. CASE e.window.lost = window.lost
  <2>1. /\ window'.lost = Never => solo <= EpochShare
        /\ window'.lost \in 0 .. Grace - 1 => solo <= SoftAge + window'.lost
        /\ window'.lost # Never => solo <= SoftAge + Grace - 1 + EpochShare
    BY <1>1, <1>2, <1>8 DEF SoloCounted
  <2>2. window'.lost \in Int
    BY <1>1, <1>2, <1>8
  <2> QED  BY <1>1, <1>2, <1>3, <1>4, <1>5, <1>6, <2>1, <2>2
<1>9. CASE e.window.lost = 0 /\ window.lost = Never
  <2>1. solo <= EpochShare /\ window'.lost = 0
    BY <1>1, <1>2, <1>9 DEF SoloCounted
  <2> QED  BY <1>1, <1>2, <1>3, <1>4, <1>5, <1>6, <2>1 DEF Never
<1> QED  BY <1>3, <1>7, <1>8, <1>9

LEMMA InitGateInv == GateInit => GateInv
<1> SUFFICES ASSUME GateInit PROVE GateInv
  OBVIOUS
<1>1. Typed
  <2>1. -1 \in -1 .. Grace /\ 0 \in 0 .. SoftAge
    BY SafetyAssumption
  <2>2. window \in Windows
    BY <2>1 DEF GateInit, Windows, NoGrace, Never
  <2>3. session \in Loops
    BY <2>1 DEF GateInit, Session, Loops, Whys
  <2> QED  BY <2>2, <2>3 DEF GateInit, Typed
<1> QED  BY <1>1, SafetyAssumption DEF GateInit, GateInv, GraceOnOwnTip, SoloCounted, EpochShare, OnGrace,
            LocalGraceOnOwnTip, Session, NoGrace, Never

(* Steps after which no epoch is running on the grace, and no time has passed. *)
LEMMA SoloOutsideEpoch ==
    ASSUME GateInv, window' = window \/ window'.lost = window.lost, solo' = solo, ~OnGrace'
    PROVE  SoloCounted'
<1>1. /\ EpochShare \in 0 .. SoftAge /\ SoftAge \in Nat \ {0} /\ Grace \in Nat \ {0} /\ solo \in Nat
      /\ SoloCounted
  BY ShareBounded DEF GateInv, Typed
<1>2. EpochShare' = SoftAge /\ window'.lost = window.lost
  BY DEF EpochShare
<1> QED  BY <1>1, <1>2 DEF SoloCounted

LEMMA StepStatusEvaluates == GateInv /\ StatusEvaluates => GateInv'
<1> SUFFICES ASSUME GateInv, NEW e \in Evaluations, Evaluated(e), UNCHANGED <<session, oldTemplate, highStale>>
             PROVE  GateInv'
  BY DEF StatusEvaluates
<1>1. EpochShare' = EpochShare
  BY DEF EpochShare, OnGrace
<1> QED  BY <1>1, EvaluatedFacts DEF GateInv, Typed, SoloCounted, LocalGraceOnOwnTip

LEMMA StepSessionStarts == GateInv /\ SessionStarts => GateInv'
<1> SUFFICES ASSUME GateInv, SessionStarts PROVE GateInv'
  OBVIOUS
<1>1. PICK e \in Evaluations : Evaluated(e)
  BY DEF SessionStarts
<1>2. /\ session.at = "stopped" /\ oldTemplate' = FALSE /\ highStale' = FALSE
      /\ session' = [at |-> "between", why |-> "none", paused |-> FALSE, error |-> FALSE, own |-> FALSE, age |-> 0]
  BY DEF SessionStarts, Session
<1>3. session' \in Loops
  BY <1>2, SafetyAssumption DEF Loops, Whys
<1>4. EpochShare' = EpochShare
  BY <1>2 DEF EpochShare, OnGrace
<1> QED  BY <1>1, <1>2, <1>3, <1>4, EvaluatedFacts DEF GateInv, Typed, SoloCounted, LocalGraceOnOwnTip

LEMMA StepSessionStops == GateInv /\ SessionStops => GateInv'
<1> SUFFICES ASSUME GateInv, SessionStops PROVE GateInv'
  OBVIOUS
<1>1. /\ UNCHANGED <<localTip, ownTip, window, solo>> /\ oldTemplate' = FALSE /\ highStale' = FALSE
      /\ session' = Session("stopped", "none") \/ session' = Session("stopped", "unexpected")
  BY DEF SessionStops
<1>2. session' \in Loops /\ session'.at = "stopped"
  <2>1. 0 \in 0 .. SoftAge /\ "none" \in Whys /\ "unexpected" \in Whys
    BY SafetyAssumption DEF Whys
  <2>2. CASE session' = Session("stopped", "none")
    BY <2>1, <2>2 DEF Session, Loops
  <2>3. CASE session' = Session("stopped", "unexpected")
    BY <2>1, <2>3 DEF Session, Loops
  <2> QED  BY <1>1, <2>2, <2>3
<1>3. SoloCounted'
  BY <1>1, <1>2, SoloOutsideEpoch DEF OnGrace
<1> QED  BY <1>1, <1>2, <1>3 DEF GateInv, Typed, GraceOnOwnTip, LocalGraceOnOwnTip

LEMMA StepLoopEvaluates == GateInv /\ LoopEvaluates => GateInv'
<1> SUFFICES ASSUME GateInv, LoopEvaluates PROVE GateInv'
  OBVIOUS
<1>1. PICK e \in Evaluations :
        LET go == e.verdict.safe \/ e.verdict.why = "template"
        IN  /\ Evaluated(e)
            /\ session' = [at |-> IF go THEN "mining" ELSE "paused", why |-> e.verdict.why, age |-> 0,
                        own |-> ownTip, paused |-> ~go, error |-> ~go \/ (e.verdict.safe /\ session.error)]
            /\ oldTemplate' = (oldTemplate /\ ~go)
  BY DEF LoopEvaluates
<1> DEFINE go == e.verdict.safe \/ e.verdict.why = "template"
           broken == ~go \/ (e.verdict.safe /\ session.error)
<1>2. /\ session.at = "between" /\ highStale' = highStale
      /\ e.verdict.why \in Whys
      /\ e.verdict.why = "grace" => e.window.lost \in 0 .. Grace - 1
      /\ e.verdict.why = "local_grace" => window.local.tip = localTip
      /\ window' = e.window
  BY <1>1, EvaluationFacts DEF LoopEvaluates, GateInv, Typed, Evaluated
<1>3. session' = [at |-> IF go THEN "mining" ELSE "paused", why |-> e.verdict.why, age |-> 0,
               own |-> ownTip, paused |-> ~go, error |-> broken]
  BY <1>1
<1>4. go \in BOOLEAN /\ broken \in BOOLEAN /\ oldTemplate' \in BOOLEAN /\ 0 \in 0 .. SoftAge /\ ownTip \in BOOLEAN
  BY <1>1, SafetyAssumption DEF GateInv, Typed
<1> HIDE DEF go, broken
<1>5. session' \in Loops
  BY <1>2, <1>3, <1>4 DEF Loops
<1>6. /\ session'.at = (IF go THEN "mining" ELSE "paused") /\ session'.why = e.verdict.why /\ session'.age = 0
      /\ session'.own = ownTip
  BY <1>3
<1>7. session'.at = "paused" => session'.paused
  BY <1>3, Zenon
<1>8. LocalGraceOnOwnTip'
  BY <1>2, <1>6 DEF LocalGraceOnOwnTip, GateInv, GraceOnOwnTip
<1>9. EpochShare = SoftAge /\ EpochShare' = IF OnGrace' THEN 0 ELSE SoftAge
  BY <1>2, <1>6 DEF EpochShare, OnGrace
<1>10. /\ window' \in Windows /\ GraceOnOwnTip' /\ solo' \in Nat /\ UNCHANGED <<localTip, ownTip>>
       /\ window'.lost = Never => solo' <= SoftAge
       /\ window'.lost \in 0 .. Grace - 1 => solo' <= SoftAge + window'.lost
       /\ window'.lost # Never => solo' <= SoftAge + Grace - 1 + SoftAge
  BY <1>1, <1>9, EvaluatedFacts
<1>11. SoloCounted'
  <2>1. CASE OnGrace'
    <3>1. window'.lost \in 0 .. Grace - 1 /\ EpochShare' = 0
      BY <1>2, <1>6, <1>9, <2>1 DEF OnGrace
    <3>2. window'.lost # Never
      BY <3>1 DEF Never
    <3>3. solo' <= SoftAge + Grace - 1
      BY <1>10, <3>1, SafetyAssumption
    <3> QED  BY <1>10, <3>1, <3>2, <3>3, SafetyAssumption DEF SoloCounted
  <2>2. CASE ~OnGrace'
    BY <1>9, <1>10, <2>2 DEF SoloCounted
  <2> QED  BY <2>1, <2>2
<1> QED  BY <1>2, <1>4, <1>5, <1>7, <1>8, <1>10, <1>11 DEF GateInv, Typed

(* The loop goes on to its next evaluation. *)
LEMMA StepToBetween ==
    ASSUME GateInv, session' \in Loops, session'.at = "between", window'.lost = window.lost, window' \in Windows,
           GraceOnOwnTip', localTip' \in Nat, ownTip' \in BOOLEAN, solo' = solo,
           oldTemplate' \in BOOLEAN, highStale' \in BOOLEAN
    PROVE  GateInv'
<1>1. SoloCounted'
  BY SoloOutsideEpoch DEF OnGrace
<1> QED  BY <1>1 DEF GateInv, Typed, LocalGraceOnOwnTip

LEMMA AtFacts ==
    ASSUME session \in Loops, NEW p \in BOOLEAN
    PROVE  /\ At("between") \in Loops /\ At("between").at = "between"
           /\ [At("between") EXCEPT !.error = FALSE] \in Loops
           /\ [At("between") EXCEPT !.error = FALSE].at = "between"
           /\ [At("between") EXCEPT !.error = FALSE, !.paused = p] \in Loops
           /\ [At("between") EXCEPT !.error = FALSE, !.paused = p].at = "between"
           /\ [At("between") EXCEPT !.paused = FALSE, !.error = FALSE] \in Loops
           /\ [At("between") EXCEPT !.paused = FALSE, !.error = FALSE].at = "between"
<1>1. 0 \in 0 .. SoftAge /\ "none" \in Whys
  BY SafetyAssumption DEF Whys
<1>2. At("between") \in Loops /\ At("between").at = "between"
  BY <1>1 DEF At, Loops
<1> DEFINE b == At("between")
<1> HIDE DEF b
<1>3. ASSUME NEW x \in Loops, x.at = "between", NEW q \in BOOLEAN
      PROVE  /\ [x EXCEPT !.error = q] \in Loops /\ [x EXCEPT !.error = q].at = "between"
             /\ [x EXCEPT !.paused = q] \in Loops /\ [x EXCEPT !.paused = q].at = "between"
  BY <1>3 DEF Loops
<1> DEFINE c == [b EXCEPT !.error = FALSE]
           d == [b EXCEPT !.paused = FALSE]
<1>4. b \in Loops /\ b.at = "between"
  BY <1>2 DEF b
<1>5. c \in Loops /\ c.at = "between" /\ d \in Loops /\ d.at = "between"
  BY <1>3, <1>4
<1> HIDE DEF c, d
<1>6. [c EXCEPT !.paused = p] \in Loops /\ [c EXCEPT !.paused = p].at = "between"
  BY <1>3, <1>5
<1>7. [d EXCEPT !.error = FALSE] \in Loops /\ [d EXCEPT !.error = FALSE].at = "between"
  BY <1>3, <1>5
<1> QED  BY <1>2, <1>5, <1>6, <1>7 DEF b, c, d

LEMMA StepEpochOrPauseEnds == GateInv /\ (PauseEnds \/ EpochEnds \/ BlockWasStale) => GateInv'
<1> SUFFICES ASSUME GateInv, PauseEnds \/ EpochEnds \/ BlockWasStale PROVE GateInv'
  OBVIOUS
<1>1. /\ UNCHANGED <<localTip, ownTip, window, solo>>
      /\ oldTemplate' \in BOOLEAN /\ highStale' \in BOOLEAN
  BY DEF PauseEnds, EpochEnds, BlockWasStale, GateInv, Typed
<1>2. session' \in Loops /\ session'.at = "between"
  BY <1>1, AtFacts DEF PauseEnds, EpochEnds, BlockWasStale, GateInv, Typed
<1> QED  BY <1>1, <1>2, StepToBetween DEF GateInv, Typed, GraceOnOwnTip

LEMMA StepMineOwnBlock == GateInv /\ MineOwnBlock => GateInv'
<1> SUFFICES ASSUME GateInv, MineOwnBlock PROVE GateInv'
  OBVIOUS
<1>1. /\ localTip' = localTip + 1 /\ ownTip' = TRUE /\ solo' = solo
      /\ window' = [window EXCEPT !.local = [tip |-> localTip', age |-> 0]]
      /\ session' = [At("between") EXCEPT !.paused = FALSE, !.error = FALSE]
      /\ oldTemplate' \in BOOLEAN /\ highStale' \in BOOLEAN
  BY DEF MineOwnBlock, TipMoves
<1>2. localTip' \in Nat /\ window \in Windows /\ session \in Loops
  BY <1>1 DEF GateInv, Typed
<1>3. session' \in Loops /\ session'.at = "between"
  BY <1>1, <1>2, AtFacts
<1>4. window' \in Windows /\ window'.lost = window.lost /\ window'.local.tip = localTip'
  BY <1>1, <1>2 DEF Windows
<1>5. GraceOnOwnTip'
  BY <1>1, <1>2, <1>4 DEF GraceOnOwnTip
<1> QED  BY <1>1, <1>2, <1>3, <1>4, <1>5, StepToBetween

LEMMA StepPeers == GateInv /\ (PeerBlock \/ \E p \in Peer : PeerChanges(p)) => GateInv'
<1> SUFFICES ASSUME GateInv, PeerBlock \/ \E p \in Peer : PeerChanges(p) PROVE GateInv'
  OBVIOUS
<1>1. /\ UNCHANGED <<window, session, highStale, solo>> /\ oldTemplate' \in BOOLEAN
      /\ \/ localTip' = localTip + 1 /\ ownTip' = FALSE
         \/ UNCHANGED <<localTip, ownTip>>
  BY DEF PeerBlock, TipMoves, PeerChanges, GateInv, Typed
<1>2. window.local.tip \in Int /\ localTip \in Nat /\ window.local.tip <= localTip
  BY DEF GateInv, Typed, Windows, GraceOnOwnTip
<1>3. GraceOnOwnTip'
  BY <1>1, <1>2 DEF GateInv, GraceOnOwnTip
<1>4. localTip' \in Nat
  BY <1>1, <1>2
<1>5. ownTip' \in BOOLEAN
  BY <1>1 DEF GateInv, Typed
<1> QED  BY <1>1, <1>3, <1>4, <1>5 DEF GateInv, Typed, SoloCounted, EpochShare, OnGrace, LocalGraceOnOwnTip

LEMMA StepTick == GateInv /\ Tick => GateInv'
<1> SUFFICES ASSUME GateInv, Tick PROVE GateInv'
  OBVIOUS
<1>1. /\ UNCHANGED <<localTip, ownTip, oldTemplate, highStale>>
      /\ session.at = "mining" => session.age < SoftAge
      /\ window' = [local |-> [window.local EXCEPT !.age = Older(@, LocalGrace)],
                    lost |-> Older(window.lost, Grace), recovered |-> Older(window.recovered, Recovery),
                    paused |-> window.paused]
      /\ session' = IF session.at = "mining" THEN [session EXCEPT !.age = @ + 1] ELSE session
      /\ solo' = IF OnGrace THEN solo + 1 ELSE solo
  BY DEF Tick, OnGrace
<1>2. /\ window \in Windows /\ session \in Loops /\ solo \in Nat /\ SoloCounted
      /\ SoftAge \in Nat \ {0} /\ Grace \in Nat \ {0} /\ session.age \in 0 .. SoftAge
      /\ window.lost \in Int /\ window.lost \in Never .. Grace
  BY SafetyAssumption DEF GateInv, Typed, Windows, Loops, Never
<1>3. /\ window'.lost = Older(window.lost, Grace) /\ window'.local.tip = window.local.tip
  BY <1>1, <1>2 DEF Windows
<1>4. \/ window.lost = Never /\ window'.lost = Never
      \/ window.lost \in 0 .. Grace - 1 /\ window'.lost = window.lost + 1
      \/ window.lost = Grace /\ window'.lost = Grace
  BY <1>2, <1>3 DEF Older, Never
<1>5. window' \in Windows
  <2>1. Older(window.local.age, LocalGrace) \in Int /\ Older(window.recovered, Recovery) \in Int
    BY <1>2 DEF Older, Windows
  <2>2. [window.local EXCEPT !.age = Older(@, LocalGrace)] \in [tip : Int, age : Int]
    BY <1>2, <2>1 DEF Windows
  <2>3. Older(window.lost, Grace) \in Never .. Grace /\ window.paused \in BOOLEAN
    BY <1>2, <1>3, <1>4 DEF Windows, Never
  <2> QED  BY <1>1, <2>1, <2>2, <2>3 DEF Windows
<1>6. /\ session' \in Loops /\ session'.at = session.at /\ session'.why = session.why /\ session'.own = session.own
      /\ session'.paused = session.paused
      /\ session.at = "mining" => session'.age = session.age + 1
  <2>1. CASE session.at = "mining"
    <3>1. session.age + 1 \in 0 .. SoftAge
      BY <1>1, <1>2, <2>1
    <3> QED  BY <1>1, <1>2, <2>1, <3>1 DEF Loops
  <2>2. CASE session.at # "mining"
    BY <1>1, <1>2, <2>2
  <2> QED  BY <2>1, <2>2
<1>7. SoloCounted'
  <2>1. CASE OnGrace
    <3>1. EpochShare = session.age /\ EpochShare' = session.age + 1 /\ solo' = solo + 1
      BY <1>1, <1>6, <2>1 DEF EpochShare, OnGrace
    <3> QED  BY <1>2, <1>4, <3>1 DEF SoloCounted, Never
  <2>2. CASE ~OnGrace
    <3>1. EpochShare = SoftAge /\ EpochShare' = SoftAge /\ solo' = solo
      BY <1>1, <1>6, <2>2 DEF EpochShare, OnGrace
    <3> QED  BY <1>2, <1>4, <3>1 DEF SoloCounted, Never
  <2> QED  BY <2>1, <2>2
<1>8. GraceOnOwnTip'
  BY <1>1, <1>3 DEF GateInv, GraceOnOwnTip
<1>9. solo' \in Nat
  BY <1>1, <1>2
<1> QED  BY <1>1, <1>5, <1>6, <1>7, <1>8, <1>9 DEF GateInv, Typed, LocalGraceOnOwnTip

LEMMA StepGateInv == GateInv /\ [GateNext]_gatevars => GateInv'
<1>1. GateInv /\ UNCHANGED gatevars => GateInv'
  BY DEF gatevars, GateInv, Typed, GraceOnOwnTip, SoloCounted, EpochShare, OnGrace, LocalGraceOnOwnTip
<1> QED
  BY <1>1, StepStatusEvaluates, StepSessionStarts, StepSessionStops, StepLoopEvaluates,
     StepEpochOrPauseEnds, StepMineOwnBlock, StepPeers, StepTick DEF GateNext
-----------------------------------------------------------------------------
(* What the invariant says *)

(* A pause leaves its mark, so the status finds a reason to report. *)
LEMMA PausedIsReported == GateInv => PauseIsReported
<1> SUFFICES ASSUME GateInv, session.at = "paused", NEW e \in Evaluations
             PROVE  ResolveMinerRuntimeState(e) # "running"
  BY DEF PauseIsReported
<1> DEFINE bs == << <<highStale, "high_stale_rate">>, <<e.in.behind > BehindAllowed, "behind">>,
                    <<e.in.sync # "current", "sync">>, <<oldTemplate, "template">>,
                    <<~e.verdict.safe, e.verdict.why>>, <<session.paused, "earlier_pause">>,
                    <<session.error, "earlier_error">> >>
<1>1. e.verdict.why # "none"
  BY EvaluationFacts DEF GateInv, Typed
<1>2. /\ Len(bs) = 7 /\ DOMAIN bs = 1 .. 7
      /\ bs[1][2] = "high_stale_rate" /\ bs[2][2] = "behind" /\ bs[3][2] = "sync"
      /\ bs[4][2] = "template" /\ bs[5][2] = e.verdict.why /\ bs[6][2] = "earlier_pause"
      /\ bs[7][2] = "earlier_error"
  OBVIOUS
<1>3. bs[6] = <<session.paused, "earlier_pause">> /\ session.paused
  BY DEF GateInv
<1>4. bs[6][1]
  BY <1>3
<1> HIDE DEF bs
<1>5. \A i \in 1 .. 7 : i = 1 \/ i = 2 \/ i = 3 \/ i = 4 \/ i = 5 \/ i = 6 \/ i = 7
  OBVIOUS
<1>6. \E i \in 1 .. 7 : FirstBlocker(bs) = bs[i][2]
  <2>1. DOMAIN bs = 1 .. Len(bs) /\ Len(bs) \in 0 .. 7 /\ 6 \in DOMAIN bs /\ DOMAIN bs = 1 .. 7
    BY <1>2
  <2> QED  BY <1>4, <2>1, BlockerNamed
<1>7. FirstBlocker(bs) # "none"
  BY <1>1, <1>2, <1>5, <1>6
<1>8. firstMinerBlockerReason(e) = FirstBlocker(bs)
  BY DEF firstMinerBlockerReason, bs
<1> QED  BY <1>7, <1>8 DEF ResolveMinerRuntimeState

LEMMA SoloFollows == GateInv => SoloMiningBounded
<1> SUFFICES ASSUME GateInv PROVE SoloMiningBounded
  OBVIOUS
<1>1. /\ EpochShare \in 0 .. SoftAge /\ SoftAge \in Nat \ {0} /\ Grace \in Nat \ {0} /\ solo \in Nat
      /\ SoloCounted
  BY ShareBounded DEF GateInv, Typed
<1> QED  BY <1>1 DEF SoloCounted, SoloMiningBounded

(* The invariant of the gate, for any peers and windows.                   *)
THEOREM GateSafe == GateSpec => []GateInv
  BY InitGateInv, StepGateInv, PTL DEF GateSpec

(* Mining without enough peers ends after its windows, mining through the  *)
(* propagation grace is on a block of one's own, and a pause shows in      *)
(* getminerstatus, however evaluations by the loop and by status requests  *)
(* fall.                                                                   *)
THEOREM SafetyGateAlwaysHolds == GateSpec => []SafetyGateHolds
<1>1. GateInv => SafetyGateHolds
  BY SoloFollows, PausedIsReported DEF GateInv, SafetyGateHolds
<1> QED  BY <1>1, GateSafe, PTL
=============================================================================
