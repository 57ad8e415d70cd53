---------------------------- MODULE MiningSafety ----------------------------
(***************************************************************************)
(* The safety gate of the miner (internal/rpc/mining_safety.go,            *)
(* mining_safety_server.go) and what getminerstatus makes of it            *)
(* (miner_state.go): may this node mine on its tip, seen what its peers    *)
(* report?  The loop of MinerSupervisor asks before every epoch, and       *)
(* status requests ask at any time; each evaluation also moves the windows *)
(* kept in Server: since when agreement is lost or back, and the grace     *)
(* that a block of our own gets while it travels.                          *)
(*                                                                         *)
(* Heights only matter relative to the local tip: a peer's lag is the      *)
(* number of blocks it is behind us, negative when it is ahead.  Time is   *)
(* counted in ticks, and each window is the age of the moment it records.  *)
(***************************************************************************)
EXTENDS Integers, FiniteSets, SequencesExt

CONSTANTS
    Peer,
    MinAgreeing,    \* mining_min_agreeing_peers
    BehindAllowed,  \* mining_blocks_behind_ok
    AllowUnsafe,    \* mining_safe_required off and mining_allow_unsafe on
    Grace, Recovery,\* mining_peer_grace_seconds, mining_peer_recovery_seconds
    LocalGrace,     \* defaultLocalBlockPropagationSeconds
    SoftAge,        \* DefaultSoftTemplateRefreshAge: no epoch lasts longer
    MaxAhead,       \* bound: a peer is at most so many blocks ahead
    MaxTips         \* bound: the tip changes so many times

ASSUME SafetyAssumption ==
    /\ IsFiniteSet(Peer)
    /\ {MinAgreeing, Recovery, SoftAge} \subseteq Nat \ {0}
    /\ {BehindAllowed, MaxAhead, MaxTips} \subseteq Nat
    /\ {Grace, LocalGrace} \subseteq Nat \ {0}
    /\ AllowUnsafe \in BOOLEAN

VARIABLES
    localTip,  \* the identity of the local tip
    ownTip,    \* history: this node mined the tip itself
    peer,      \* [Peer -> what the node knows of it]
    window,    \* the minerPeerAgreementXxx and minerLocalBlockGraceXxx fields
    session,   \* the miner's session: where it is, its verdict, and the age of its epoch
    oldTemplate, \* the template of the last epoch is stale
    highStale, \* the stale rate of the session is at the pause limit
    solo       \* history: ticks mined without agreement since it was last seen

gatevars == <<localTip, ownTip, peer, window, session, oldTemplate, highStale, solo>>

Never == -1
Lags == (-MaxAhead)..3     \* three behind is three or more, or no answer

PeerState == [lag : Lags, flag : {"gone", "ok", "bad"}]
Gone == [lag |-> 0, flag |-> "gone"]
Connected == {p \in Peer : peer[p].flag # "gone"}

NoGrace == [tip |-> Never, age |-> Never]

(******************************* The peers *******************************)

(***************************************************************************)
(* A "bad" peer is on another chain or sent something that was refused.    *)
(* One that misses its pongs, or has told no height, counts for nothing,   *)
(* like one that lags far behind.  A height is that of the last message,   *)
(* however old.                                                            *)
(***************************************************************************)
classifyPeerSafety(p) ==
    CASE p.flag = "bad" -> "bad"
      [] p.flag = "ok"  -> CASE p.lag < 0 -> "stronger"
                             [] p.lag = 0 -> "agreeing"
                             [] p.lag = 1 -> "lagging_1"
                             [] p.lag = 2 -> "lagging_2"
                             [] p.lag = 3 -> "lagging_more"

(* At least three usable peers, spread over more than three blocks, most of them not at the top. *)
miningPeerSetSplit ==
    LET usable == Connected
        near(p) == \A q \in usable : peer[p].lag - peer[q].lag <= 1
    IN  /\ Cardinality(usable) >= 3
        /\ \E p, q \in usable : peer[p].lag - peer[q].lag > 3
        /\ 2 * Cardinality({p \in usable : near(p)}) < Cardinality(usable)

BlocksBehind == Max({0} \cup {-peer[p].lag : p \in Connected})

(* "stuck": no height progress for three block intervals; "quiet": neither headers nor blocks lately. *)
SyncStatus(behind, quiet, stuck) ==
    CASE Connected = {} -> "no_peers"
      [] Connected # {} /\ behind > 0 /\ stuck
            /\ (quiet \/ \E p \in Connected : peer[p].flag = "bad") -> "stalled"
      [] OTHER -> IF behind > 1 THEN "catching_up" ELSE "current"

assessMiningPeers(cats) == [c \in {"agreeing", "lagging_1", "lagging_2", "stronger", "bad"} |->
                                Cardinality({p \in Connected : cats[p] = c})]

(* The input of the gate. *)
checkSafeToMine(n, behind, quiet, stuck) ==
    [peers |-> Cardinality(Connected), agreeing |-> n["agreeing"],
     compatible |-> n["agreeing"] + n["lagging_1"] + n["lagging_2"], lagging1 |-> n["lagging_1"],
     stronger |-> n["stronger"], bad |-> n["bad"], behind |-> behind,
     sync |-> SyncStatus(behind, quiet, stuck), noUseful |-> quiet /\ behind > 0,
     split |-> miningPeerSetSplit]

Inputs ==
    LET counts == {assessMiningPeers([p \in Connected |-> classifyPeerSafety(peer[p])])}
        behind == {BlocksBehind}
    IN  {checkSafeToMine(n, b, quiet, stuck) : n \in counts, b \in behind, quiet, stuck \in BOOLEAN}

Risk(in) == in.peers = 0 \/ in.stronger > 0 \/ in.bad > 0 \/ in.behind > BehindAllowed

(****************************** The windows ******************************)

(* The grace of our own block: not given, refused because something is wrong, or running. *)
LocalGraceAnyTip(in) ==
    LET g == window.local
    IN  CASE g = NoGrace -> "none"
          [] g.age >= LocalGrace -> "denied"
          [] in.agreeing >= MinAgreeing -> "done"
          [] in.compatible < 2 -> "denied"
          [] OTHER -> "active"

applyLocalBlockPropagationGraceLocked(in) ==
    LET g == window.local
    IN  CASE g = NoGrace -> "none"
          [] g.age >= LocalGrace \/ g.tip # localTip -> "denied"
          [] in.agreeing >= MinAgreeing -> "done"
          [] in.compatible < 2 -> "denied"
          [] OTHER -> "active"

(* The window starts again at every evaluation that misses agreement. *)
WindowRestarts(in) ==
    LET local == applyLocalBlockPropagationGraceLocked(in)
        kept == IF local = "active" THEN window.local ELSE NoGrace
    IN  CASE Risk(in) -> [after |-> [window EXCEPT !.local = NoGrace], local |-> FALSE, grace |-> FALSE, recovery |-> FALSE]
          [] ~Risk(in) /\ in.agreeing < MinAgreeing ->
                [after |-> [window EXCEPT !.local = kept, !.lost = 0, !.recovered = Never],
                 local |-> local = "active", grace |-> local # "denied", recovery |-> FALSE]
          [] OTHER ->
                [after |-> [local |-> kept, lost |-> Never, recovered |-> Never, paused |-> FALSE],
                 local |-> FALSE, grace |-> FALSE, recovery |-> FALSE]

(***************************************************************************)
(* What an evaluation leaves in Server ("after") and tells the gate.  A    *)
(* refused local grace returns before the ordinary window is looked at.    *)
(***************************************************************************)
applyMiningPeerAgreementWindow(in) ==
    LET local == applyLocalBlockPropagationGraceLocked(in)
        kept == IF local = "active" THEN window.local ELSE NoGrace
        lost == IF window.lost = Never THEN 0 ELSE window.lost
        back == IF window.recovered = Never THEN 0 ELSE window.recovered
        answer(w, g, r) == [after |-> w, local |-> local = "active", grace |-> g, recovery |-> r]
    IN  CASE Risk(in) \/ local = "denied" ->
                [after |-> [window EXCEPT !.local = NoGrace], local |-> FALSE, grace |-> FALSE, recovery |-> FALSE]
          [] ~Risk(in) /\ local # "denied" /\ in.agreeing < MinAgreeing ->
                answer([local |-> kept, lost |-> lost, recovered |-> Never,
                        paused |-> window.paused \/ lost >= Grace], lost < Grace, FALSE)
          [] OTHER ->
                IF window.paused /\ back < Recovery
                THEN answer([window EXCEPT !.local = kept, !.lost = Never, !.recovered = back], FALSE, TRUE)
                ELSE answer([local |-> kept, lost |-> Never, recovered |-> Never, paused |-> FALSE], FALSE, FALSE)

(******************************** The gate ********************************)

Verdict(safe, why) == [safe |-> safe, why |-> why]

(* The first of these conditions that holds, in this order, blocks mining. *)
EarlyBlockers(in) ==
    << <<in.sync = "no_peers", "no_peers">>, <<in.stronger > 0, "stronger">>,
       <<in.bad > 0, "bad_peer">>, <<in.behind > BehindAllowed, "behind">>, <<in.sync # "current", "sync">> >>
LateBlockers(in) ==
    << <<in.noUseful, "peer_data_stale">>, <<in.split, "split">>, <<oldTemplate, "template">>,
       <<highStale, "high_stale_rate">> >>

FirstBlocker(bs) == LET i == SelectInSeq(bs, LAMBDA b : b[1]) IN IF i = 0 THEN "none" ELSE bs[i][2]

CheckSafeToMine(in, win) ==
    LET early == FirstBlocker(EarlyBlockers(in))
        late == FirstBlocker(LateBlockers(in))
        oneBehind == /\ in.agreeing >= 1 /\ in.compatible >= MinAgreeing /\ in.lagging1 >= 1 /\ ~in.noUseful
    IN  CASE AllowUnsafe -> Verdict(TRUE, "override")
          [] ~AllowUnsafe /\ early # "none" -> Verdict(FALSE, early)
          [] ~AllowUnsafe /\ early = "none" /\ in.agreeing < MinAgreeing ->
                CASE oneBehind -> Verdict(TRUE, "one_behind")
                  [] ~oneBehind /\ win.local -> Verdict(TRUE, "local_grace")
                  [] ~oneBehind /\ ~win.local /\ win.grace -> Verdict(TRUE, "grace")
                  [] ~oneBehind /\ ~win.local /\ ~win.grace /\ win.recovery -> Verdict(FALSE, "recovery")
                  [] OTHER -> Verdict(FALSE, "agreement")
          [] OTHER -> IF late # "none" THEN Verdict(FALSE, late) ELSE Verdict(TRUE, "safe")

(* What an evaluation may find now: the input, the verdict and the windows it leaves. *)
Evaluations ==
    LET gated == {[in |-> in, win |-> applyMiningPeerAgreementWindow(in)] : in \in Inputs}
    IN  {[in |-> g.in, window |-> g.win.after, verdict |-> CheckSafeToMine(g.in, g.win)] : g \in gated}

(************************* What the status reports *************************)

firstMinerBlockerReason(e) ==
    FirstBlocker(<< <<highStale, "high_stale_rate">>, <<e.in.behind > BehindAllowed, "behind">>,
                    <<e.in.sync # "current", "sync">>, <<oldTemplate, "template">>,
                    <<~e.verdict.safe, e.verdict.why>>, <<session.paused, "earlier_pause">>,
                    <<session.error, "earlier_error">> >>)

ResolveMinerRuntimeState(e) ==
    CASE session.at = "stopped" -> IF session.why = "unexpected" THEN "error" ELSE "stopped"
      [] session.at # "stopped" /\ firstMinerBlockerReason(e) # "none" -> "paused"
      [] OTHER -> "running"

(******************************** Actions ********************************)

At(step) == [session EXCEPT !.at = step, !.why = "none", !.age = 0]
Session(step, why) == [at |-> step, why |-> why, paused |-> FALSE, error |-> FALSE, own |-> FALSE, age |-> 0]

GateInit ==
    /\ localTip = 0 /\ ownTip = FALSE
    /\ peer = [p \in Peer |-> Gone]
    /\ window = [local |-> NoGrace, lost |-> Never, recovered |-> Never, paused |-> FALSE]
    /\ session = Session("stopped", "none")
    /\ oldTemplate = FALSE /\ highStale = FALSE /\ solo = 0

(* A clock that is not bounded by its window. *)
OlderForEver(age, limit) == IF age >= 0 THEN age + 1 ELSE age
Older(age, limit) == IF age \in 0..(limit - 1) THEN age + 1 ELSE age
Shift(q, n) == IF q.flag = "gone" THEN Gone ELSE [q EXCEPT !.lag = Max({-MaxAhead, Min({3, @ + n})})]

(* Every evaluation moves the windows; the history sees whether enough peers agree. *)
Evaluated(e) ==
    /\ window' = e.window
    /\ solo' = IF e.in.agreeing >= MinAgreeing THEN 0 ELSE solo
    /\ UNCHANGED <<localTip, ownTip, peer>>

(* getminerstatus and getchainstatus. *)
StatusEvaluates ==
    \E e \in Evaluations : Evaluated(e) /\ UNCHANGED <<session, oldTemplate, highStale>>

(* startMiner refuses to start when the gate does. *)
SessionStarts ==
    /\ session.at = "stopped"
    /\ \E e \in Evaluations : e.verdict.safe /\ Evaluated(e)
    /\ session' = Session("between", "none")
    /\ oldTemplate' = FALSE /\ highStale' = FALSE

(* On request, or because the loop finds the storage unusable. *)
SessionStops ==
    /\ session.at # "stopped"
    /\ \/ session' = Session("stopped", "none")
       \/ session.at = "between" /\ session' = Session("stopped", "unexpected")
    /\ oldTemplate' = FALSE /\ highStale' = FALSE
    /\ UNCHANGED <<localTip, ownTip, peer, window, solo>>

(* The loop pauses without leaving a reason. *)
LoopPausesSilently ==
    /\ session.at = "between"
    /\ \E e \in Evaluations :
          LET go == e.verdict.safe \/ e.verdict.why = "template"
          IN  /\ Evaluated(e)
              /\ session' = [Session(IF go THEN "mining" ELSE "paused", e.verdict.why) EXCEPT !.own = ownTip]
              /\ oldTemplate' = (oldTemplate /\ ~go)
    /\ UNCHANGED highStale

(***************************************************************************)
(* minerLoop asks the gate and starts an epoch, or pauses; a template that *)
(* is merely stale is renewed by the epoch.  An error left by an earlier   *)
(* pause stays on record during the epoch.                                 *)
(***************************************************************************)
LoopEvaluates ==
    /\ session.at = "between"
    /\ \E e \in Evaluations :
          LET go == e.verdict.safe \/ e.verdict.why = "template"
          IN  /\ Evaluated(e)
              /\ session' = [at |-> IF go THEN "mining" ELSE "paused", why |-> e.verdict.why, age |-> 0,
                          own |-> ownTip, paused |-> ~go, error |-> ~go \/ (e.verdict.safe /\ session.error)]
              /\ oldTemplate' = (oldTemplate /\ ~go)
    /\ UNCHANGED highStale

(* The stale rate that caused the pause is kept. *)
ResumeKeepsRate ==
    /\ session.at = "paused"
    /\ session' = At("between")
    /\ UNCHANGED <<localTip, ownTip, peer, window, oldTemplate, highStale, solo>>

(* The timer of the pause; one for a high stale rate forgets the rate and the template. *)
PauseEnds ==
    /\ session.at = "paused"
    /\ session' = At("between")
    /\ IF session.why = "high_stale_rate"
       THEN highStale' = FALSE /\ oldTemplate' = FALSE
       ELSE UNCHANGED <<highStale, oldTemplate>>
    /\ UNCHANGED <<localTip, ownTip, peer, window, solo>>

(* Stale template, soft refresh, exhausted nonces, failed worker. *)
EpochEnds ==
    /\ session.at = "mining"
    /\ session' = [At("between") EXCEPT !.error = FALSE]
    /\ UNCHANGED <<localTip, ownTip, peer, window, oldTemplate, highStale, solo>>

(* A block was found on a tip that had moved: the stale rate may reach its limit. *)
BlockWasStale ==
    /\ session.at = "mining" /\ oldTemplate
    /\ highStale' \in BOOLEAN /\ (highStale => highStale')
    /\ session' = [At("between") EXCEPT !.error = FALSE, !.paused = highStale']
    /\ UNCHANGED <<localTip, ownTip, peer, window, oldTemplate, solo>>

TipMoves(mine) ==
    /\ localTip < MaxTips
    /\ localTip' = localTip + 1 /\ ownTip' = mine
    /\ peer' = [p \in Peer |-> Shift(peer[p], 1)]
    /\ oldTemplate' = (session.at # "stopped")

(* The rate may still be at its limit after one more accepted block. *)
MineOwnBlock ==
    /\ session.at = "mining" /\ ~oldTemplate
    /\ TipMoves(TRUE)
    /\ window' = [window EXCEPT !.local = [tip |-> localTip', age |-> 0]]
    /\ session' = [At("between") EXCEPT !.paused = FALSE, !.error = FALSE]
    /\ highStale' \in BOOLEAN /\ (highStale' => highStale)
    /\ UNCHANGED solo

(* A block of a peer that is ahead: on top of our tip, or of a branch that replaces it. *)
PeerBlock ==
    /\ \E p \in Connected : peer[p].lag < 0 /\ peer[p].flag = "ok"
    /\ TipMoves(FALSE)
    /\ UNCHANGED <<window, session, highStale, solo>>

PeerChanges(p) ==
    /\ \/ peer[p] = Gone /\ \E l \in Lags : peer' = [peer EXCEPT ![p] = [lag |-> l, flag |-> "ok"]]
       \/ peer[p] # Gone /\ peer' = [peer EXCEPT ![p] = Gone]
       \/ peer[p] # Gone /\ peer' = [peer EXCEPT ![p] = Shift(@, -1)]
       \/ peer[p] # Gone /\ \E f \in {"ok", "bad"} : peer' = [peer EXCEPT ![p].flag = f]
    /\ UNCHANGED <<localTip, ownTip, window, session, oldTemplate, highStale, solo>>

(* No epoch outlives its soft refresh age, and a loop between epochs does not wait. *)
Tick ==
    /\ session.at # "between"
    /\ session.at = "mining" => session.age < SoftAge
    /\ window' = [local |-> [window.local EXCEPT !.age = Older(@, LocalGrace)],
                  lost |-> Older(window.lost, Grace), recovered |-> Older(window.recovered, Recovery),
                  paused |-> window.paused]
    /\ session' = IF session.at = "mining" THEN [session EXCEPT !.age = @ + 1] ELSE session
    /\ solo' = IF session.at = "mining" /\ session.why = "grace" THEN solo + 1 ELSE solo
    /\ UNCHANGED <<localTip, ownTip, peer, oldTemplate, highStale>>

GateNext ==
    \/ StatusEvaluates \/ SessionStarts \/ SessionStops
    \/ LoopEvaluates \/ PauseEnds \/ EpochEnds \/ BlockWasStale \/ MineOwnBlock
    \/ PeerBlock \/ Tick
    \/ \E p \in Peer : PeerChanges(p)

GateSpec == GateInit /\ [][GateNext]_gatevars

(* The loop's timers expire and its epochs end; nothing else is promised. *)
FairGateSpec == GateSpec /\ WF_gatevars(LoopEvaluates) /\ WF_gatevars(PauseEnds) /\ WF_gatevars(EpochEnds)

(****************************** Properties ******************************)

(* Every variable holds a value of its type. *)
GateTypeOK ==
    /\ localTip \in 0..MaxTips /\ ownTip \in BOOLEAN
    /\ peer \in [Peer -> PeerState]
    /\ window \in [local : [tip : Never..MaxTips, age : Never..LocalGrace], lost : Never..Grace,
                   recovered : Never..Recovery, paused : BOOLEAN]
    /\ session.at \in {"stopped", "between", "paused", "mining"}
    /\ session.age \in 0..SoftAge
    /\ oldTemplate \in BOOLEAN /\ highStale \in BOOLEAN /\ solo \in Nat

(***************************************************************************)
(* However peers come and go, and however often the status is asked for,   *)
(* the node mines on the grace of a lost agreement for at most the rest of *)
(* the epoch in which enough peers were last seen to agree, the grace      *)
(* period, and the one epoch that is running when the period ends.         *)
(***************************************************************************)
SoloMiningBounded == solo < Grace + 2 * SoftAge

(***************************************************************************)
(* The propagation grace is only ever granted on a tip this node mined     *)
(* itself: a peer's block on top of it, or in its place, ends it.          *)
(***************************************************************************)
LocalGraceOnOwnTip == session.at = "mining" /\ session.why = "local_grace" => session.own

(***************************************************************************)
(* A loop that sleeps in a pause is not reported as running, even when     *)
(* what paused it has gone away while it slept.                            *)
(***************************************************************************)
PauseIsReported ==
    session.at = "paused" =>
        \A e \in Evaluations : ResolveMinerRuntimeState(e) # "running"

(***************************************************************************)
(* Mining without enough peers ends after its windows, mining through the  *)
(* local grace is on a block of one's own, and a pause shows.              *)
(***************************************************************************)
SafetyGateHolds == SoloMiningBounded /\ LocalGraceOnOwnTip /\ PauseIsReported

(* The session goes on, enough peers agree and none is a risk. *)
Calm ==
    /\ session.at # "stopped"
    /\ Cardinality({p \in Connected : classifyPeerSafety(peer[p]) = "agreeing"}) >= MinAgreeing
    /\ \A p \in Connected : peer[p].flag = "ok" /\ peer[p].lag >= 0

(***************************************************************************)
(* No pause is for ever: when the peers agree with this node from some     *)
(* point on, it mines again and again, whatever windows, stale rate and    *)
(* templates the earlier trouble has left behind.                          *)
(***************************************************************************)
MiningResumes == <>[]Calm => []<>(session.at = "mining")
=============================================================================
