--------------------------- MODULE MinerSupervisor ---------------------------
(***************************************************************************)
(* The miner control of the RPC server (internal/rpc/server.go):           *)
(* startminer, stopminer and restartminer, called by concurrent HTTP       *)
(* requests, and minerLoop, the goroutine that a start leaves behind and   *)
(* that calls Mining's MineBlock over and over.  All shared fields are     *)
(* guarded by minerMu: one step here is one critical section, or one       *)
(* blocking point between two of them.                                     *)
(*                                                                         *)
(* Peers, storage health and the verdict of checkSafeToMine (module        *)
(* MiningSafety) change at any time: a test of one may go either way.  The *)
(* fields that getminerstatus only displays are left out.                  *)
(***************************************************************************)
EXTENDS Mining

CONSTANTS
    Caller,        \* RPC requests that may be in progress together
    NoLoop,
    StopAfter,     \* values of stop_after_blocks; 0 is no limit
    Restarts,      \* whether callers use restartminer
    MaxRejected    \* bound: failed epochs are counted up to here

ASSUME SupervisorAssumption ==
    /\ NoLoop \notin Loop
    /\ StopAfter \subseteq Nat
    /\ Restarts \in BOOLEAN
    /\ MaxRejected \in Nat

VARIABLES
    miner,      \* the minerXxx fields of Server
    enabled,    \* mining_enabled as last written to the config file
    wg,         \* minerLoopWg
    loop,       \* [Loop -> where the goroutine is]
    exit,       \* [Loop -> its exitStopReason]
    call        \* [Caller -> where the request is]

svars == <<miner, enabled, wg, loop, exit, call>>
vars == <<miningVars, svars>>

(* "none" is the empty string. *)
Reasons == {"none", "rpc_stopminer", "supervisor_shutdown", "node_shutdown", "unsafe_peers",
            "internal_error", "worker_exit_unexpected"}

minerStopReasonIsUnexpected(r) == r \in {"worker_exit_unexpected", "internal_error"}

Idle == [active |-> FALSE, hashing |-> FALSE, cancel |-> NoLoop, requested |-> "none", lastStop |-> "none",
         blocks |-> 0, stale |-> 0, rejected |-> 0, limit |-> 0, staleRatePause |-> FALSE,
         recovering |-> FALSE]

MinerFields ==
    [active : BOOLEAN, hashing : BOOLEAN, cancel : Loop \cup {NoLoop}, requested : Reasons,
     lastStop : Reasons, blocks : Nat, stale : Nat, rejected : Nat, limit : Nat,
     staleRatePause : BOOLEAN, recovering : BOOLEAN]

(* "exiting" has told the wait group, "over" has also cleaned up. *)
LoopSteps == {"unused", "reserved", "top", "limit", "peers", "storage", "safety", "paused", "highstale",
              "epoch", "mining", "returned", "announce", "retry", "exit", "exiting", "over"}

Calls == [op : {"none", "start", "stop", "restart"}, at : {"idle", "lock", "spawn", "wait"},
          loop : Loop \cup {NoLoop}]
NoRequest == [op |-> "none", at |-> "idle", loop |-> NoLoop]

Init ==
    /\ MiningInit
    /\ miner = Idle /\ enabled = FALSE /\ wg = 0
    /\ loop = [l \in Loop |-> "unused"]
    /\ exit = [l \in Loop |-> "worker_exit_unexpected"]
    /\ call = [c \in Caller |-> NoRequest]

Goto(l, step) == loop' = [loop EXCEPT ![l] = step]
Request(c, r) == call' = [call EXCEPT ![c] = r]

(****************************** startminer ******************************)

(* The checks before the lock: options, destination, storage, peers, safety. *)
StartChecked(c) ==
    /\ call[c].at = "idle"
    /\ Request(c, [op |-> "start", at |-> "lock", loop |-> NoLoop])
    /\ UNCHANGED <<miningVars, miner, enabled, wg, loop, exit>>

AlreadyRunning(c) ==
    /\ call[c].op \in {"start", "restart"} /\ call[c].at = "lock"
    /\ miner.active
    /\ Request(c, NoRequest)
    /\ UNCHANGED <<miningVars, miner, enabled, wg, loop, exit>>

(* A new session: every field of the last one is reset, but not its recovery state. *)
StartLocked(c) ==
    /\ call[c].op \in {"start", "restart"} /\ call[c].at = "lock"
    /\ ~miner.active
    /\ \E l \in Loop, limit \in StopAfter :
          /\ loop[l] = "unused"
          /\ miner' = [Idle EXCEPT !.active = TRUE, !.cancel = l, !.limit = limit,
                                   !.recovering = miner.recovering]
          /\ Goto(l, "reserved")
          /\ Request(c, [call[c] EXCEPT !.at = "spawn", !.loop = l])
    /\ UNCHANGED <<miningVars, enabled, wg, exit>>

(* After the unlock: the config lines, minerLoopWg.Add(1) and the goroutine. *)
StartSpawn(c) ==
    /\ call[c].at = "spawn"
    /\ enabled' = TRUE
    /\ wg' = wg + 1
    /\ Goto(call[c].loop, "top")
    /\ Request(c, NoRequest)
    /\ UNCHANGED <<miningVars, miner, exit>>

(******************************* stopminer *******************************)

StopLocked(c) ==
    /\ call[c].at = "idle"
    /\ \E op \in {"stop"} \cup (IF Restarts THEN {"restart"} ELSE {}) :
          LET reason == IF op = "stop" THEN "rpc_stopminer" ELSE "supervisor_shutdown"
          IN  /\ Request(c, [op |-> op, at |-> "wait", loop |-> NoLoop])
              /\ miner' = [miner EXCEPT !.requested = reason, !.active = FALSE, !.hashing = FALSE,
                                        !.cancel = NoLoop, !.lastStop = reason]
    /\ ctx' = [l \in Loop |-> ctx[l] \/ l = miner.cancel]
    /\ UNCHANGED <<tip, mine, enabled, wg, loop, exit>>

(* stopMiner does not wait for the loop. *)
StopWithoutWaiting(c) ==
    /\ call[c].at = "wait"
    /\ enabled' = FALSE
    /\ Request(c, NoRequest)
    /\ UNCHANGED <<miningVars, miner, wg, loop, exit>>

(* minerLoopWg.Wait() returns; restartminer goes on with startMiner. *)
StopReturned(c) ==
    /\ call[c].at = "wait" /\ wg = 0
    /\ enabled' = FALSE
    /\ \/ call[c].op = "restart" /\ Request(c, [call[c] EXCEPT !.at = "lock"])
       \/ Request(c, NoRequest)
    /\ UNCHANGED <<miningVars, miner, wg, loop, exit>>

(******************************* minerLoop *******************************)

Exit(l, reason) ==
    /\ Goto(l, "exit")
    /\ exit' = [exit EXCEPT ![l] = reason]

(* The context is not looked at between two epochs. *)
LoopTopIgnoresContext(l) ==
    /\ loop[l] = "top"
    /\ Goto(l, "limit")
    /\ UNCHANGED <<miningVars, miner, enabled, wg, exit, call>>

LoopTop(l) ==
    /\ loop[l] = "top"
    /\ IF ctx[l] THEN Exit(l, "node_shutdown") ELSE Goto(l, "limit") /\ UNCHANGED exit
    /\ UNCHANGED <<miningVars, miner, enabled, wg, call>>

(* No limit is looked at: the miner runs for ever. *)
LoopNoLimit(l) ==
    /\ loop[l] = "limit"
    /\ Goto(l, "peers")
    /\ UNCHANGED <<miningVars, miner, enabled, wg, exit, call>>

LoopLimit(l) ==
    /\ loop[l] = "limit"
    /\ IF miner.limit > 0 /\ miner.blocks >= miner.limit
       THEN /\ Exit(l, "supervisor_shutdown")
            /\ miner' = [miner EXCEPT !.hashing = FALSE, !.lastStop = "supervisor_shutdown"]
       ELSE Goto(l, "peers") /\ UNCHANGED <<miner, exit>>
    /\ UNCHANGED <<miningVars, enabled, wg, call>>

Pause(l, step) ==
    /\ Goto(l, step)
    /\ miner' = [miner EXCEPT !.hashing = FALSE]

(* If the context is cancelled during this pause the exit reason is unsafe_peers. *)
LoopPeers(l) ==
    /\ loop[l] = "peers"
    /\ \/ Pause(l, "paused") /\ exit' = [exit EXCEPT ![l] = "unsafe_peers"]
       \/ Goto(l, "storage") /\ UNCHANGED <<miner, exit>>
    /\ UNCHANGED <<miningVars, enabled, wg, call>>

LoopStorage(l) ==
    /\ loop[l] = "storage"
    /\ \/ Goto(l, "safety") /\ UNCHANGED <<miner, exit>>
       \/ /\ Exit(l, "internal_error")
          /\ miner' = [miner EXCEPT !.hashing = FALSE, !.lastStop = "internal_error"]
    /\ UNCHANGED <<miningVars, enabled, wg, call>>

(* Half of the blocks of the session, or more, were stale. *)
staleRateHigh(m) == 2 * m.stale >= m.blocks + m.stale + m.rejected

(* checkSafeToMine: safe, only the template is stale, unsafe, or too many stale blocks. *)
LoopSafety(l) ==
    LET highStale == miner.staleRatePause \/ (miner.stale > 0 /\ staleRateHigh(miner))
    IN
    /\ loop[l] = "safety"
    /\ \/ ~highStale /\ Goto(l, "epoch") /\ UNCHANGED <<miner, exit>>
       \/ /\ miner.active
          /\ Goto(l, "epoch")
          /\ miner' = [miner EXCEPT !.hashing = FALSE, !.recovering = TRUE]
          /\ UNCHANGED exit
       \/ /\ \/ Pause(l, "paused")
             \/ highStale /\ Pause(l, "highstale")
          /\ exit' = [exit EXCEPT ![l] = "worker_exit_unexpected"]
    /\ UNCHANGED <<miningVars, enabled, wg, call>>

(* The timer of a pause, or the context, whichever comes first. *)
LoopResumes(l) ==
    /\ loop[l] \in {"paused", "highstale", "retry"}
    /\ Goto(l, "top")
    /\ miner' = IF loop[l] = "highstale"
                THEN [miner EXCEPT !.staleRatePause = FALSE, !.stale = 0, !.rejected = 0]
                ELSE miner
    /\ UNCHANGED <<miningVars, enabled, wg, exit, call>>

LoopPauseCancelled(l) ==
    /\ loop[l] \in {"paused", "highstale", "retry"} /\ ctx[l]
    /\ Goto(l, "exit")
    /\ UNCHANGED <<miningVars, miner, enabled, wg, exit, call>>

(* The template fields are renewed from the tip, then MineBlock is called. *)
LoopEpoch(l) ==
    /\ loop[l] = "epoch"
    /\ Goto(l, "mining")
    /\ miner' = [miner EXCEPT !.recovering = FALSE, !.hashing = TRUE]
    /\ ReadTip(l)
    /\ UNCHANGED <<enabled, wg, exit, call>>

(* The progress callback copies the state of the template. *)
LoopProgress(l) ==
    /\ loop[l] = "mining" /\ mine[l].at = "select"
    /\ miner' = [miner EXCEPT !.recovering = FALSE]
    /\ UNCHANGED <<miningVars, enabled, wg, loop, exit, call>>

LoopMines(l) == loop[l] = "mining" /\ MineStep(l) /\ UNCHANGED svars

Returned(l, outcomes) ==
    /\ loop[l] = "mining" /\ mine[l].out \in outcomes
    /\ mine' = [mine EXCEPT ![l] = NoCall]
    /\ UNCHANGED <<tip, ctx, enabled, wg, call>>

(* classifyMinerContextCancellation: whatever the error, a cancelled loop ends. *)
LoopCancelled(l) ==
    /\ Returned(l, Outcomes \ {"none", "block"}) /\ ctx[l]
    /\ Exit(l, "node_shutdown")
    /\ miner' = [miner EXCEPT !.hashing = FALSE]

LoopRefresh(l) ==
    /\ Returned(l, {"refresh"}) /\ ~ctx[l]
    /\ Goto(l, "top")
    /\ miner' = [miner EXCEPT !.recovering = TRUE, !.hashing = TRUE]
    /\ UNCHANGED exit

LoopStale(l) ==
    /\ Returned(l, {"stale"}) /\ ~ctx[l]
    /\ Goto(l, "retry")
    /\ exit' = [exit EXCEPT ![l] = "node_shutdown"]
    /\ miner' = [miner EXCEPT !.hashing = FALSE, !.recovering = TRUE]

LoopBadPrev(l) ==
    /\ Returned(l, {"badprev"}) /\ ~ctx[l]
    /\ Goto(l, "top")
    /\ LET m == [miner EXCEPT !.hashing = FALSE, !.stale = @ + 1]
       IN  miner' = IF staleRateHigh(m) THEN [m EXCEPT !.staleRatePause = TRUE] ELSE m
    /\ UNCHANGED exit

LoopFailed(l) ==
    /\ Returned(l, {"error"}) /\ ~ctx[l]
    /\ Goto(l, "retry")
    /\ exit' = [exit EXCEPT ![l] = IF miner.recovering THEN "node_shutdown" ELSE "worker_exit_unexpected"]
    /\ miner' = IF miner.recovering
                THEN [miner EXCEPT !.hashing = FALSE]
                ELSE [miner EXCEPT !.hashing = FALSE, !.rejected = IF @ < MaxRejected THEN @ + 1 ELSE @]

(* A block was connected: it is announced, then counted. *)
LoopFound(l) ==
    /\ Returned(l, {"block"})
    /\ Goto(l, "announce")
    /\ miner' = [miner EXCEPT !.hashing = FALSE]
    /\ UNCHANGED exit

LoopAccepted(l) ==
    /\ loop[l] = "announce"
    /\ Goto(l, "top")
    /\ miner' = [miner EXCEPT !.blocks = @ + 1, !.staleRatePause = FALSE, !.recovering = TRUE]
    /\ UNCHANGED <<miningVars, enabled, wg, exit, call>>

(* The wait group is told twice. *)
LoopDoneTwice(l) ==
    /\ loop[l] = "exit"
    /\ wg' = wg - 2
    /\ Goto(l, "exiting")
    /\ UNCHANGED <<miningVars, miner, enabled, exit, call>>

(* The deferred function tells the wait group first ... *)
LoopDone(l) ==
    /\ loop[l] = "exit"
    /\ wg' = wg - 1
    /\ Goto(l, "exiting")
    /\ UNCHANGED <<miningVars, miner, enabled, exit, call>>

(* A loop that ends leaves minerActive as it is. *)
CleanupKeepsActive(l) ==
    /\ loop[l] = "exiting"
    /\ Goto(l, "over")
    /\ miner' = [miner EXCEPT !.hashing = FALSE, !.cancel = NoLoop, !.requested = "none",
                              !.lastStop = IF miner.requested # "none" THEN miner.requested ELSE exit[l]]
    /\ UNCHANGED <<miningVars, enabled, wg, exit, call>>

(* The loop's own reason replaces the one that was asked for. *)
CleanupOwnReason(l) ==
    /\ loop[l] = "exiting"
    /\ Goto(l, "over")
    /\ miner' = [miner EXCEPT !.active = FALSE, !.hashing = FALSE, !.cancel = NoLoop,
                              !.requested = "none", !.lastStop = exit[l]]
    /\ UNCHANGED <<miningVars, enabled, wg, exit, call>>

(* ... and only then takes the lock and clears the session. *)
LoopCleanup(l) ==
    LET reason == IF miner.requested # "none" THEN miner.requested ELSE exit[l]
    IN  /\ loop[l] = "exiting"
        /\ Goto(l, "over")
        /\ miner' = [miner EXCEPT !.active = FALSE, !.hashing = FALSE, !.cancel = NoLoop,
                                  !.requested = "none", !.lastStop = reason]
        /\ UNCHANGED <<miningVars, enabled, wg, exit, call>>

LoopStep(l) ==
    \/ LoopTop(l) \/ LoopLimit(l) \/ LoopPeers(l) \/ LoopStorage(l) \/ LoopSafety(l)
    \/ LoopResumes(l) \/ LoopPauseCancelled(l) \/ LoopEpoch(l) \/ LoopMines(l)
    \/ LoopCancelled(l) \/ LoopRefresh(l) \/ LoopStale(l) \/ LoopBadPrev(l) \/ LoopFailed(l)
    \/ LoopFound(l) \/ LoopAccepted(l) \/ LoopDone(l) \/ LoopCleanup(l)

CallStep(c) == AlreadyRunning(c) \/ StartLocked(c) \/ StartSpawn(c) \/ StopReturned(c)

Next ==
    \/ \E c \in Caller : StartChecked(c) \/ StopLocked(c) \/ CallStep(c)
    \/ \E l \in Loop : LoopStep(l) \/ LoopProgress(l)
    \/ Surroundings /\ UNCHANGED svars

Spec == Init /\ [][Next]_vars

(***************************************************************************)
(* Requests and loops are goroutines and get to run.  A worker keeps       *)
(* hashing as long as it likes, but looks at its context after every hash. *)
(***************************************************************************)
FairSpec ==
    /\ Spec
    /\ \A c \in Caller : WF_vars(CallStep(c))
    /\ \A l \in Loop : /\ WF_vars(LoopStep(l) /\ mine[l].running = {})
                       /\ WF_vars(LoopMines(l) /\ Done(l))

(* Every field holds a value of its type. *)
TypeOK ==
    /\ MiningTypeOK
    /\ miner \in MinerFields
    /\ enabled \in BOOLEAN /\ wg \in Nat
    /\ loop \in [Loop -> LoopSteps] /\ exit \in [Loop -> Reasons]
    /\ call \in [Caller -> Calls]

(***************************************************************************)
(* getminerstatus never reports a running miner with nothing behind it:    *)
(* while minerActive is set, minerCancel belongs to a loop that has been   *)
(* started, or is about to be, and has not cleaned up yet.                 *)
(***************************************************************************)
ActiveHasLoop ==
    miner.active => miner.cancel \in Loop /\ loop[miner.cancel] \notin {"unused", "over"}

(***************************************************************************)
(* When stopMiner returns, no worker of any loop hashes, and no block is   *)
(* found but not yet announced and counted.                                *)
(***************************************************************************)
StopMeansStopped ==
    [][\A c \in Caller : call[c].at = "wait" /\ call'[c].at # "wait"
          => \A l \in Loop : mine[l].running = {} /\ loop[l] \notin {"mining", "announce"}]_vars

(***************************************************************************)
(* A loop whose context is cancelled ends, wherever it is: in one of its   *)
(* pauses, with workers hashing, or with a block on its way to the chain.  *)
(***************************************************************************)
CancelledLoopEnds == \A l \in Loop : ctx[l] ~> loop[l] = "over"

(***************************************************************************)
(* A session that was stopped by a request is not reported as one that     *)
(* ended unexpectedly, whatever the loop was doing when it noticed: a      *)
(* pause, a failed epoch or a storage failure included.                    *)
(***************************************************************************)
StopReasonKept ==
    \A l \in Loop : loop[l] = "over" /\ ctx[l] => ~minerStopReasonIsUnexpected(miner.lastStop)

(* A session stops at the number of blocks it was asked for. *)
LimitRespected == miner.limit > 0 => miner.blocks <= miner.limit

(***************************************************************************)
(* The state that getminerstatus reports agrees with the loops that exist: *)
(* one behind a running session, an expected reason behind a stopped one,  *)
(* and no more blocks than the session was asked for.                      *)
(***************************************************************************)
SessionConsistent == ActiveHasLoop /\ StopReasonKept /\ LimitRespected
=============================================================================
