# A verification of legacycore in TLA+

legacycore is a full node for a proof-of-work coin, written in Go, with a
miner, a wallet application, a pool server and a payment agent around it. This
directory holds TLA+ models of the parts that keep its state correct, the TLC
configurations that check them on small instances, and TLAPS proofs of the
most important properties for every instance. Definitions are translated from
`src/`; `PROJECT.json` maps each to the lines it stands for.

    tlc -workers 2 -config MCFileStore_crash.cfg MCFileStore
    tlapm FileStoreProofs.tla

## 1. The system

A peer or an RPC client delivers blocks and transactions. `p2p` and `rpc` hand
blocks to `blockchain.Chain`, which validates them, decides what the active
chain is, and stores every change through `storage.FileStore`. Transactions go
to `mempool.Pool`; when a block is connected, its deliverer tells the pool. The
miner builds templates from chain and pool and connects the blocks it finds.
The wallet application (`nodeservice`) starts and stops a node and spends from
a wallet through it.

| part | state | operations | what makes it correct |
|---|---|---|---|
| `storage` | one file per block, index entry, unspent output, undo record; tip file; journal | `SaveBlock`, `DisconnectBlock`, recovery in `LoadTip`, `RepairIndexes`, lookups | tip, unspent set and indexes describe the same chain, whatever was interrupted |
| `fsutil` | none | `WriteFileAtomic` | a file is old or new, never half |
| `blockchain` | tip, side blocks, orphan blocks, under `Chain.mu` | `ProcessBlock`, `ConnectBlock`, `DisconnectTip`, headers, `New` | the active chain is valid; the heaviest known valid branch becomes active; a failed reorganisation changes nothing |
| `mempool` | entries, spent outpoints, links, orphans, under `Pool.mu` | `Add`, `RemoveForBlock`, template order | the maps agree; every entry can be mined; the limits hold |
| `mining` | template, workers, a one-place result channel | `NewBlockTemplate`, `CheckTemplateFreshness`, `MineBlock` | a block is built on one consistent state and its inputs connect; a found block is not lost; workers stop |
| miner supervisor (`rpc`) | runtime state of the miner, stop request, safety windows | start, stop, restart, safety verdict | states agree with what runs; mining only when it is safe |
| `p2p` | peers, outstanding requests, missing-parent claims, timers | dials, handshake, `inv`/`getheaders`/`getdata`/`block`, shutdown | one connection per address; a block some peer has is eventually received |
| `rpc` work | request slots, long polls, rate buckets | `getblocktemplate`, `submitblock`, `generate` | what a mining client is told is true |
| `events` | clients, history | `Subscribe`, `Publish`, `Unsubscribe` | no gap behind a subscription |
| `wallet` | keys, lock state, file | create, encrypt, unlock, lock, send, save | no key is lost; no value is lost |
| `stratum` | jobs, clients, shares | subscribe, authorize, submit | limits hold; jobs follow the tip |
| `nodeservice` | the node it runs, a mirror of its miner, a journal of sends | start, stop, restart, status polls | no node is lost sight of; a send can be repeated |
| `txsvc` | none; the network is its state | `SignAndSend`, `Estimate` | a request pays once |
| `consensus`, `script` | none | compact targets, retarget, subsidy; script checks | agree with their definitions at the boundaries |
| the rest | little or none | requests, conversions, cryptography | outside a model checker's reach |

### What is hard here

 * **Crashes.** `SaveBlock` is a dozen file operations. The journal makes them
   one, and recovery may be interrupted as well. The wallet's file is written
   from a copy taken earlier.
 * **Partial failure.** A reorganisation disconnects, attaches and, when a
   block fails, rolls back and restores, with orphans accepted in between.
 * **Order.** Blocks and transactions arrive in any order. Orphans wait in
   pools with limits and must be woken, linked and dropped consistently.
 * **Concurrency.** `Pool.Add` validates without the lock it inserts under;
   height lookups write to the index without `Chain.mu`; a template reads
   chain and pool at different times; almost every wallet call takes its mutex
   several times.
 * **Races for one place.** A found block, a stale template and a cancellation
   race for one channel; two goroutines dial one address; two Starts and a Stop
   race for one port.
 * **Timeouts.** Claims for missing parents, `getdata` requests, stale
   templates and unlocked wallets expire while the answer is on its way.

`PROJECT.json` lists these as hazards, each at its line.

## 2. The modules

| module | models |
|---|---|
| `ChainState` | the abstract store: a tip and an unspent set that change in one step |
| `FileStore` | `filestore.go`, one action per file operation; `INSTANCE`s `ChainState` |
| `FileStoreInvariant` | the inductive invariant `CrashInv` |
| `Blockchain` | `ProcessBlock` and what runs under `Chain.mu`, one action per store operation |
| `HeaderRules` | compact targets, the difficulty window, median time, chainwork, header batches |
| `BlockRules` | what `ConnectBlock` and `DisconnectTip` do to the unspent outputs; subsidy and supply report |
| `ScriptEngine` | pushes, conditionals, the machine, templates, multi-signature, signature counts, pool policy |
| `Mempool` | `Pool` beside the active chain, one action per locked section |
| `WorkRpc` | `getblocktemplate` with long polls, `submitblock`, proposals, `generate`, the rate limiter |
| `Mining` | the template, read by read, and a call of `MineBlock` with workers, ticker and channel |
| `MinerSupervisor` | start, stop, restart and the loop of the RPC server around `Mining` |
| `MiningSafety` | the verdict whether mining is safe, its windows, the reported state |
| `BlockSync` | how blocks are asked for and arrive: inventories, claims, timeouts, sync loop, watchdog |
| `PeerManager` | dials, accepted connections, handshake, known addresses, shutdown |
| `Wallet` | keys, lock, timers and the file |
| `WalletSend` | coin selection, fees and change of every send |
| `WalletJournal` | the application's journal of sends and the list made from it |
| `Spending` | both together: what they promise of a send |
| `NodeService` | start and stop of the node, the mirror of its miner |
| `Stratum`, `Events`, `AgentSend` | the pool server, the event stream, the agent's payments |
| `*Proofs` | the proofs about the module of that name; `MinerSupervisorProofs` also about `MiningSafety`, `WalletProofs` also about `Spending`, `ServicesProofs` about `NodeService`, `Stratum`, `WorkRpc`, `Events` and `AgentSend` (section 4) |
| `Sums` | least numbers and sums over finite sets, for the proofs about money and depths |
| `MC*` | the instances; several check modules that do not share state side by side, a variable `part` saying which of them moves |

The layers meet at interfaces: `FileStore` shows `SaveBlock` and
`DisconnectBlock` to be atomic, `Blockchain` uses them as single steps with a
crash between any two, and `Mempool` and `WorkRpc` use "a call connects one
block, or several" as a single step. `BlockSync` sees the chain as a set of
connected, side and orphan blocks. `MinerSupervisor` EXTENDS `Mining` and asks
for a verdict that may go either way; `MiningSafety` says which way.

**FileStore.** The variables are the directories of the data directory, plus
`memTip` (`Chain.tip`), the program counter of the call that holds `Chain.mu`
and a reader that does not. A block is what the store reads of it: parent,
height, outputs added and spent, transactions. A loop over files is "do one
that is still to do", in any order and leaving out those that are right already;
the loops that only empty a directory, and the reindex's replay of one block,
are one step. `WriteFileAtomic` (temporary file, sync, rename, sync of
the directory) is one step. An I/O error abandons the call with the node
running on. The address history and transaction lists are folded into
`addrUtxo`, the address's unspent outputs.

**Blockchain.** A block is a node of a tree, with its accumulated work and
whether it is valid on its parent. `stored` is what the store can load,
`sideBlocks`, `orphanOrder` and `linked` are the maps (`linked`: the orphans
`orphanByPrev` still lists). `job` is what the running call has reached.
`activeHeight` reads the height index, which `FileStore` shows to list the
active chain. `HeaderRules` scales the code's numbers down: a target has
`Bytes` digits of `Byte` values. In `BlockRules` an id stands for its
transaction, that of a coinbase is its height (section 5: duplicate ids),
amounts wrap at `Wrap`, and the chain begins with the genesis block.

**Mempool.** A transaction has one output. Signatures and standardness are
sets, fee and size a rate. A thread is a goroutine; `promoteOrphans` and `Add`
call each other, so a thread has a stack. `parents` and `childs` are sets of
pairs. Replacement by fee is disabled in the code: `checkReplacementPolicy`
refuses every conflict.

**Mining.** A tip is known by a number that grows with every change. A call of
`MineBlock` is a record whose fields are its local variables and channel; a
step is a read of shared state or a `select`. `Connect` tests the inputs of the
block (`InputsConnect`) and the limits on size, signature operations and lock
times that the template ignores (`WithinLimits`). `MinerSupervisor` adds the
`minerXxx` fields of the server under `minerMu`, the wait group, and the steps
of `minerLoop` between two critical sections. In `MiningSafety` heights are
relative to the local tip and a window is the age of the moment it records.

**PeerManager.** `conn` is a table of goroutines, each with its address,
context and progress of the handshake; `knownOutbound` are the marks of
addresses being dialled; `peers` and `outbound` are the counters
`registerPeer` takes and `handleConn` gives back.

**Wallet.** A step is what happens under one acquisition of the mutex. A key
stands for its address; a sealed key set is a record only its passphrase
opens. `handed` are the keys whose call returned without an error, `opens` the
passphrases that may open the file as far as the callers know. In `WalletSend`
a call is a record of what it has read so far, each part from a state that has
moved on since: the outpoints the pool has spent, the pool's transactions, the
coins, the selection, the change address. `SafeDepth` is the depth of the
unconfirmed transactions that build on a confirmed coin of the wallet, in one
pass over the list where the code repeats passes until nothing changes.
`income` and `outgo` are the money that came from and went to others, `kin` the
transactions the wallet built and those that descend from them. A payment from
others (`Receive`) spends a coin the wallet knows nothing of, or an unconfirmed
output that such a transaction gave to others.

**NodeService.** A node is a record of its life, its two servers and its
miner; a thread is in one call. `told` and `readyBy` record what a Stop and a
Start reported.

## 3. The runs

| run | shows |
|---|---|
| `store_crash` | crash safety: `UtxoMatchesTip`, `HeightIndexExact`, `TxLookupExact`, the refinement `AtomicSpec`, and that interrupted work is made good (`RepairCompletes`) |
| `store_faults` | all faults together, a crash in a reindex, failed operations and the reader included: `ActiveChainReadable`, `ReindexRestoresUtxo` |
| `chain_parts` | any order, overflow, `disconnecttip`, crashes: `ActiveChainValid`, `OrphanPoolConsistent`. Parents first: `InOrderReorganises`, `InOrderConverges`. Headers and outputs: `HeaderRulesHold`, `UnspentExact`. Targets, supply report and scripts: `RulesExact` |
| `pool_threads` | two goroutines, a full pool, a full orphan map: `PoolConsistent`, `OrphansConsistent`, `PoolBounded` |
| `pool_serial` | one connection, no eviction: `EntriesSound`, `NoForgottenOrphan`, `AddReturns`. Mining software: `WorkHonest`, `RateExact` |
| `miner_session` | `TemplateSound`, `SessionConsistent`, `FoundBlockNotLost`, `StopMeansStopped`, `CancelledLoopEnds` |
| `safety_gate` | `SafetyGateHolds` and, when peers agree for good, `MiningResumes` |
| `sync_follow` | `SyncCompletes`: the node gets to its peers' tip over a connection that breaks |
| `peers_dials` | `ConnectionsSound`, `PeersProceed` |
| `wallet_parts` | `KeysSafe`, `Relocks`; `SpendingSound` of sends and journal |
| `services_parts` | `NodeAccounted`, `LimitsHold`, `NoGap`, `PaymentSound`, `ServicesLive` |
| `services_estimate` | expected to fail: a Kaspa estimate offers a signed transaction to the network, against the comment that it never signs or broadcasts (`EstimateNeverPays`) |

Each property of a passing run has a mutant in `PROJECT.json`: a definition
changed the way a bug would change the code, under which TLC refutes it.

### Bounds

*FileStore*: a fork of two branches, the longer with two blocks after genesis,
a transaction in both branches and an output spent by a later block. A call is
about one block and its parent, so two blocks above the genesis give every
combination of journal and interrupted recovery; crashes are not counted.

*chain_parts*: eight blocks above genesis in three branches, one of them
invalid and heavier than all valid ones, so that a reorganisation attaches two
blocks and then fails; `MaxOrphanBlocks` 2 and `MaxSideChainDepth` 1 (128 and
288 in the code) so that the limits are met. Headers: targets of four digits of
four values, windows of three, times to 14. Outputs: at most five blocks,
eleven transactions that spend each other, amounts that wrap at 64. Scripts:
programs of five opcodes and outputs spent with up to five pushes.

*Mempool*: two coins, a transaction with two parents, a grandchild, a double
spend and one each that fails policy or script; `MaxTx` 2 (50000) where
eviction is wanted and 10 where it is not, `MaxOrphans` 1 or 2 (100),
`MaxAncestorDepth` 1 (25). Threads are interchangeable: `SYMMETRY`, in the run
without temporal properties. *WorkRpc*: three callers, two request slots, two
retries, two blocks above genesis, two tokens.

*Miner*: one loop with one worker, two transactions of which one spends the
other, room in a block for one of them and a lock time on the second, so that
templates are mined that fit, are too large, or are too early; two new tips, two
callers; a session is asked for one block. More loops
only matter for restarts, which the proofs cover. *MiningSafety*: two peers
that must both agree, a grace of one tick and a soft age of two. *BlockSync*: one peer, a
chain of three blocks or of two beside a mined one, one lost connection, a
queue of one and two headers in a message, so that a sync takes several rounds.

*PeerManager*: two addresses, two places for dials but one for outbound
peers, one inbound place, limits of one: every limit is met and an address can
be asked for by two sides. *Wallet*: one caller beside the timers, two
passphrases, one key of each kind. *WalletSend*: two senders, two coins, one
pending parent, `MaxDepth` 2 (10 in the code): a send, a payment out of what it
paid, and a send that may use that payment; one more is too deep. *Services*: two users and a poller with two nodes (with
foreign processes) or one (with its miner); three miners of two addresses,
places for two; two subscribers with a history of two and a queue of three;
two requests for three coins.

### Fairness

*FileStore*: weak fairness of `Advance`, the steps of a call that has begun,
recovery at start included: the code never waits in them. Crashes may repeat
for ever, then nothing is promised. *Blockchain*: weak fairness of the running
call; strong fairness of `ProcessBlock(b)` for each block, because peers offer
blocks again and `sync.RWMutex` admits every waiting writer. *Mempool*: weak
fairness of each thread inside a call; nobody is obliged to submit anything.
*Miner*, *MiningSafety*, *PeerManager*: goroutines run, tickers fire,
connections have deadlines. *BlockSync*: goroutines and tickers run, a peer
answers what reaches it. *Wallet*: a call runs to its end, a timer expires and
its goroutine gets the mutex. *NodeService*: waits have timeouts, goroutines
run, the dashboard polls. *Stratum*: miners read what is sent to them or are
disconnected. *WorkRpc*: a request that holds a slot goes on.

### Known limits

What the code does at the edges of these properties, found while modelling.
Most can be seen by giving a constant another value, with the module and MC
module as they are.

*Storage and chain*
 * An interrupted reindex leaves a partial unspent set that the next start
   accepts (`UtxoMatchesTip` with `"reindexcrash"`).
 * `HeightIndexExact` with `"reader"`: `repairHeightIndexFromTip`, reached
   without `Chain.mu`, writes back the entry of a block disconnected meanwhile.
 * `addrUtxo = utxo` between calls fails after a crash, because
   `rollbackConnect` does not touch the address index, and without any fault
   when a block spends its own output: a rebuild lists it. What holds is
   `RebuildRestoresAddresses`.
 * With blocks in any order: a branch that was disconnected once is not adopted
   again by offering its blocks; an orphan accepted during a reorganisation
   breaks the rest of it and the restore; the sibling of an accepted orphan is
   kept but never processed. A side branch deeper than `MaxSideChainDepth`
   loses its oldest blocks and is activated only by an even later one. A pruned
   block may be offered again and its branch adopted; a heavier sibling branch
   stored meanwhile then waits until its end is offered again, which is why
   `NoSideBranchOutweighs` assumes shallow forks.
 * Nothing refuses a block whose transaction repeats the id of an earlier one
   with unspent outputs (`blockchain.go:491`); ids are distinct in the models
   and a hypothesis of the proof about the transaction index.
 * The tests of scripts differ: `EvalPushScriptWithHooks` runs only in tests;
   `CountSigOps` counts opcode bytes in pushed data; `verifyMultiSig` accepts
   more signatures than required, the machine demands exactly as many.

*Pool and work*
 * In a full pool `Add` evicts the parent of the transaction it inserts
   (`EntriesBuildable` with `MaxTx = 2`); with two threads a block may be
   connected and reconciled between validation and insertion; a delivered block
   that connects a second one leaves that one's transactions (`"several"`).
   Templates skip such entries, so they waste space rather than break blocks.
 * A parent added again after its block was disconnected is not linked to the
   child in the pool (`LinksComplete` with `"disconnecttip"`).
 * Connecting a block promotes no orphan: `NoForgottenOrphan` is about the time
   before the first.
 * The long-poll id is read after the template and counts the pool's entries
   only; a long poll holds its request slot; the cleanup of rate buckets deletes
   outside the lock; a block that was once active is answered `duplicate` for
   ever; the table of loaded wallets is read without a lock (`server.go:513`).

*Miner*
 * `NewBlockTemplate` takes every entry of the pool that can be built
   (`miner.go:177`). The pool is bounded by a number of entries (50000, each of
   up to 100 kB), so a full pool gives a block over 1,000,000 bytes
   (`blockchain.go:979`) or 20,000 signature operations (`1105`), and after a
   reorganisation to a lower height or an earlier time it may hold entries that
   are not final (`1008`). Such a block is hashed, found and refused, and the
   next template is the same while the pool is. `TemplateSound` is therefore
   about inputs only, and `FoundBlockNotLost` names this refusal.
 * With restarts an old loop's cleanup may mark the new session as stopped
   (`server.go:6274`): `StopReasonKept` needs one loop.
 * The safety gate: degraded verdicts return before the tests of template age
   and stale rate, so losing agreement bypasses the pause for a high stale
   rate; `minerLastError` outlives a pause, so a hashing miner is reported as
   paused; the grace at the start of a session needs no agreement ever seen;
   safety is not evaluated again during an epoch, so mining without peers may
   last a second share of the soft age (`SoloMiningBounded`).

*Network*
 * A node on a fork leaves it only through announcements: its locator holds the
   tip alone (`blockchain.go:1444`). Peers that do not respond are asked again,
   not banned as `AUDIT.md:439` says.
 * `addnode` over RPC and `ForceSync` dial under a context that ends with the
   call, so these dials are cancelled; the seed loop dials again for the first.
   `AddNode` keeps every gossiped address for ever; inbound limits are tested
   before `registerPeer`; marks of failed addresses are not trimmed
   (`p2p/server.go:603`, `2362`).

*Wallet*
 * Two persists at a time write their copies out of order (`wallet.go:1383`),
   and one of an unencrypted wallet may replace the sealed file: `KeysSafe`
   needs one caller. A timer that expires between the halves of
   `ChangePassphrase` has an empty key set sealed: it needs timers and changes
   apart (`OneAtATime`).
 * `Encrypt` leaves the seed in memory; `SetHDSeed` starts its indices at 0; a
   failed `ChangePassphrase` takes effect with the next write; if sealing fails
   it returns with the mutex held.
 * Change counts as safe when its transaction descends from a coin of the
   wallet, whoever built it (`wallet.go:739`): when someone spends the wallet's
   own unconfirmed payment and pays back, the wallet builds on that transaction
   of theirs. `ChainsOnOwn` is about descent, not about who signed.
 * The fee of an automatic send may fail for funds that suffice; change below
   dust makes the pool refuse and uses up an address.
 * The journal is read, changed and written without a lock, and a torn one is
   taken for empty; a record stays confirmed when its block is reorganised out.

*Services*
 * A Start during a stop returns without an error although the node goes away;
   it may find a foreign process's listener; `Run` closes the chain while its
   other server drains; `StopMiner` reports success although its RPC failed.
 * The pool server renews a job only when the tip is above its height, writes to miners under its lock
   without a deadline, finds no duplicate shares, and a found block keeps the
   template's merkle root, so the chain refuses it
   (`docs/pool-operator-guide.md:111`). Stopping twice panics.
 * The event history (100) is longer than a subscriber's queue (64), so a replay
   drops its newest; an event may arrive twice around a registration.
 * A Kaspa send that is repeated after an estimate the network accepted pays
   twice or conflicts. The fee loop of an LBTC payment ends after eight rounds
   also when it has not settled; the last signature may then be a unit short of
   the relay floor (`FloorPaid` with `MaxPasses = 2`). Payments from the node's own wallet, which are retried
   after a lost reply, are not modelled.

## 4. The proofs

The `*Proofs` modules are checked by `tlapm` to the last leaf, for every value
of the constants that satisfies the `ASSUME`s of the modules. Each has an
inductive invariant, one lemma per action, and theorems that name the property
a run checks. In brackets: what a theorem assumes beyond the modules.

| module | theorems | property |
|---|---|---|
| `FileStoreProofs` [crashes, no other fault] | `CrashSafe`, `TypeCorrect`, `UtxoCorrect`, `HeightIndexCorrect`, `ActiveChainKept`, `Refinement` | `UtxoMatchesTip`, `HeightIndexExact`, `ActiveChainReadable`, `AtomicSpec` |
| [and no transaction id twice in a chain] | `TxLookupCorrect` | `TxLookupExact` |
| [crashes, no other fault; no output made twice in a chain] | `RebuildCorrect` | `RebuildRestoresAddresses`, the safety half of `RepairCompletes` |
| [all faults] | `ReindexCorrect` | `ReindexRestoresUtxo` |
| `BlockchainProofs` | `ChainSafe`, `TypeCorrect`, `ActiveChainAlwaysValid`, `OrphanPoolAlwaysConsistent` | `ActiveChainValid`, `OrphanPoolConsistent` |
| [parents first] | `CallsEndWhole` | `CallEndsWhole`, the first half of `InOrderReorganises` |
| [parents first, no `disconnecttip`, no fork deeper than `MaxSideChainDepth`] | `NoSideBranchOutweighs` | `NoBetterSideBranch`, the other half |
| `BlockchainProofs`: headers | `HeaderRulesKept` | `HeaderRulesHold` |
| `BlockchainProofs`: outputs | `UnspentAlwaysExact` | `UnspentExact` |
| `MempoolProofs` | `PoolSafe`, `TypeCorrect`, `PoolConsistentAlways`, `OrphansConsistentAlways`, `BoundsKept`, `DepthAlwaysBounded` | `PoolConsistent`, `OrphansConsistent`, `PoolBounded`; `DepthBounded` of `EntriesSound` |
| [one connection, no eviction, no `disconnecttip`] | `EntriesAlwaysBuildable`, `EntriesAlwaysSound`, `NoOrphanForgotten` | `EntriesSound`, `NoForgottenOrphan` |
| `MinerSupervisorProofs` | `TemplateAlwaysSound`, `FoundBlockNeverLost`, `StopAlwaysStops`, `RunningMinerHasLoop`, `MinerTypeCorrect` | `TemplateSound`, `FoundBlockNotLost`, `StopMeansStopped` |
| [one session] | `SessionAlwaysConsistent` | `SessionConsistent` |
| the safety gate | `GateSafe`, `SafetyGateAlwaysHolds` | `SafetyGateHolds` |
| `PeerManagerProofs` | `ConnectionsAlwaysSound` | `ConnectionsSound` |
| `WalletProofs`: keys [one caller; timers and changes of the passphrase apart] | `KeysAlwaysSafe`, `WalletTypeCorrect` | `KeysSafe` |
| sends and their journal | `SendsAlwaysSound`, `JournalAlwaysSound`, `SpendingAlwaysSound` | `SpendingSound` |
| `ServicesProofs`: the node service | `NodeAlwaysAccounted`, `TypeCorrect` | `NodeAccounted` |
| the pool server | `LimitsAlwaysHold` | `LimitsHold` |
| the mining RPCs | `MinersToldTrue`, `RateAlwaysExact` | the safety half of `WorkHonest`; `RateExact` |
| the event stream | `NothingSkipped` | `NoGap` |
| the agent's payments | `PaymentsAlwaysTold` | the parts `PaysOnce`, `SuccessIsPaid` of `PaymentSound` |
| [`FewCoins`: two more passes of the fee loop than coins] | `PaymentsAlwaysSound` | `PaymentSound` |

**FileStore.** The assumptions say that blocks form a tree, that `UtxoAt` and
`ChainTo` are what replaying a chain gives, and that a block spends unspent
outputs and creates new ones. `UtxoMatchesTip` speaks of idle states only, so
it is not inductive. `CrashInv` says for every program counter what is already
on disk:

 * `JournalInv`: the journal names the block of the call in progress or of the
   one a crash interrupted, and the tip file is on one of its two sides;
 * `UtxoInv`: undoing the journaled block always gives the unspent set of
   `RecoveredTip`, and how far the current loop has got;
 * `HeightInv`: the height index lists the chain of `RecoveredTip` and beyond
   it at most the journaled block;
 * `FilesInv`: every block of that chain is on disk with its undo record.

`Refinement` shows that under the mapping to `RecoveredTip` and
`RecoveredUtxo` only two file operations change the abstract state: writing the
tip in `SaveBlock` and writing the disconnect journal. Every other step,
recovery included, is a stutter. `TxLookupCorrect` adds `TxIndexInv`: an entry
of the transaction index either tells the truth or names a block that a lookup
rejects, and while the index is written again the part already written is
complete. It needs that no chain has a transaction id twice, which the code
does not check (`blockchain.go:491`). `RebuildCorrect` follows the loop of a
rebuild (`AddressInv`): the index holds the unspent set at the last block done
and, besides, only outputs spent in their own block. `ReindexCorrect` assumes
nothing of the faults, so nothing of what is on disk but types. Its `ReplayInv`
is about the three loops of a reindex: once the height index is rewritten, a
place where a reader makes it wrong stays wrong, because that reader has gone
by on its way down and no other can begin at a height that is listed; while no
place is wrong, the unspent set is that of the last block replayed.

**Blockchain.** `ChainInv` adds to the two properties where a running call is
(`JobInv`): its fork lies on the chain it began on and on its target's; while it
goes back the fork is below the tip; while it goes forward the block it has
reached is active, although orphans may have been accepted above; a rollback
counts no more blocks than there are above the fork. With parents first,
`OrderInv` adds that no orphan is kept, so nothing but the call moves the tip,
and each call ends with its branch active or the old tip back. `SideInv` follows
the weights: no valid branch of side blocks outweighs the tip or, during a
reorganisation, the tip it began on, but for the branch being adopted; when that
fails the old tip comes back, so the comparison still stands.

**Headers.** `HeaderInv` says that every header of the chain is later than the
median before it, that `works` holds for every block the work of the chain up to
it, of which the disk has that number or none, and that a batch found valid
would connect to the tip it was checked on. The median is the one time with
few enough times of the window below it and few enough above (`MedianIs`), so it
does not depend on the order: the announcement check keeps its window newest
first and cuts it to a longer length than the chain's rule does, and both have
the same median (`MediansAgree`, `BatchIs`). A window whose oldest time is
replaced by one above its median has no lower median (`MedianRises`).
`RebuiltIs` is about the restart: whatever part of the chain has its chainwork
on disk, the sum that starts again at each saved number is the work from the
genesis block.

**Outputs.** `RulesInv` says of every prefix of the active chain that it is
`Clean` (no id twice, each input spends an output of an earlier transaction,
none is spent by two inputs), that what it leaves unspent is worth at most the
subsidies of its blocks, and that the undo data of its last block name what that
block took and added; the store is what the whole chain leaves. The prefixes are
needed because a disconnect gives the one below back, worth and all. The loop
of `validateBlockTransactions` keeps two facts from one transaction to the next:
its view is what the chain with the transactions so far leaves (`Viewed`), and
what the block added and the fees equal what it took and its coinbase amount
(`Counted`). `spent` keeps what `LoadUTXO` still finds, so an input that was
spent in the block fails on `seen`; a transaction that occurs again fails on its
first input, which is no longer left, so only coinbases could repeat. `Int64Is` and `TotalIs` are about the
wrapping sums: a sum of two amounts in range that is found in range did not
wrap, because `2 * MaxMoney < Wrap`, and the check after each addition keeps
every partial sum that way.

**Mempool.** `PoolInv` is `TypeOK`, `PoolConsistent`, `OrphansConsistent`,
`PoolBounded` and finiteness of the sets that are counted. The lemmas are about
the maps as values: what `RemoveEntries`, `InsertEntry` and `MakeRoom`
preserve. One locked section leaves the maps consistent whatever the unlocked
validation before it saw. That an entry can be mined is another matter: it needs
that what the validation found is still there, so `BuildInv` says, for each
place of `Add`, that the inputs already looked at are unspent, in the pool or
noted as missing, and that between a block and its `RemoveForBlock` only the
block's own transactions and their rivals cannot be mined. `ForgetInv` says why
each orphan is still one: a rival is in the pool, an input is not available, or
a frame of the stack of `promoteOrphans` will try it, as a candidate or through
a parent in its queue. Both need one connection (`OneConnection`): the code lets
two threads break them (known limits). The limit on ancestors needs no such
hypothesis (`DepthInv`): a transaction is linked only to entries that are in the
pool and to none that comes later, so the links can be ranked, the recursive
`AncestorDepth` exists and ranks them; a new entry is the last of its chain, and
taking entries away makes no chain longer.

**Miner.** A call of `MineBlock` is followed by two predicates: `Shape`, what
it may hold at each step, and `OnTip`, what it relies on while its parent is
the tip. A new tip has a new number, so it makes `OnTip` trivial for every call
under way: that is why a template read in four pieces is either sound or found
stale. That the inputs of a block connect follows from `OnTip`; that it keeps
the limits does not follow from anything, and nothing is claimed of it.
`FoundBlockNeverLost` and `StopAlwaysStops` are action properties of the
same invariant; the second rests on the wait group being the number of live
loops. `SessionInv` is about one loop, because with restarts the cleanup of the
loop before may touch the new session.

**Safety gate.** `GateInv` counts where the solo time can come from
(`SoloCounted`): one epoch while agreement is not yet noticed to be lost, the
age of the window on top, and whatever the last epoch, begun within the grace,
still adds.

**PeerManager.** A mark in `knownOutbound` outlives whatever was dialled under
it, so two goroutines never hold one address; every way out of `handleConn`
gives back what `registerPeer` took, so the counters are cardinalities.

**Wallet.** `WalletInv` says what the memory, the file and the call under way
hold of the keys handed out: an encrypted wallet has them in its sealed set, an
open one in memory, and a file about to be written has them, the keys of its
call, and the cipher the memory has. Both hypotheses are needed: without them
the code loses keys (known limits).

**Sends.** `SendInv` has two parts. `Ledger` is about the world: transactions
and coins are told apart by number and place, no two transactions of the pool
spend one coin, and one that spends an output of another, or a coin of the
wallet, descends from the wallet's (`kin`). The
second is about what each call has read so far, of states that are gone: a coin
a call knows is still the coin of that name wherever one exists, is the wallet's
own, and comes from a confirmed transaction or from one of `kin` (`KnownCoin`). New
coins are of new transactions, so this stays true under every step of the others
(`MovesOn`), and `Accepts` finds out what was spent meanwhile. `FundsConserved`
then follows move by move. That change with a safe depth descends from the
wallet's transactions (`ChainsOnOwn`) needs an induction along the pool's order:
the first of the list's transactions that has a depth and is not of `kin` would
spend a confirmed coin of the wallet, or an output of an earlier one. `SafeDepth` and
the sums are defined by recursion; the library's induction theorems cannot be
instantiated, so these inductions are made by hand, from the least number or the
smallest set that fails (`Sums`). `SendAssumption` says of the constants what
the code has by construction: values are not negative, coins of the chain are
told apart, and no address is a change address before it was made.
**Journal.** `JournalInv` adds to `RetryPossible` that a record is of a sent
transaction and says where it went to, and that nothing is in the pool and
confirmed at once; `ConfirmedOnce` follows because the rows of journal, chain
and pool then agree and are merged.

**NodeService.** A node whose `Run` returned was cancelled, so it never listens
later; a Start waits for the newest node, all before it being gone.
**Stratum.** The count of an address is the number of its connections, and no
address has more submissions looked at than counted in its window.
**WorkRpc.** `WorkInv`: the active chain is stored and was validated block by
block; a block is stored before `submitblock` says so, and only the call that
stored it will; a proposal was checked on the tip it names. `BucketInv` compares
the exact balance with what the bucket holds and has not refilled yet. That
deleting a bucket gives nothing away but one bucket in use needs
`IdleLimit >= 4 * MaxTokens` (ten minutes and 60 tokens, one a second, in the
code).
**Events.** The history is the last events without a gap (`HistoryRight`). A
queue is two rising runs, what came between registration and replay and the
history with what follows it, so nothing is in it three times; and every event
from the oldest replayed to the last is in the queue or was written
(`StreamRight`).
**AgentSend.** `PayInv`: what the network has from a request is the payment the
request stopped at, so calling again adds nothing; from the signature on, that
payment is what the request asks for and reports. Each place of a request says
which chains lead there. That the last signature of an LBTC payment pays its own
size (`FloorPaid`) is about the fee loop's progress: a pass that does not settle
raises the fee to the size it measured, so the next one takes a further coin, or
keeps its coins and finds the fee too low by at most the byte a signature may
grow (`Settling`). With `n` passes and `k` coins taken, `n <= k + 1`; two passes
more than coins are enough. The code makes eight, so six coins are covered; with
more the loop may end unsettled, and TLC shows the floor missed with
`MaxPasses = 2` and three coins. The fee loop of the estimate has its eight
rounds written out, because a function defined by recursion in it would be
opaque to the provers.

Only model-checked: liveness under fairness (`RepairCompletes`,
`InOrderConverges`, `AddReturns`, `CancelledLoopEnds`, `MiningResumes`,
`SyncCompletes`, `PeersProceed`, `Relocks`, `ServicesLive` and the second half
of `WorkHonest`), which is beyond the prover; and
`RulesExact`, which says what recursive computations over targets, eras of the
subsidy and scripts return.

## 5. What is not modelled

Decoding and encoding of messages and files, cryptography and hashes, parsing
of configuration and command lines, the explorer and the graphical wallet, the
AI assistant, the token registry. The clock a block's time is compared with
(`blockchain.go:524`); a disk that loses removals after a power failure
(`os.Remove` is not followed by a sync of the directory); the lock-free walk of
`HeadersAfter`; compact blocks, transaction relay, scores and bans beyond a
refusal; `SignRawTransaction`; payments from the node's own wallet
(`SendFromNodeWallet`); RPC calls that only format what other parts answer.

Simplified within what is modelled. `LoopSafety` has a verdict that may go
either way, so a degraded one with a high stale rate (`mining_safety.go:422`)
is one of two outcomes there, and told apart in `MiningSafety`. `ForceSync`
dials one bootstrap address, where `server.go:1251` dials the bootstrap, known
and fixed seeds in turn; further ones are further calls. A `Submit` that found a
block does not renew the job (`stratum.go:405`), because its block never
connects. `ReindexHeight` writes the entries that differ in
any order and ends when all are right, where `filestore.go:554` writes each once
from the tip down. Without a reader the two come to the same index. With one,
an entry a reader makes wrong behind the walk is put right in the model, and
stays wrong in the code (the model has the same wrong entry when the reader
writes after the walk). If a second reader then puts it right during the replay,
the code's replay has read the wrong block although the index ends up right:
`ReindexRestoresUtxo` says nothing of two readers in one reindex.
Each component of `PROJECT.json` says what it leaves out.

Hazards that no property covers: removals not synced (`filestore.go:421`), the
clock (`blockchain.go:524`), duplicate ids (`blockchain.go:491`), eviction
before the remaining checks and the parent that arrives between two looks
(`mempool.go:205`, `226`, `232`), the unlocked tables of wallets and journal
(`rpc/server.go:513`, `nodeservice/service.go:3084`), concurrent persists
(`wallet.go:1383`), limits tested before registration (`p2p/server.go:2362`),
writes under the lock (`stratum.go:438`), restarts (`rpc/server.go:6274`).

## 6. What could follow

Components that are only partly modelled: compact blocks and relay in `p2p`,
payments from the node's own wallet.
