# A TLA+ model of BurritoCoin

BurritoCoin is a proof-of-work currency node written in C++ (`src/src/`): a
Bitcoin Core 0.21 / Litecoin 0.21 code base with MimbleWimble extension blocks
(MWEB, `src/src/libmw` and `src/src/mweb`). This directory holds TLA+ modules
for the parts of the node whose correctness rests on state that several steps
share: caches, indexes, queues, threads, and databases that can be interrupted.
TLC checks small instances (`MC*.tla`, `*.cfg`); TLAPS proves the central
invariants for all instances (`*Proofs.tla`). `PROJECT.json` maps every
definition to the lines it models.

## The system

The node is one process. Almost all consensus state is guarded by one recursive
mutex, `cs_main`. A second one, `m_cs_chainstate`, keeps two callers out of
`ActivateBestChain` and `InvalidateBlock`, both of which release `cs_main` in
the middle of their work.

| Part | State | Operations | What makes it hard |
|---|---|---|---|
| Coins caches (`coins.cpp`) | entries with DIRTY and FRESH, best block, byte count | add, spend, read, uncache, flush | flags describe the level below, which moves on |
| Coins database (`txdb.cpp`, `validation.cpp`) | coins, heads, MWEB coins, MMR files, block index, block files | flush in batches, prune, replay | crash or power loss between any two writes |
| Block index (`validation.cpp`) | status flags, candidates, unlinked blocks, failed blocks, sequence numbers, tip | headers, blocks, activation, three operator commands, restart | blocks out of order, `cs_main` released half-way |
| Check queue (`checkqueue.h`) | queue, counters, verdict | add, wait, work | condition variables, one queue for many blocks |
| Scheduler (`scheduler.cpp`) | timed tasks, pending callbacks | schedule, service, stop, drain | threads that wait for the same task, check-then-act |
| Version bits (`versionbits.cpp`) | one cache per deployment | state, since-height, clear | one cache for all branches |
| Validation interface (`validationinterface.cpp`) | list of subscribers with counts | register, unregister, notify | the list changes while it is walked |
| Memory pool (`txmempool.cpp`) | entries, links, ancestor and descendant totals | accept, remove, reorganise, trim | totals kept along links that removals change |
| Transaction requests (`txrequest.cpp`) | announcements by hash and peer, counters | receive, request, expire, disconnect | late answers, silent peers, a clock set back |
| Message processing (`net_processing.cpp`) | blocks in flight, orphans, compact blocks | messages, timeouts | lost and late messages, several peers |
| Connections (`net.cpp`), address manager (`addrman.cpp`) | slots, tables | connect, evict; add, good, attempt | counts that must agree, limits |
| MWEB chain state (`libmw/src/node`, `libmw/src/mmr`) | coins, leaf set, PMMR, prune list | apply, undo, flush, compact | two stores, rewinding |
| Wallet (`wallet/`) | transactions, spent outputs, key pool | connect, disconnect, abandon, bump | reorganisations, unordered notifications |
| Indexes (`index/`) | best block, synced flag, database, files | sync thread, notifications, restart | hand-over from thread to notifications, crashes |
| Mining, fees, RPC, HTTP, Tor, ZMQ, GUI | | | see `PROJECT.json` |
| Script, cryptography, serialisation | none | pure functions | out of a state machine's scope |

The parts meet in block processing. `ProcessNewBlock` puts a block into the
block index; `ActivateBestChain` connects it through a temporary coins view over
`CoinsTip()`, with its scripts verified by the check queue and its rules chosen
by version bits; the view is flushed into `CoinsTip()`, that one from time to
time into the database; the memory pool follows each block connected or
disconnected; and notifications go out through the scheduler to the subscribers,
the indexes among them. Between blocks, transactions that peers announce are asked
for one peer at a time and enter the pool.

## Modules

**UtxoSet, CoinsCache.** `UtxoSet` is the abstract specification: three plain
sets of unspent outputs, on disk, of the active chain, and of the block being
worked on. `CoinsCache` has an entry per outpoint in each of two caches, the
best block of each level, and the running byte counts. Its actions are
`OpenView`, `ReadTip`, `ReadView`, `AddToView`, `SpendFromView`,
`SetBestBlock`, `FlushView`, `DropView`, `Uncache`, `FlushTip`. A coin is a
model value with a size. The refinement mapping reads through the caches.

**ChainFlush.** The steps of `FlushStateToDisk` (write the index, unlink pruned
files, start the coins batch with the two heads, partial batches over any set
of entries, the last batch with the MWEB data, compaction), `Crash`,
`LosePower` (the database falls back to its last synced state), `Restart`, and
the loops of `ReplayBlocks`. All of a flush holds `cs_main`, so only a crash
can come between its steps. The cache is its set of dirty entries; the layers
are CoinsCache's subject. `UtxoAt`, the set of outputs as of each block, is a
constant fixed by the assumption `ValidBlocks`.

**ChainState.** `idx` holds the status bits of the block index as sets of
blocks; `candidates`, `unlinked`, `failedBlocks` are the sets of the code;
`act` is the call that holds `m_cs_chainstate`. Actions are
`ProcessNewBlockHeaders`, `RejectHeader`, `ProcessNewBlock` (with
`ReceivedBlockTransactions`), the steps of `ActivateBestChain`
(`StartActivation`, `ContinueToTarget`, `FindMostWorkChain`,
`DropInvalidCandidate`, `DisconnectTip`, `ConnectTip`, `ConnectTipInvalid`,
`ConnectTipMutated`), the steps of `InvalidateBlock`, `ReconsiderBlock`,
`PreciousBlock`, `FlushCoins` and `Restart`. A step that keeps `cs_main` ends
in a phase of `CsMainHeld`, in which nobody else moves. Constants say which
blocks are malformed, invalid, or carry an extension block that does not apply.

**CheckQueue.** One action per stretch of code under the mutex: `Enter`, `Add`,
`EnterLoop`, `Execute` (without the lock), `Report`, `Wake`, `Leave`, with
spurious wake-ups and the interruption of workers. The queue is a set, since
its order does not matter.

**Scheduler.** `ServiceQueue` and `Timeout` are a service thread under
`newTaskMutex`; `Repeat` is the function of `scheduleEvery`;
`AddToProcessQueue`, `MaybeScheduleProcessQueue`, `Schedule`, `ProcessQueue`
and `FinishCallback` are `SingleThreadedSchedulerClient`; `Stop`, `Join` and
`EmptyQueue` are the part of `Shutdown` that uses them; `StopWhenDrained` is
the other way to stop, which only tests use. Callbacks are numbered in the order
they are added, by a `Signal` or by `SyncWithValidationInterfaceQueue`, which waits
for its own. Who may add is as in `Shutdown`: RPC and network threads until they are
ended, which is before the stop (`OthersOut`); the load-block thread (`Loaders`) until
it is joined, which is after it; a task of a service thread as long as it runs; and
the main thread, with its own flush, before it empties the queue.

**VersionBits.** `GetStateFor` with the walk back and the cache it fills,
`GetStateSinceHeightFor`, and `Clear`. `Reference` gives the state of a period
from the whole chain, without cache or walk.

**TxRequest, TxTracker, TxDownload.** `TxRequest` has the member functions of the
tracker as operators on its index, a function from hash and peer to the state of
an announcement, with the order of the `ByTxHash` index in `NextOf` and `PrevOf`.
The counters of the peers are changed where the code changes them, in each call of
`Erase` and `Modify` and in `ReceivedInv`, never computed from the index. Loops over
announcements (`DisconnectedPeer`, `AddTxAnnouncement`, `Request`) are recursive
functions that make the calls one after the other; those of `ForgetTxHash` are for
different peers and are written side by side.
`TxDownload` has the handlers of `net_processing.cpp` that call them:
`InitializeNode`, `FinalizeNode`, `Inv`, `Tx` (with the verdicts that settle both
hashes, one, or none, and the orphan whose parents are asked for), `NotFound`,
`BlockConnected`, the rounds of `SetTimePoint` and `SendGetdata` of
`SendMessages`, and the clock, which may be set back. `Submitted` and
`NoLongerKnown` change what `AlreadyHaveTx` knows without a message. `TxTracker`
is the abstract specification: candidates, requests and completed announcements
without any index, in which whom to ask is computed from scratch, as the naive
implementation in `src/src/test/fuzz/txrequest.cpp` does.

**Mempool.** `pool` is the memory pool with its links, totals, `mapNextTx`,
prioritisation and kernel cache; `chain` the blocks; `queue` the transactions of
disconnected blocks. Actions are `AcceptToMemoryPool` (limits, replacement, expiry
and trimming included), `PrioritiseTransaction`, `ConnectTip`, `DisconnectTip` and
`UpdateMempoolForReorg`. A transaction with MWEB data is known to a block by its
kernel, one with nothing else is not in `block.vtx`, and the copy a block has of one
lacks its MWEB inputs and outputs. Every transaction has size one.

**MainSignals, Index.** `MainSignals` is the list of subscribers of
`validationinterface.cpp`, in which an entry is counted while it is registered or
being run. `Index` composes it with the chain, the queue of events and
`BaseIndex` with the data of the block filter index: `Start`, the steps of
`ThreadSync`, those of the callbacks `BlockConnected` and `ChainStateFlushed`
(a rewind is three of them: copy and position in one batch, best block, commit),
`Activate`, `Invalidate`, `FlushStateToDisk`, and `Interrupt`, `ForceFlush`,
`Stop` or `Crash`. `Activate` and `Invalidate` may flush in the middle, as
`DisconnectTip` and `ConnectTip` do (`FlushIfNeeded`): the coins on disk are then those
of a block on the way, and the event has the tip of before. The assertions of `Rewind`
are checked by both of its callers; one that fails ends the process (`Abort`). The
history variable `owed` says whom a walk of the list has yet to call.

## Runs

| Run | Instance | Shows |
|---|---|---|
| `coins_cache` | 2 outpoints, 3 coins (one unspendable), 2 blocks | The flags describe the level below (`CachesCoherent`), the byte count is exact (`UsageExact`), the caches implement UtxoSet |
| `flush_recovery` | 2 branches, 4 blocks, 2 outpoints, power loss | The database always lies between the heads it names; after any number of interrupted flushes and replays the view is that of the chain; no start is refused; a replay ends |
| `flush_prune` | the same with pruning and MWEB, no power loss | The index never names a deleted file; the MMR files the database names match its MWEB coins |
| `chain_choice` | 6 blocks on 2 branches, one malformed, one invalid; restarts and crashes | No block is forgotten in `m_blocks_unlinked`; when nothing is under way the active chain is the best one; every activation ends |
| `chain_operator` | 6 blocks, one not applicable; the three operator commands | What `CheckBlockIndex`, `PruneBlockIndexCandidates` and `AcceptBlockHeader` assert, with `InvalidateBlock` interleaved; no failed block in the active chain |
| `check_queue` | 2 workers, 2 masters, 4 checks, batches of 2 | `Wait` returns, with the exact verdict |
| `scheduler` | 2 threads, 2 producers (one the load-block thread), 2 callbacks, 2 clock values | Callbacks run in order, none is left behind; all are run and a stop ends, also with callbacks added during and after it, unless the load-block thread is stuck (see below) |
| `version_bits` | 2 branches of 9 blocks, periods of 2, 6 voters, 6 deployments | Answers do not depend on what was asked before; since-heights are exact |
| `tx_request` | 2 peers, a transaction with witness and its parent, delays and intervals of 1, the clock set back once | The tracker implements TxTracker; the counters of a peer, kept call by call, are those of the index, and none are left of one that has gone |
| `tx_served` | 3 peers, 1 transaction | What `SanityCheck` asserts; every announcement is sooner or later asked for, answered, settled or withdrawn |
| `mempool` | 7 transactions (a diamond, a conflict, a coinbase spend, a peg-in with an MWEB child), 2 blocks of at most 3 | Links and totals are exact, also in the middle of a reorganisation; no confirmed or unfunded entry stays; the queue holds nothing that is confirmed |
| `index` | 2 branches, 5 blocks, 2 changes of the chain with 3 starts, 3 with 2, up to 2 other subscribers | Counts of subscribers are exact and all of them are called; the index ends at the tip and finds every filter (outside `RareCases`); it fails in no way but one, the assertion of `Rewind` in a reorganisation while its thread synchronises (see below), and always catches up again |

### Bounds, and why they are enough

Two outpoints let a spend of one coin and the creation of another fall into
different batches. Two branches make every reorganisation possible that a replay
tells apart: back, forward, and back then forward. Batches are arbitrary sets of
entries, crashes are unlimited, and only the number of MWEB flushes is bounded
(`MaxMmrIndex`). In ChainState, three blocks on one branch let a block wait for
two missing ancestors; two branches of different length give reorganisations that
succeed and fail; `MaxPrecious` bounds `preciousblock`. In CheckQueue two masters
in turn show what one block leaves to the next, and four checks with batches of
two keep both workers and the master busy. In Scheduler, two callbacks are enough
for one to be added at every point of the other's life, and two threads for both to
wait for the same task; the clock has the values 0 and 1. `QueueLimit` is 0, not 10,
so that two callbacks are enough for the load-block thread to wait in
`LimitValidationInterfaceQueue`. Four periods in each
branch of VersionBits take a deployment from defined to active, or to failed.
Two peers and a child with its parent let an orphan's parents, its txid and its
wtxid be asked for side by side; a third peer is needed to see the choice among two
that wait, and has a run of its own. The limit of requests in flight delays later
ones in `tx_request`; that of announcements is met but has nothing further to turn
away, since no peer has more hashes to announce (the proofs hold for any limit).
In Mempool, two blocks give a reorganisation that takes back parents before their
children, a queue of three that overflows, and `MaxPool` that trims; at most one
entry expires at a time. In Index, two branches of two blocks make the index rewind
by one and two blocks in the thread and in the callbacks, and the queue holds two
events, which is enough for one of a stale branch to wait behind another; one of the
steps of a reorganisation flushes at most. The bounds of Index depend on each other
(`Scopes`), so that restarts and subscribers need not be multiplied. `Rare` is empty in
`index` and `Foreign` in `mempool`: the cases they would add are those in which the
properties fail, described below.
Bounds appear as guards and are named.

### Deadlock

Deadlock is not checked where the program may stop: a node that has shut down
(Scheduler), one whose start was refused (ChainFlush with pruning), a block
tree of which all has arrived (ChainState), and a node that is not started again
(Index).

### Fairness

- CheckQueue and Scheduler: weak fairness of each thread's own steps; a thread
  that can run does, since the operating system schedules all of them. In
  CheckQueue nothing is assumed of spurious wake-ups, of interrupts, or of masters
  that have not called `Wait`. In Scheduler time passes, the load-block thread comes
  to its end when it is not waiting (it looks at `ShutdownRequested`), and nobody need
  shut the node down.
- ChainState: weak fairness of the loop of `ActivateBestChain` and of that of
  `InvalidateBlock`, which run to their end once called. Nothing is assumed of
  the arrival of blocks or of the operator.
- ChainFlush: weak fairness of the writes of a flush and of the steps of a replay.
  Crashes remain possible at every step, so the property allows an interrupted
  replay.
- TxDownload: the clock advances, a round of `SetTimePoint` that has begun goes on,
  and `SendMessages` comes round for every connected peer again and again, as the
  message handler thread does. Nothing is assumed of the peers: they may never
  answer and never leave. Fairness of the clock and of `SendMessages` is strong,
  since other handlers take `cs_main` in between.
- Index: weak fairness of the sync thread, of the callbacks and the queue that
  calls them, of the shutdown once begun, of the end of a process whose assertion
  failed, and of starting the node again while the
  bound allows it. Fairness of `ForceFlush` is strong: it waits until the other
  threads are joined, and these have been told to end.

## Proofs

**CoinsCacheProofs** (any sets of outpoints, coins and blocks). The lemmas treat
one cache over one base: each operation keeps it coherent and changes what it
shows as the abstract operation does. The inductive invariant is type
correctness, `CachesCoherent`, and that a view without best block stands over a
database without one (`BestKnown`), which the best block of UtxoSet needs.
Theorems: `TypeCorrect`, `CoherenceAlways`, `FreshSound`,
`CachesImplementUtxoSet` (the initial state and every step, as a refinement), and
`UsageAlwaysExact`, that the byte counts are the sums of the sizes of the coins
held. The last rests on facts about sums over the outpoints: that the recursion
behind `Total` has a solution (`SumsExist`) and that it adds (`TotalAdds`), both by
looking at a smallest counterexample. Assumed: `Spent`, `NotCached` and the null
block are distinct from coins, entries and blocks, and there are finitely many
outpoints.

**ChainFlushProofs** (any block tree, any batches, any crashes and power losses).
`ViewIsChain` is not inductive: in the middle of a replay the view belongs to no
block. What is preserved is that, for each outpoint, the view holds what the block
reached says or what the new tip says (`ReplayBetween`), that undo records the
index vouches for are right (`UndoRight`), and that heads are in place exactly
while a flush or a replay is under way (`HeadsInPlace`). Theorems: `TypeCorrect`,
`DatabaseDescribed`, `RecoveryExact`, `AssertionHolds`, `HeadsAlwaysKnown`. Three
more have an invariant of their own on top of that one.

- `PruningSafe` (the index names no file that is gone): what is about to be unlinked
  is in neither index any more (`FilesKept`).
- `MmrFilesSafe`: the files that the last batch is about to name are complete
  (`MmrKept`). Assumed: no power loss (see below).
- `CrashNeverCostsRebuild`: both branches of an interrupted flush are on disk with
  their undo data, and a replay stays between the old tip and the fork
  (`NothingLost`). Assumed: no block is deep enough to be pruned, and none is at
  MWEB height, as in `flush_recovery`.

Assumed throughout: the blocks form a tree and are consensus valid (`BlockTree`,
`ValidBlocks`).

**ChainStateProofs** (any finite block tree, any work, any bad blocks, any order of
headers, blocks, activations, commands and restarts). `ActiveChainValid` needs to
know of the target that `ActivateBestChain` keeps while `cs_main` is free: neither
it nor an ancestor is marked as failed meanwhile (`NoneFailed`), and all of its chain
has data (`HaveData`). `InvalidateBlock` marks only what it has disconnected
(`CallSound`), and every flag has its cause (`FlagsAgree`). `IInv` is these with the
types. Theorems: `ActiveChainSound`, `FailureFlagsSound` (the assertion of
`AcceptBlockHeader`), `FailedBlocksMarked` (the part of it that `reconsiderblock`
leaves true), `ChainStateTypes`. Assumed: the blocks form a tree in which work grows,
and no crash comes after `invalidateblock`, since the chain it brings back is marked
as failed. `FailureFlagsSound` also assumes that `reconsiderblock` is not used, since
children on other branches keep their marks.

On the candidates, in the same module: `CandidatesExact` speaks of moments when
`cs_main` is free. In between, the candidates are compared with the tip at which the
round began (`Ref`), and both that one and the present tip bound them from below
(`Ordered`). A block with its whole chain is linked, and one that waits for data is in
`m_blocks_unlinked` (`Linking`). The target is above the tip or on a branch that is not
worse than the tip was (`AboveTip`). Unless a further call waits, it is the best chain
there is (`AtBest`): what arrives after it was chosen leaves a call that waits. `JInv`
is these with the signs of the sequence numbers (`Numbered`). Theorems:
`UnlinkedSound`, `CandidatesSoundAndComplete`, `CandidateRemains`, `BestChainActive`.
Assumed, besides the above (`Undisturbed`): no `reconsiderblock`, and `preciousblock`
for at most one block. Each of these assumptions excludes a behaviour listed below in
which the property fails. `chain_operator` checks more than is proved: one
`reconsiderblock`, of a block whose only ancestor is the genesis block.

**CheckQueueProofs** (any finite sets of workers, masters and checks, any batch
size). The invariant says who owns each check (`Owned`), who is in the loop
(`Roles`, `Counted`), and that `fAllOk` and the threads' `fOk` account for every
check that is no longer owned (`Verdict`, `Outcomes`). The head of the loop is
reached from three places, so one lemma on the state in between serves all.
Theorems: `TypeCorrect`, `TodoAlwaysExact`, `VerdictExact`, `AlwaysFinished`.

**SchedulerProofs** (any finite set of service threads, any producers, any number
of callbacks). `InOrder` speaks of finished callbacks only. The invariant numbers
the callbacks along one line, the finished ones, the one that runs and the pending
ones (`Line`), and says that `m_are_callbacks_running` is set exactly while an
actor runs the next one (`Runner`). `Runner` is also why
`MaybeScheduleProcessQueue` may walk away when the flag is set: the actor that
runs will look again. Theorems: `TypeCorrect`, `OneAtATime`, `AlwaysInOrder`,
`NoneStranded`. Assumed: threads, producers and the main thread are distinct.

**TxDownloadProofs** (any finite set of hashes, any peers, transactions, delays,
limits and number of clock changes). The invariant (`IInv`) is type correctness, the
order of every row of the index (`Sane`: `SanityCheck`, hash by hash), that the
counters are those of the index (`Tallies`), and that a peer that is not connected
has no announcement (`NobodyElse`). Each member function of the tracker has a lemma:
it keeps a row in order and, `ReceivedInv` apart, brings no announcement in
(`Fewer`). The hard ones are `ChangeAndReselect`, where the announcement just before
the selected one must be the best of the ready ones (`PrevIsTop`), and
`PromoteCandidateReady`, where the one just after must be the selected one or a
ready one that is better. That the counters follow the index is proved along the
calls: `Counted`, a tracker whose counters are right, is kept by one `Erase`, one
`Modify` and one `ReceivedInv` (`EraseCounts`, `ModifyCounts`, `InvCounts`, from facts
on the cardinality of a set that gains or loses one element), hence by every member
function that is built from them (`PromoteCounts`, `ChangeCounts`, `CompleteCounts`,
`ForgetCounts`, ...) and by every loop (`SameLoop`, `DisconnectCounts`,
`AnnounceCounts`, `RequestCounts`), where a smallest set at which the loop would be
wrong is looked at. For the refinement each member function has a second lemma, on
what the naive tracker sees of it. There the order of a row matters: an announcement is selected exactly if it
is the best of those whose time has come. The invariant (`RInv`) adds that the times
of announcements that wait for nothing are reset. Theorems: `TrackerSane`,
`CountersExact`, `TrackerIsNaive`. Assumed: no two peers draw the same salted hash
for a transaction (`LowBitsAssumption`; the code takes 63 bits for it), there are
finitely many hashes, delays are numbers, and, for the refinement, there is a peer.

**IndexProofs** (any subscribers, any finite set of threads that call them, whatever
the index and the chain do). The list, the map and the iterators agree (`Sound`,
`CountExact` with types and distinct entries). For `EveryoneCalled` it does not
suffice to know whom an iterator still owes a call: their entries must lie ahead of it
(`Ahead`), which an entry erased before or behind it must not change. `Register` adds
at the end, so that a new entry is never skipped over. `Quiet` says that the list is
empty while the node is down. Theorems: `CountsExact`, `SubscribersCalled`. Assumed:
the threads that a run may use are among those that call (`ScopeAssumption`).

**VersionBitsProofs** (any block tree, period, threshold, start, timeout and kind of
deployment, any questions on any branches). The reference looks at the whole chain
at once, with no recursion; the first half of the module shows that it nevertheless
follows the `switch` of `GetStateFor` from one period to the next (`ReferenceStep`),
where it matters that the median time never falls along a chain (`MedianRises`). Over
a cache that holds only what the reference gives (`Right`), the walk back and forth
then computes the reference (`ComputedRight`) and stores only states of period ends
(`WalkIn`), so that `Right` is preserved whatever is asked. The loop of
`GetStateSinceHeightFor` ends at the first period of the run of equal states
(`BackRight`), and all blocks from there on have the state (`RunIsLowest`). What the
recursive functions of the model compute is shown by looking at the lowest block for
which it would be wrong. Theorems: `AnswersExact`, `SinceHeightsExact`. Assumed: the
blocks form a tree, their median times do not fall from parent to child
(`MedianAssumption`; consensus requires it), and the period is not 0.

A leaf names its prover where the default order (SMT for five seconds, then Zenon)
would first run into a timeout.

Only model-checked: liveness (`ReplayEnds`, `ActivationEnds`, `WaitReturns`,
`AllRun`, `ShutdownEnds`, `CandidatesServed`, `CatchesUp`), which the prover does
not handle under fairness; all of Mempool,
whose walks over the links are recursive operators, which cost the prover its SMT
backend; and `CaughtUp`, `FailsOnlyInSync` and `IndexExact` of Index, for which an
invariant that relates files, database, event queue and both writers is still to be
found.

## Other behaviours the models show

These follow from the models and have no run of their own. The first group departs
from what is written beside the code; the constants or the property that show it
are given.

- `ReplayBlocks` does not apply extension blocks (`validation.cpp:4537`), so that
  after an interrupted flush the MWEB coins stay behind, although `init.cpp:1694`
  calls the database "in a good state" (`MwebFollowsDatabase` under
  `MCChainFlushPrune.cfg`).
- A block whose extension block does not apply is reported as mutated
  (`mweb_node.cpp:235`), is not marked, and is chosen again for ever
  (`ActivationEnds` under `MCChainState.cfg` with `Unapplicable = {b2}` and no other
  bad block).
- A crash after `invalidateblock`, with the index written and the coins not, leaves
  no candidate; the assertion at `validation.cpp:2836` fails at the next start
  (`CandidatesLeft` under `MCChainStateOperator.cfg` with restarts and crashes).
- `reconsiderblock` clears the flags of ancestors without making them candidates
  (`validation.cpp:3319`; `CandidatesComplete` with `Reconsidered = {a2}`).
- That the "index cannot be corrupted by a missed commit" (`index/base.cpp:99-101`)
  does not hold for two of them. When the index has committed blocks that the coins do
  not have yet, a crash makes it write them again further on in the file; if the
  coins are then flushed and the process ends before the next commit, the locator is
  right and the position is not, and the next filter overwrites one in use
  (`IndexExact` with `Rare = {"crash behind the locator"}`).
- The assertion `current_tip == m_best_block_index` of `Rewind` (`index/base.cpp:178`)
  can fail. The sync thread moves `m_best_block_index` when it commits, after its first
  block and then every 30 seconds; a reorganisation that takes back blocks it has
  written since then calls `Rewind` with its own `pindex`, which is further on, and the
  node aborts. `FailsOnlyInSync` says that the index fails in no other way: no callback
  meets the assertion, the second assertion always holds, and `FatalError` is never
  called. After the next start the index catches up (`CatchesUp`).
- `Shutdown` stops the scheduler "before things get flushed" (`init.cpp:227-230`) and
  only then joins the load-block thread. If that thread waits in
  `LimitValidationInterfaceQueue` (`validation.cpp:2967`) for a callback that the
  service threads have not run when they return, neither comes to an end
  (`LoaderStuck`). `AllRun` and `ShutdownEnds` hold with that exception, and fail under
  `MCScheduler.cfg` without it.
- A stop before the first block is indexed commits `nullptr`, for which `GetLocator`
  puts the tip: the index then takes itself to be complete (`Rare = {"stop before the
  first block"}`).
- `invalidateblock` while the index synchronises: `m_synced` is set before the
  commit, which reads the position and the best block one after the other
  (`Rare = {"invalidate while syncing"}`).
- With an MWEB transaction that others mined and this pool never saw
  (`Foreign = {"P"}`), a reorganisation queues a copy without MWEB data; the copy is
  refused, and a child that spends its MWEB output stays, unlike the comment at
  `validation.cpp:392` (`LinksExact`). Nor does `removeForBlock` remove entries that
  conflict with such a transaction on MWEB inputs only.
- An MWEB-only transaction that is confirmed again stays in the queue of
  disconnected transactions (the note at `validation.cpp:366`); `QueueUnconfirmed`
  speaks of `block.vtx` only.
- `net_processing.cpp:4954` says that a hash is forgotten whenever it becomes known;
  not so for a transaction of this node's wallet or RPC, which that line handles.

The others need no comment in the code to contradict them.

- A power loss can take the chainstate database back to MMR files that `Compact`
  has removed, since the last batch is not synced (`txdb.cpp:156`). That is why
  `MmrFilesMatch` is checked for crashes of the process only.
- Disconnecting the first MWEB block leaves its coins in the tip's MWEB view:
  `Flush` returns when the header is null (`CoinsViewCache.cpp:250`).
- In `InvalidateBlock` the condition at `validation.cpp:3229` never holds, so every
  block disconnected stays `BLOCK_FAILED_VALID`. The model keeps the condition.
- After a failed reorganisation `pindexBestHeader` can have less work than the tip
  (`validation.cpp:1479`).
- A block received above a failed header is not in `m_blocks_unlinked` after
  `reconsiderblock` (`validation.cpp:3411`), and the children of a reconsidered
  ancestor on other branches keep `BLOCK_FAILED_CHILD`. `UnlinkedComplete` and
  `Settled` are therefore checked without `reconsiderblock`.
- After `preciousblock` on two blocks the reset of the counter can give both the
  same sequence number (`validation.cpp:3129`); `chain_operator` names one block.
- With two service threads a task can run before its time; the node starts one.
- A deployment by height is locked in at its timeout height without votes
  (`versionbits.cpp:80`), unlike the comment in `versionbits.h:29`.

## What is left out of the modules

- ChainFlush: `-reindex`, old database formats, errors of the disk other than lost
  writes.
- ChainState: pruned blocks, the mempool updates of `ActivateBestChainStep` (they
  are in Mempool), fork warnings, the shutdown check inside `InvalidateBlock`,
  snapshots. On a crash the index on disk is taken to be the newest one; the coins
  may be older.
  `BLOCK_FAILED_CHILD` set by `FindMostWorkChain` is not marked dirty in the code,
  but is found again when the index is loaded, as `Reloaded` does.
- CheckQueue: the swap of checks, which moves memory only.
- Scheduler: callbacks that throw, a clock that is set back, and wake-ups of a condition
  variable without a notification.
- VersionBits: `GetStateStatisticsFor` (a report), and the bit masks of `Condition`.
- TxRequest: the sequence number and the `m_is_wtxid` flag of an announcement.
- TxDownload: the contents of the orphan pool (an orphan is a hash that is known),
  peers with relay permission, block-relay-only peers.
- Mempool: the rolling minimum fee, the unbroadcast set, the eviction of the kernel
  cache, the fee estimator. With `Foreign` empty, MWEB transactions are mined after
  this pool has seen them.
- Index: failing writes, the transaction index, a first start with an empty chain,
  several filter files. A locator is the block itself, since it lists the last ten
  blocks one by one.

Parts that are not modelled are listed in `PROJECT.json` with the reason.

## Plan

1. Block download of message processing: in-flight blocks, timeouts, compact blocks,
   with lost and late messages.
2. MWEB chain state: leaf set, PMMR and prune list with apply, undo, flush and
   compaction, as an implementation of a plain set of outputs.
3. Wallet transactions, address manager, HTTP work queue.
4. Proofs: `CaughtUp` and `FailsOnlyInSync` of Index.
