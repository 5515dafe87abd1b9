# zcashd in TLA+

Specifications of the parts of zcashd that decide which chain a node follows, what
state that chain stands for, how a node comes by it, and what the wallet and the RPC
server make of it.  They are checked with TLC on small instances; the safety
of eight parts is also proved with TLAPS for every instance: the script check queue, the
chain state's caches, the connection of blocks, the block index, what is on disk, block
download, the memory pool with its orphans, and the RPC server.  All C++ paths below are relative to the
repository root; the code is under `src/`.

`PROJECT.json` lists components, runs, the correspondence between definitions and
source lines, hazards and theorems.  To repeat a run:
`tlc -config <cfg> <module>`; to repeat the proofs: `tlapm <module>.tla`.

## 1. The system

A zcashd node receives headers and blocks from peers, keeps a tree of all blocks
it knows, and connects and disconnects blocks so that its active chain is the
valid chain with the most work.  Connecting a block changes the chain state: the
unspent transparent outputs, the nullifiers of spent notes, the anchors (roots of
the note commitment trees) and the hashes of the best block and best anchors.
Almost all of it runs under one recursive lock, `cs_main`.

| Component | State | Operations | Interacts with | Hard behaviour | Makes it correct |
|---|---|---|---|---|---|
| Script check queue (`src/checkqueue.h`) | queue of checks, `nIdle`, `nTotal`, `nTodo`, `fAllOk` | `Add`, `Wait`, worker loop, control object | fed by `ConnectBlock`; checks point into its block and view | threads, condition variables, interruption at shutdown | verdict is that of all checks; no check outlives the block; `Wait` returns |
| Chain state views (`src/coins.cpp`, `src/txdb.cpp`) | database, cache `pcoinsTip`, views on it; DIRTY and FRESH flags | look-ups, `ModifyCoins`, `ModifyNewCoins`, `SetNullifiers`, `PushAnchor`, `PopAnchor`, `BatchWrite`, `Flush` | used by block connection, mempool, miner, RPC | flags that are wrong only show two flushes later; crashes | caching does not show; a flush is all or nothing |
| Block connection (`src/main.cpp`) | undo data, `chainActive` | `ConnectBlock`, `DisconnectBlock`, `UpdateCoins`, `FlushStateToDisk` | opens views on `pcoinsTip`; called by chain selection | failure in mid-block, reconnection after a fork, crash between two databases | state is a replay of the active chain, in memory and on disk |
| Block index and chain selection (`src/main.cpp`) | `mapBlockIndex`, `setBlockIndexCandidates`, `mapBlocksUnlinked`, tip | `AcceptBlockHeader`, `ProcessNewBlock`, `ActivateBestChain`, `InvalidateBlock`, `ReconsiderBlock`, pruning | calls block connection; called from network and RPC threads | data before parents, `cs_main` released between steps, failing branches, deleted files | the best valid chain is active when activation ends, and it ends |
| Start-up (`src/main.cpp`, `src/txdb.cpp`) | block index database, chain state database | `LoadBlockIndexDB`, `RewindBlockIndex`, `CVerifyDB` | reads what flushes wrote | crash at any time, interrupted rewind | a restart resumes a state that was reached before |
| Chain history tree (`src/zcash/History.cpp`, `src/coins.cpp`) | node arrays per epoch, in each view | `PushHistoryNode`, `PopHistoryNode` | block connection | arrays truncated and extended in two layers | as for the other views |
| Note commitment trees (`src/zcash/IncrementalMerkleTree.cpp`) | frontier, witnesses | `append`, `root`, `witness` | block connection, wallet | full subtrees, partial frontiers | agrees with the full tree |
| Mempool (`src/txmempool.cpp`, `src/mempool_limit.cpp`) | transactions, spent outputs and nullifiers, weights | accept, remove for block, reorganisation, expiry, limit | chain state, miner, wallet | reorganisations, anchors that vanish, eviction | no conflict inside; all still spendable at the tip |
| Block download (`src/main.cpp`) | blocks in flight, per-peer queues | request, receive, stall, time out | network, block index | late answers, disconnections | counters agree; every block is asked for again |
| Wallet notification (`src/validationinterface.cpp`) | its own last tip | replay of disconnected and connected blocks | block files, wallets | the tip moves while it works | each wallet sees one connected chain of events |
| Asynchronous RPC (`src/asyncrpcqueue.cpp`) | operation map, queue, workers | add, run, cancel, close, finish | RPC threads | shutdown races | each operation runs at most once; none is lost |
| HTTP work queue, scheduler (`src/httpserver.cpp`, `src/scheduler.cpp`) | bounded queue; timed tasks | enqueue, run, stop | RPC threads | stop with work queued | nothing runs after stop; no deadlock |
| Orphan transactions, address manager, wallet, miner, difficulty and upgrades | see `PROJECT.json` | | | | |

Script and proof verification, cryptography, serialisation, sockets, LevelDB and
user interfaces are not state machines of this program; where their outcome
matters (a block is invalid, a batch is written) it is an input of a model.

## 2. Modules

| Module | What it is |
|---|---|
| `CheckQueue` | `CCheckQueue` and `CCheckQueueControl` |
| `CheckQueueProofs` | its safety theorems |
| `LayeredView` | abstract specification: a map with a durable, a committed and a working version |
| `CoinsLayers` | the cache operations on one key, through database, `pcoinsTip` and view |
| `HistoryLayers` | the same for the chain history tree of one epoch |
| `CoinsCache` | state machine over all keys for any client; implements `LayeredView` |
| `CoinsCacheProofs` | proof of that |
| `CoinsChain` | composes `CoinsLayers` and `HistoryLayers` into `ConnectBlock`, `DisconnectBlock`, flushes and crashes |
| `CoinsChainProofs` | its safety theorems |
| `Trees` | paths, heights and orders of a tree of blocks |
| `TreeTheorems` | facts about them, for every tree |
| `BlockTree` | block index and chain selection |
| `BlockTreeProofs` | the safety theorems of `BlockTree` and `ChainRestart` |
| `ChainRestart` | extends `BlockTree` by what is on disk, crashes, start-up and changes of the software |
| `BlockDownload` | which block is asked from which peer |
| `BlockDownloadProofs` | its safety theorems |
| `WeightedTxTree` | the tree from which the mempool draws what to evict |
| `Mempool` | memory pool, orphan transactions and the chain they follow; uses `WeightedTxTree` |
| `MempoolProofs` | the safety theorems of both |
| `NoteTree` | `IncrementalMerkleTree` and `IncrementalWitness` as operators |
| `WalletNotify` | the notifier thread and the wallet's notes, behind a moving chain; uses `NoteTree` |
| `WalletRestart` | extends it by `wallet.dat` and a start from what it holds |
| `AsyncRPC` | operations, their queue and workers, and the wallet's locks on inputs |
| `HttpServer` | the RPC server's work queue |
| `RpcServer` | composes the two, with the order of `Shutdown` |
| `RpcServerProofs` | the safety theorems of all three |
| `SaplingMigration` | extends `AsyncRPC` by `RunSaplingMigration` |
| `MC*` | instances for TLC |

### CheckQueue

One action per critical section of the queue's mutex: `Enter` (a thread reaches
the loop), `Account` (it returns from a batch), `Resume` (it leaves `wait()`), each
followed, as in the code, by the top of the loop (`LoopTop`), which returns, blocks
or takes a batch.  `Execute` is the work outside the mutex.  Checks are numbered in
the order they are added, so that the stack discipline of `queue` (take from the
back) is "take the largest".  A thread in `wait()` is woken by a notify
(`notify_one` picks any waiting thread), spuriously, or by `InterruptAll` at
shutdown.  The interruption is a point where the counters are left as they are:
`nIdle` has been incremented and the exception skips the decrement.  An interrupted
master unwinds into `~CCheckQueueControl`, which calls `Wait` again.

### LayeredView, CoinsLayers, CoinsCache

`CoinsLayers` gives what each cache function does to a *cell*: what the database,
`pcoinsTip` and the view hold for one key.  A coin is the set of its unspent outputs
and its height; a fully spent coin is pruned, and all pruned coins are equal, as in
`CCoins::operator==`.  A nullifier or anchor is present or absent, with a DIRTY flag.
A best hash is a hash or null, and null means "ask the parent".

`CoinsCache` lets any client call any operation in any order, subject to three rules
that are guards: `ModifyNewCoins` only for a transaction the parent shows no unspent
output of, a view is flushed only when it has read each best hash its parent caches,
and `pcoinsTip` is flushed only when no view is open.  `CoinsChain` has no such
guards and shows that the real clients obey (a breach would break `NeverUnclean` or
`ChainStateIsReplay`).  `StateRefined` states the refinement of `LayeredView` for all keys
at once, so that a flush that reached coins and not the best block would violate it.

### HistoryLayers and CoinsChain

Since Heartwood every block appends a leaf to a Merkle mountain range, one per epoch,
which each layer keeps as an array: the database as such, a cache as a length, the
position from which it differs from its parent (`updateDepth`) and the nodes from there
on.  `HistoryLayers` has `HistoryCache`, the look-ups through the layers, the search for
peaks in `PreloadHistoryTree`, `PushHistoryNode`, `PopHistoryNode` with its cases for
small trees, and the two `BatchWriteHistory`.  A node is the sequence of the leaves below
it; what the Rust library does with the peaks it is given is external.  `ArrayOf` is the
reference: the array in closed form.  The positions that `Peaks` computes are checked
against it up to 40 leaves as an assumption of `MCCoinsChain`.

In `CoinsChain` a handler computes with a record of cells from the opening of its view to
its flush or drop, so each handler is one step, as under `cs_main`.  `ConnectTip` is
`ConnectBlock` of a block whose checks all pass, with undo data stored when the
block is connected for the first time; `RejectBlock` is any failure, wherever in the
block it happens, and `TestBlockValidity`.  `WriteBlockIndex` and `FlushStateToDisk`
keep the code's order (block index first, chain state second) and `Crash` may come
between.  The loops over a block's transactions and their inputs are functions of the
record and of the number of rounds done (`Spending`, `Connecting`; backwards `Restoring`,
`Disconnecting`).  `fault` records a failed assertion or an unclean `DisconnectBlock`,
`misfit` a failed assertion of `BatchWriteHistory`.

`CoinsChainAssumption` is about the blocks that reach these handlers: the first transaction
of a block and no other is a coinbase (`CheckBlock`), the coinbases of different heights
differ (`ContextualCheckBlock`, which wants the height in them), and no transaction names
an output twice, or spends nothing unless it is a coinbase (`CheckTransaction`).  The last
lines say that model values for different things differ.  Nothing keeps a block
from containing double spends, missing inputs, repeated nullifiers, unknown anchors or a
transaction of an earlier block: that is for the handlers.

A note commitment tree is here the sequence of transactions that appended to it.  One
shielded pool stands for Sprout and Sapling, whose code is the same template.
Everything else that `ConnectBlock` checks can only reject a block, and any block may
be rejected.

### BlockTree

The blocks that may arrive are a fixed tree; whether `ConnectBlock` or
`ContextualCheckBlock` rejects a block is a property of the block.  An index entry
keeps validity level, data flag, the two failure bits, whether `nTx` and `nChainTx`
are set, and `nSequenceId`.  `FindAndStep` is one turn of the loop of
`ActivateBestChain` under `cs_main`: `FindMostWorkChain` (the removal of failed or
pruned branches included) and `ActivateBestChainStep`.  `LoopTest` is the loop's
condition, evaluated without the lock.  Between the two any other action may happen.

Left out, with the reason:

* blocks whose data may be corrupt (`CorruptionPossible`) and disk errors;
* `invalidateblock` of a block below a pruned active block, which aborts the node;
* damage to the `std::set` of candidates: the model's set is always in order, while the code
  may change the order key of a member (see the observations; `KeysStable` of `ChainRestart`
  says when it does not);
* `pindexBestHeader` and `pindexBestInvalid`, which only feed downloads and warnings.

### ChainRestart

The node is up, in one of the writes of `FlushStateToDisk`, down, or starting.  `disk` is
what a loss of power leaves: index entries, cached branch ids, synchronised block data and
the coins' best block.  A flush syncs the block files, writes the index, unlinks pruned
files and writes the coins, each a step of its own; `StepAndFlush` is the flush inside
`ConnectTip`, between two blocks of one `ActivateBestChainStep`.  `LoadBlockIndexDB`
rebuilds what is not stored: linked blocks, candidates, unlinked blocks, all sequence ids
zero, so that blocks of equal work are ordered by address.  Software is the height at
which it activates one network upgrade; `RewindBlockIndex` disconnects, erases from disk,
and flushes, in this order.  An entry may be kept although its parent is erased
(`Stranded`); its `pprev` then points to freed memory, and the model ends there (the phase
"dangling").  The operator's calls, undo data apart from block data, `-reindex` and
`CVerifyDB` are left out.

### BlockDownload

A peer's state is the record of `CNodeState` that the download uses.  `Headers` and `Inv`
announce, `NewBlock` and `CorruptBlock` deliver (asked or not), `SendMessages` starts the
header synchronisation, disconnects for misbehaviour, a stall or a timeout and asks for
blocks; `FinalizeNode` drops a peer with its requests, and it may come back.  A whitelisted
peer is not banned, and its blocks are stored unasked; other unasked blocks are stored if they have
more work than the tip and are not too far ahead (`Wanted`).  Headers that are new and have no
good parent count against the sender, as does a block that turns out not to connect while it is
processed; who brought a block that is tried later only (`mapBlockSource`) is left out.
`Activate` tries the stored chains in the order of their work until one connects.  Time is left
out: a timeout may have expired at any step, except for the honest peers; a ban needs ten
points instead of a hundred.

### WeightedTxTree and Mempool

The tree is the code's array, with `backPropagate`, removal by moving the last element and
the draw by weight.  `Mempool` has one action per message and per tip movement; a
movement is a sequence of `DisconnectTip` and `ConnectTip` followed by the clean-up at the
end of `ActivateBestChainStep`, with no message in between.  `AcceptToMemoryPool` is its verdict on
what the pool, the tip and the transaction are; signatures, proofs, fees, rate limits, policy
and lock times can only reject, so every transaction may also be refused, whether it comes from
a peer, from a disconnected block or from the orphans.  `removeForReorg` may also take out any
time-locked transaction (`TimeLocked`), with its descendants.  When the transactions of a
disconnected block are put back, the tip has not moved yet (`HeightInDisconnect`).  The
orphans' work queue is processed one orphan per step, with nothing in between, as in the
handler of `tx`.

### NoteTree, WalletNotify, WalletRestart

A hash at depth d is the sequence of the 2^d leaves below it, so that two nodes are equal
exactly if a collision-free hash makes them equal.  `NoteTree` translates `append`,
`root`, `path`, `next_depth`, `is_complete` and the witness with its cursor;
`Reloaded` is what writing and reading does to a witness (the cursor's depth is not stored).
`WitnessAssumption` checks, up to a full tree of depth 3, every witness against the
reference `RootOver`, read back at any moment.

`WalletNotify` has the chain (tip, invalidated blocks, wallet transactions in the mempool,
the two maps the notifier drains) and the thread: `Collect` under `cs_main`, then without it
one action per `SyncTransaction` round and per witness or nullifier update of each block.
A wallet note carries the list of witnesses, the height and the nullifier, told by the
position.  A scan at start-up goes through the same steps, block by block, with the chain
locked (`ScanForWalletTransactions`).  `WalletRestart` adds `SetBestChain`, which may write a mixture of old and new
notes because it takes no `cs_wallet`, and unflushed records that a crash may keep or lose.

### AsyncRPC, HttpServer, RpcServer, SaplingMigration

Critical sections of `lock_` and `WorkQueue::cs` are actions; operation states are atomics
that are tested and stored without a lock, so each access is an action.  Inputs are locked
when `z_shieldcoinbase` and `z_mergetoaddress` construct their operation, and selected when
`z_sendmany` runs.  `lockunspent` (`src/wallet/rpcwallet.cpp:2173`), by which the user may free
any lock, is left out.  A migration batch tests `isCancelled()` and then waits for `cs_wallet` to
store its transaction; the two are steps of their own.  `RpcServer` is the composition in the order of `Shutdown`: the HTTP
queue is interrupted, the operation queue closed and joined, and only then are the HTTP
workers waited for, which may still submit.

## 3. Runs

| Run | Instance | What it shows |
|---|---|---|
| `checkqueue` | 2 workers and the master, 2 blocks of up to 4 checks, batches of 2 | `IdleBetweenBlocks`, `VerdictCorrect`, `NoDanglingCheck`; `WaitReturns` under fairness, interruption included |
| `coins_cache` | a transaction with two outputs, a nullifier, a pool with two roots, two blocks | `FlagsSound`; `StateRefined`: everything together implements `LayeredView` |
| `coins_chain` | 11 transactions in blocks of 4 heights, two epochs | `ChainStateIsReplay`, `HistoryIsReplay`, `NoDoubleSpend`, `NeverUnclean` |
| `block_tree` | two branches, one invalid and one malformed block, 2 threads, an operator, pruning | `CheckBlockIndex`, `BestChainActive`, `ActiveChainValid`; `ActivationReturns` |
| `chain_restart` | three branches, the longest above both activation heights, two restarts with one of two versions of the software | `DiskConsistent`, `IndexSurvives`, `BestChainRestored`, `RulesOfSoftware`, `NoNeedlessRewind`, `KeysStable` |
| `block_download` | an honest peer and, one at a time, a whitelisted and another one, a chain longer than the window, a bad block | `InFlightConsistent`, `CommonIsHeld`; `Synced` |
| `mempool` | 7 transactions, a pool of 3, 2 orphans, 2 peers, an upgrade | `PoolConsistent`, `PoolFitsTip`, `DrawByWeight`, `EvictedStaysOut` |
| `wallet_notify` | a fork of 1 and 2 blocks, 2 wallet transactions among 8 commitments, 3 moves, a crash | `WitnessesFollowChain`, `WalletComplete`, `SpendsRecognised`, `OnlyExhaustionAborts`; `CatchesUp` |
| `rpc_server` | 2 HTTP workers, a queue of 1, any two of 3 operations over 2 coins | `NoneForgotten`, `InputsReserved`, `ShutdownSettles`, `OneOwner`; `OperationsSettle`, `ShutdownReturns` |
| `migration_cancel`, `wallet_restart`, `rewind_crash` | | the findings of section 6 |

A property that has several sides is a conjunction of named parts, so that the runs check
the whole and a proof can take the parts one by one:

* `ChainStateIsReplay` is `TypeOK`, `TipIsReplay` (what `pcoinsTip` shows is a replay of the
  active chain), `DbIsReplay` (the database, of the chain at the last flush) and
  `UndoAvailable` (the undo data of every durable block is indexed).  `HistoryIsReplay` is
  the same for the chain history trees.
* `CheckBlockIndex` is the code's function of this name by subject: `TypeOK`,
  `IndexSound`, `LinkedOnceProcessed`, `FailureHasCause`, `CandidatesSound` (with
  `CandidatesProcessed`), `CandidatesComplete`, `UnlinkedExact`.  The last two make the
  exception `PassedOver` while a thread is inside `ActivateBestChain`, which the code's
  assertions do not make (see the observations).  `IndexSurvives` is the same after restarts, as
  long as no entry was kept without its parent, and says which entries alone may be.
* `DiskConsistent` is `DurableTipIndexed` and `FilesPresent`.
* `InFlightConsistent` includes `TypeOK`, `StoredNotAwaited` and `StallersOwe`.
* `PoolConsistent` includes `TypeOK`, `WithinLimit` and `OrphansIndexed`.
* `OnlyExhaustionAborts` includes `TypeOK` and `ConflictsKept`.
* `NoneForgotten` includes `AsyncTypeOK` and `RunsAtMostOnce`; `OneOwner` includes
  `HttpTypeOK` and `WorkersLeftFirst`.

Why the bounds are enough to be interesting:

* `checkqueue`: four checks and batches of two let every thread hold a batch while the
  queue is non-empty, and let a failure be seen by one thread while another still has
  work; the second block shows stale state.  The theorems cover every other size.
* `coins_cache`: operations other than flushes concern one key (or an anchor and its
  best hash), and flushes treat keys alike, so one key of each kind together with a
  best hash shows both a wrong cell and a flush that is not atomic.  Transparent and
  shielded keys are not in use in the same state (`OneKind`).  The theorems
  cover every other size, and all keys at once.
* `coins_chain`: the blocks contain a spend of an output of the same block and of an
  earlier one, both outputs of a transaction spent in one and in two transactions, a
  double spend, a missing input, a repeated nullifier, a proof against the anchor of a
  fork that was left, and blocks without shielded data.  Four heights allow a fork of
  two blocks to be replaced across the change of epoch; three blocks of one epoch give
  the array a node with two leaves and a second peak.
* `block_tree`: three blocks on a branch are the least that give a reorganisation with
  an intermediate state, and data that waits for two missing ancestors; the other branch
  has an invalid block.  `MaxSequenceId` and `MaxUnlinked` bound repeated receptions of
  pruned blocks.  `MIN_BLOCKS_TO_KEEP` is not above `MAX_REORG_LENGTH`, unlike in the code
  (288 and 99), so that a reorganisation can meet a deleted block and the abort of
  `DisconnectTip` happens.
* `chain_restart`: two restarts, because the damage of one crash shows at the second
  start; the activation height is moved across a block of the chain, up or down; `a3` is above
  both heights, so that an entry kept without its parent is reached; two blocks can be
  pruned and downloaded again.
* `block_download`: a window of one block and a chain of two are the least that let a peer
  stall the window; two connections of the other peers let one come back, or both come in
  turn, with one of them connected at a time (`MaxInbound`).
* `mempool`: the transactions are a coinbase spend, its child, a child signed for the
  next branch, a double spend, a shielding transaction that expires, a spend of its note
  and one with the same nullifier; capacity, orphans and eviction memory are met.
* `wallet_notify`: the note of the common block has witnesses that survive a fork, the
  other is at different positions on the branches and is double-spent by a third block;
  the commitments around them fill subtrees of depth 1 and 2.
* `rpc_server`: with two coins two operations hold locks at the same time, or compete for the
  same coin; the queue is full with one request.

### Fairness

* `checkqueue`: weak fairness of each thread's steps (the mutex and the scheduler
  let every runnable thread run) and of the master's call of `Wait`, which is the next
  statement of `ConnectBlock`.  Notifies are steps of the notifier.  Nothing is
  assumed of spurious wake-ups: `Wait` must return without them.
* `block_tree`: weak fairness of each thread inside `ActivateBestChain`, which
  needs only that `cs_main` is handed on.  No arrival is assumed.  `ActivationReturns`
  supposes that the operator stops, which is stated in the property.
* `wallet_notify`: weak fairness of the notifier, a thread that sleeps at most a second.
* `block_download`: the honest peer stays connected and answers in order, and
  `SendMessages` visits every peer, which `ThreadMessageHandler` does in a loop.  Nothing
  is assumed of the other peer.  Of a whitelisted peer it is assumed that it does not misbehave
  for ever, which is no fairness: the node does not ban it, and each corrupt block it sends takes
  the request for that block from whoever owes it (see the observations).
* `rpc_server`: weak fairness of the steps of every thread: a thread that can go on does,
  and `Shutdown` goes on once it has begun.  Weak fairness suffices: the one lock
  that is held over several steps is `lock_` in `cancelAllOperations`, once.  No request and no spurious wake-up is assumed.

Where the action under fairness would be costly to test, the formula is on the part of
the state that only this action changes (`Moves` in `BlockTree`, `GoesOn` in
`WalletNotify`); their comments say why it is the same.

## 4. Proofs

`CheckQueueProofs`, from: the worker set is finite and does not contain the master,
`nBatchSize` is positive.

The properties are not inductive: what `Wait` returns depends on counters that
threads maintain apart from the queue.  `IInv` says that `nTodo` is the number of
checks that are queued or in a batch, that `nTotal` exceeds `nIdle` by the number of
threads with a batch and that `nIdle` is at least the number of threads in `wait()`
(not equal: an interrupted thread stays counted), that batches and queue are disjoint,
and that a failing check of the current block is still to be run, has been seen by a
thread that has not reported yet, or has cleared `fAllOk`.  It is stated for the state
without one thread (`X`) and with the values that thread has not stored yet, because
`LoopTop` runs in the middle of a critical section.  Theorems: `TypeCorrect`,
`AlwaysIdleBetweenBlocks`, `AlwaysVerdictCorrect`, `AlwaysNoDanglingCheck`.

`CoinsCacheProofs`, from: `None` differs from every entry, root and block, the empty
root is a root, the key of the best block is not a pool.

`CellOK` is what DIRTY and FRESH mean for one coin, stronger than
`FlagsSound`: an entry of the view without one in `pcoinsTip` is FRESH, and an entry
that is DIRTY and FRESH is not pruned; without these a flush breaks `FlagsSound`.
`MarkOK` is the same for nullifiers and anchors.  One lemma per cache operation shows
that it preserves the meaning and says what each layer shows afterwards; one lemma
per action lifts this to the map.  Theorems: `TypeCorrect`, `FlagsAlwaysSound`,
`StateImplementsLayeredView`.

`CoinsChainProofs`, from `CoinsChainAssumption` (section 2) and `None` differing from every
entry.

`Inv` says of every cell what `CellOK` and `MarkOK` say and what `pcoinsTip` and the
database show for it: the outputs, nullifiers, anchors and best hashes of `chain` and
`dbChain` (`CoinsInv`, `MarksInv`, `HashInv`).  That is not inductive, because
`DisconnectBlock` trusts undo data that was written when the block was first connected and
may be used after the chain has left the block and come back.  `ChainInv` adds
what that needs: both chains are chains of valid blocks (`IsChain`), and the undo data of
every block ever connected, in memory or on disk, is the one its chain gives (`UndoOK`).
Inside a handler the view shows the chain followed by the part of the block done so far
(`ViewOK`, with `ShowsCoins`, `ShowsMarks` and `ShowsAnchors`); each cache operation moves it
by one input, output, nullifier or anchor, each loop by induction over its rounds, and
`DisconnectBlock` is the same walked back.  Anchors need one more fact: a
note commitment tree only grows along a chain, so the root after a block is the one before
it or has never been an anchor (`RootsAppend`), and `PopAnchor` removes exactly what
`PushAnchor` added.  A flush then moves the view to `pcoinsTip`, or `pcoinsTip` to the
database, one lemma per kind of cell; a crash leaves the database, whose blocks
have undo data because the block index is written first.  Theorems: `AlwaysInv`,
`AlwaysChainStateIsReplay`, `AlwaysNeverUnclean`, `AlwaysNoDoubleSpend`.

`RpcServerProofs`, from: the HTTP workers are finitely many, the queue's depth is
positive, and an operation is of one kind only.

`OneOwner` counts who has a request; that needs `numThreads` to be the number of workers
inside `Run`, and a worker to hold an item exactly while it handles one (`HttpInv`).  Of the
operations, `AsyncInv` says who has each: a queued operation is with no worker and has not
run (`HandedOut`, `NotYetRun`), the status fits the worker's place in `run()` and `main()`
(`Statuses`), and while the queue is closing every READY operation is still ahead of the
thread that cancels (`Closing`).  `Reserved` is the first half of `InputsReserved` for every operation that is
not final or is still queued or with a worker: one that is cancelled in the queue is taken
out by a worker all the same.  `Released` is the second half: a locked coin has a claimant
(`Claims`), an operation that is not over or was cancelled.  Theorems: `AlwaysOneOwner`,
`AlwaysNoneForgotten`, `AlwaysInputsReserved`, `AlwaysShutdownSettles`.

`BlockTreeProofs` (about `BlockTree` and `ChainRestart`), from: the blocks are a finite tree under
the genesis block, every block has work, and addresses are distinct.  That `Parent`
makes a tree is stated without recursion (`IsTree` of `Trees`: a set with the genesis
block that holds the children of all its members holds every block).
`TreeTheorems` derives from it that the recursive functions for path and height exist,
induction over the tree, that two blocks on a path are ordered, and that a
non-empty set on a path has a highest member.

`ActiveChainValid` is preserved by `ActivateBestChainStep` only because `FindMostWorkChain`
never returns a branch with a failed or missing block, and by `InvalidateBlock` only because
it disconnects what it marks.  `TreeInv` adds that the ancestors of a known block
are known, that only a known block has data or a validity level, and that a stored block passed `ContextualCheckBlock`.  One lemma per action; the walk of
`FindMostWorkChain` has its own.  Theorem: `AlwaysActiveChainValid`.

Three parts of `CheckBlockIndex` are proved on top of it.  `LinkInv` says of each entry that
data, `nTx`, validity, `nChainTx` and sequence id fit each other and the ancestors' entries,
and of `mapBlocksUnlinked` that what waits was processed; the loop of
`ReceivedBlockTransactions` keeps it round by round (`LinkSound`, induction over the
rounds), and every other action is `Quiet`: it leaves `nTx`, `nChainTx` and the ids alone and
raises validity along the active chain only.  Theorem: `AlwaysIndexSound`, without
hypotheses.  The other two parts do not hold for every use of the node (see the
observations), and their theorems name the uses for which they do:
`AlwaysFailureHasCause` if no block below another invalid one is reconsidered
(`RootReconsidered`), `AlwaysLinkedOnceProcessed` if no block is pruned while it waits
for its parent and none is stored on a parent that has failed and is not linked
(`NothingLost`).  Both hypotheses are about steps, `[][...]_vars`; TLC checked both theorems
on instances with more operator calls and pruning than the run's.

`DiskConsistent` depends on the order of the writes of `FlushStateToDisk`.
`RestartInv` says where a flush stands (`FlushOrder`): when the index is written, every block
with data has its file; when the coins are written, no entry is dirty; only files of blocks
whose entry gave up its data are unlinked.  While the node runs, an entry that is not dirty
is on disk as it is in memory, and the paths to the tip in memory and to the one on disk are
validated (`Running`); when it is down, memory does not count (`Fresh`).  `RewindBlockIndex` erases entries before it writes the coins:
`DiskConsistent` leaves that phase out, and `rewind_crash` shows why.
Theorem: `AlwaysDiskConsistent`.

`BlockDownloadProofs`, from: the blocks are a finite tree, the peers are finitely many, the
window and the limit per peer are positive, the whitelisted peers are preferred.

`DownloadInv` says of requests and queues what `InFlightConsistent` says, with queues that
name a block once in place of a count, and adds that the tip is on a chain of stored
blocks, that the best known block of a peer is in the index, and that only a peer whose
version is known is preferred.  `MarkBlockAsReceived` and `MarkBlockAsInFlight` each keep
`NetOK`, also when the block is taken from another peer; the loop over the blocks to ask
for follows by induction over its length.  `FindFacts` is about the walk of
`FindNextBlocksToDownload`: what it asks for is missing and fits the peer's limit, the new
last common block and all before it are stored, the staller owes a block.  Theorems:
`AlwaysInFlightConsistent`, `AlwaysCommonIsHeld`.

`MempoolProofs`, from: the transactions are finitely many, a weight is positive, the coinbases
are distinct, there are enough of them for the bounds and none is another block's
transaction, and the list of evicted transactions has room for one.  Nothing is assumed of
inputs, nullifiers, anchors, expiry heights or branches.

`DrawByWeight` is about an array whose nodes know the weight of all below them
(`TreeOK`); `add` and `remove` change the weights on the path to the root by the same
amount, which `BumpWeighs` shows to be right.  The walk of `findByEvictionWeight` starts with
a number below the total weight and subtracts on its way down; by induction from the root,
the numbers that reach a node are an interval as long as the weight below it, and those that
stop there as long as its own (`DrawsOf`).

`PoolOK` is the agreement of `mapTx`, `mapNextTx`, the nullifier maps and the tree.
`Descendants` is a fixed point after as many rounds as there are transactions in the pool,
so `removeRecursive` leaves nothing that spends what it takes out (`RemoveRecursive`,
`Shrunk`), and each round of `EnsureSizeLimit` above the limit removes at least one
transaction, so that it ends within it.

`PoolFitsTip` is about the next block, except that a transaction which expires with the tip
may stay for one block more (see the observations), and leaves lock times out.  It holds only
when `cs_main` is free, and is not inductive.  `MempoolInv` splits it
by when it holds: inputs, anchors, nullifiers and expiry at every moment (`Fit`), maturity
except after a block was disconnected, the branch except after any movement of the tip;
the end of the step restores the last two.  Of the chain it needs that coinbases occur once
and that what a mined transaction spends is below it: otherwise an output could be
spent in the chain before it is created, and a child left behind by `removeForBlock` would
have no input.  One lemma per action.  Theorems: `AlwaysPoolConsistent`, `AlwaysPoolFitsTip`,
`AlwaysDrawByWeight`, `AlwaysEvictedStaysOut`.

Every inductive invariant was checked by TLC, as an invariant of the run's instance, before
it was proved.

Only model-checked:

* liveness (`WaitReturns`, `ActivationReturns`, `Synced`, `CatchesUp`, `OperationsSettle`,
  `ShutdownReturns`), which this prover does not do;
* what recursion over data computes, the peaks and powers of two of `HistoryLayers` and the
  folds over subtrees of `NoteTree`, and with them `HistoryIsReplay` of `CoinsChain` and
  `WitnessesFollowChain` of `WalletNotify`;
* `BestChainActive` of `BlockTree` and the rest of `CheckBlockIndex` (`CandidatesSound` apart
  from `CandidatesProcessed`, `CandidatesComplete`, `UnlinkedExact`): their inductive form
  is about the moments between the steps of every thread in `ActivateBestChain`, and a
  pruned candidate that is downloaded again gets a new sequence id, so that they do not
  hold for all trees;
* `KeysStable`, `IndexSurvives`, `BestChainRestored`, `RulesOfSoftware` and
  `NoNeedlessRewind` of `ChainRestart`, which rest on the former;
* the other properties of `WalletNotify`, whose witnesses are those of `NoteTree`.

## 5. What is left

Worth proving next: `OnlyExhaustionAborts` of `WalletNotify`, which needs heights and lengths
of the witnesses only; `HistoryIsReplay` of `CoinsChain`.

Worth modelling next: the run-time rescan of `z_importkey` against the notifier; the
operator's calls across restarts; `CVerifyDB` and `-reindex`; the address manager; the
difficulty adjustment with its integer widths.

### Not modelled, and why

The definitions stand for about 8,000 of the repository's 123,000 lines of
implementation.  Most of the remainder is not of a kind these models are about: LevelDB
(vendored), secp256k1, equihash and the proof systems, the script interpreter and the
stateless checks of transactions (pure functions, whose outcome is an input here),
serialisation, RPC calls that format what they read, argument parsing, key derivation
and encryption of the wallet, coin selection and transaction construction, address
encoding, metrics, ZMQ, AMQP, Tor control and REST.  `PROJECT.json` has the list by
component.

## 6. Findings

Three statements in the code's own comments fail in reachable states; each has a run
that ends in the violation.

* `migration_cancel`: `AsyncRPCOperation::cancel` is not virtual, so the migration's
  override is never called through the base class and a batch that is executing is not
  cancelled; it adds its transactions to the next batch.  (A virtual `cancel` alone would not
  repair it: the test of `isCancelled()` and the store under `cs_wallet` are two steps, and the
  list may be cleared in between.)
* `wallet_restart`: `SetBestChain` stores the locator of the chain's tip, which the
  notifier may not have reached.  After a crash nothing is rescanned and the notifier
  starts at the tip: the wallet misses the transactions in between until a `-rescan`.
* `rewind_crash`: `RewindBlockIndex` erases index entries on disk before the chain state
  is flushed; a crash in between leaves a chain state whose best block is unknown.

### Observations

Met while modelling.  Some of these cases are reached by the passing runs, whose properties
state the exception; the others are kept out by the instance, as noted.

* A step of `ActivateBestChain` that fails half way leaves the tip lower than it was.  Until the
  thread comes round again, the tip, and blocks as good as it that were dropped as worse than the
  old tip, may be missing from the candidates and from `mapBlocksUnlinked`, against the assertions
  of `CheckBlockIndex` (`src/main.cpp:5181` and 5223), which another thread may evaluate then.
  The run reaches this; `CandidatesComplete` and `UnlinkedExact` except the blocks that are
  `PassedOver` for a better candidate that the next turn will take.
* `reconsiderblock` of one child of an invalidated block clears the parent and leaves its
  other children marked as failed (`src/main.cpp:3600`, against the assertion at 5177);
  a block that arrived while its parent was invalidated is not in `mapBlocksUnlinked` and
  is never linked (`src/main.cpp:3775`).  The runs reconsider only the block that was
  invalidated, with its data present, which is how the RPC is meant to be used.
* A block that waits for its parent's data and is pruned meanwhile leaves
  `mapBlocksUnlinked` with `nTx` kept (`src/main.cpp:4312`).  When the parent's data comes it
  is not linked, against the assertion at `src/main.cpp:5166`, until it is downloaded again,
  which the comment at the pruning relies on.  The run's tree has no such block;
  `AlwaysIndexSound` holds regardless.
* `mapBlocksUnlinked` may hold a block twice on a pruned node.  If the tip's child `a2` waits
  for a pruned `a1` (after a crash, say) and `a3` arrives, `FindMostWorkChain` walks down again
  and inserts `a2` a second time (`src/main.cpp:3336`).  When `a1` comes back, the loop of
  `ReceivedBlockTransactions` links `a2` twice, and the second round changes its `nSequenceId`
  (3760) after the first has put it into `setBlockIndexCandidates` (3763).  With one such block
  the `std::set` stays in order, with two siblings of equal work that wait together it
  does not.  The run reaches the duplicate; within the loop the model's set has no order to
  lose.  `KeysStable` says that only blocks which lost a pruned ancestor wait twice, and that
  no candidate waits or, apart from the tip, can be received again.  Before the activation that
  follows a start is over, a candidate may lack its data.  Repeated `invalidateblock` and
  `reconsiderblock` add more duplicates (`MaxUnlinked` bounds them).
* `FinalizeNode` does not take a peer's requests out of `nQueuedValidatedHeaders`
  (`src/main.cpp:355`), so the counter, and with it later download timeouts, only grows;
  `InFlightConsistent` gives the lower bound.
* `invalidateblock` does not survive a restart, because `RewindBlockIndex` drops failed
  blocks, although the RPC's help says "Permanently marks a block as invalid"
  (`src/rpc/blockchain.cpp:1235`); if the block below an activation block is dropped this
  way and that block kept, its `pprev` dangles.  An invalidated tip that is written to the
  index before a crash fails an assertion at the next start (`src/main.cpp:4628`).
* `RewindBlockIndex` judges index entries one by one (`src/main.cpp:4836`): a block above
  both the old and the new activation height is kept although its parent, between the two, is
  erased, and its `pprev` dangles.  `chain_restart` reaches this with `a3` (the phase "dangling")
  and follows it no further; `IndexSurvives` says that it happens to no other block.
* Only one peer at a time is asked for headers and no timeout applies to it; an `inv` for a
  block that is in flight from another peer is swallowed.  `Synced` holds for an honest
  peer that is preferred (outbound).
* A corrupt block cancels the request for the block whose header it has, whoever was asked
  (`src/main.cpp:4236`).  A whitelisted peer is not banned for it (6590) and could keep a block
  from ever arriving; `Synced` assumes that it stops.
* A transaction whose expiry height is the tip's stays in the pool until the next block:
  `removeExpired` runs with the height of the block just connected (`src/main.cpp:3247`), whereas
  the next block refuses it (873) and the miner leaves it out (`src/miner.cpp:270`).
  `PoolFitsTip` makes that exception.
* Every disconnect uses up one entry of the witness cache and connects restore at most
  `WITNESS_CACHE_SIZE`, so the disconnects of successive reorganisations can add up to the
  abort that the TODO for #1302 mentions.  `OnlyExhaustionAborts` says nothing else aborts.
* A rescan at run time (`z_importkey`, `importwallet`) takes the witnesses to the chain's tip
  while the notifier may be behind it.  If the chain then leaves that tip before the notifier
  has seen it, the notifier never removes those witnesses: the notes keep witnesses of a
  block that is gone, or the assertion at `src/wallet/wallet.cpp:1238` fails, although the
  comment below it says that notes witnessed above the current height "would only occur
  during a reindex".  `WalletNotify` scans at start-up only.
* When a block disconnects, `UpdateSaplingNullifierNoteMapWithTx` looks the nullifier up
  after the note data was replaced and leaves the old entry in the map
  (`src/wallet/wallet.cpp:1489`).
* `std::map::insert` in `ConnectTip` keeps the conflict list of an earlier connection of
  the same block (`src/main.cpp:3256`).
* `findByEvictionWeight` stores weights in `int` (`src/mempool_limit.cpp:60`), which the
  mempool's cost limit keeps from overflowing only for the default setting.
* The database's `BatchWriteHistory` erases nothing: the key it erases is made from an `int`,
  the one it writes from a `HistoryIndex` of 64 bits (`src/txdb.cpp:204`), so the two never have
  the same bytes.  Nodes beyond the stored length stay and are hidden by it (`HistoryIsReplay`).
* When a block is disconnected, the Sprout anchor to return to comes from the undo data and the
  Sapling one from the parent's `hashFinalSaplingRoot` (`src/main.cpp:2430`); `CoinsChain` has
  one pool and takes both from the undo data.
* A worker thread of the HTTP server that starts only after the queue was deleted would
  use it; the window needs a shutdown during start-up.  So would a request whose callback was
  past its tests when the queue was deleted (`src/httpserver.cpp:290`), because the event thread
  is joined only afterwards: such a request is never answered ("lost" in `HttpServer`), and
  `OneOwner` says that requests are answered at most once.
