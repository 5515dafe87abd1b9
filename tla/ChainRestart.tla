---------------------------- MODULE ChainRestart ----------------------------
(***************************************************************************)
(* The block index and the chain state across crashes and restarts         *)
(* (src/src/main.cpp, init.cpp): what FlushStateToDisk makes durable and   *)
(* in which order, what LoadBlockIndexDB rebuilds from it, and how         *)
(* RewindBlockIndex takes back blocks that were validated under other      *)
(* consensus rules, when the node is restarted with different software.    *)
(*                                                                         *)
(* The state while the node is up is that of BlockTree.  One network       *)
(* upgrade is modelled; software differs in the height at which it         *)
(* activates.  A crash is a loss of power: what was not synchronised to    *)
(* disk is gone.  Undo data lives and dies with the block data.  The       *)
(* operator's calls are left to BlockTree.                                 *)
(*                                                                         *)
(* RewindBlockIndex may keep an entry whose parent it deletes, when a      *)
(* block is above the activation heights of two versions of the software.  *)
(* The entry's pprev dangles from then on, and anything may follow: the    *)
(* model ends there, in the phase "dangling".                              *)
(***************************************************************************)
EXTENDS BlockTree

CONSTANTS Epoch,          \* Epoch[b]: the branch id whose rules b obeys, 0 or 1
          Activations,    \* activation heights of the software one may start
          FirstActivation,\* the one of the first start
          Prunable,       \* blocks whose file may be pruned
          MaxStarts       \* bound: restarts of the node

\* The upgrade does not activate with the genesis block.
ASSUME RestartAssumption ==
    /\ Epoch[Genesis] = 0
    /\ Activations \subseteq Nat \ {0}
    /\ FirstActivation \in Activations
    /\ Prunable \subseteq Blocks
    /\ MaxStarts \in Nat

VARIABLES phase,       \* "up", in a step of FlushStateToDisk, down or starting
          activation,  \* the activation height of the running software
          branch,      \* nCachedBranchId of each block
          activates,   \* blocks with BLOCK_ACTIVATES_UPGRADE
          dirty,       \* setDirtyBlockIndex
          doomed,      \* setFilesToPrune of the flush under way
          disk,        \* what a crash leaves
          starts

restartVars == <<phase, activation, branch, activates, dirty, doomed, disk, starts>>
allVars == <<vars, restartVars>>

CurrentEpochBranchId(height) == IF height >= activation THEN 1 ELSE 0
IsActivationHeight(height) == height = activation

\* Blocks that ConnectBlock rejects in the software that runs.
Rejected == BadBlocks \cup {b \in Blocks : Epoch[b] # CurrentEpochBranchId(nHeight[b])}

\* The fields of an index entry that CDiskBlockIndex serializes.
OnDisk(e) == [e EXCEPT !.nChainTx = FALSE, !.nSequenceId = 0]

\* Fresh memory, before LoadBlockIndexDB.
Nothing == [b \in Blocks |-> Unknown]

RestartInit ==
    /\ Init
    /\ phase = "up"
    /\ activation = FirstActivation
    /\ branch = [b \in Blocks |-> None]
    /\ activates = {}
    /\ dirty = {}
    /\ doomed = {}
    /\ disk = [index |-> [Nothing EXCEPT ![Genesis] = OnDisk(GenesisEntry)],
               branch |-> [b \in Blocks |-> None],
               files |-> {Genesis}, tip |-> Genesis, havePruned |-> FALSE]
    /\ starts = 0

-----------------------------------------------------------------------------
(***************************************************************************)
(* The running node: BlockTree, with the marks that decide what is written.*)
(***************************************************************************)

\* Blocks of the active chain are not requested (FindNextBlocksToDownload).
Arrive ==
    /\ phase = "up"
    /\ \/ \E b \in Announced : AcceptBlockHeader(b)
       \/ \E t \in Threads, b \in Blocks \ {Genesis}, requested \in Requests :
             (requested => b \notin Path[tip]) /\ ProcessNewBlock(t, b, requested)
    /\ dirty' = dirty \cup {b \in Blocks : OnDisk(index'[b]) # OnDisk(index[b])}
    /\ UNCHANGED <<phase, activation, branch, activates, doomed, disk, starts>>

\* Blocks that a step of ActivateBestChain validates, and those it finds
\* invalid; the FAILED_CHILD marks of FindMostWorkChain do not count as changes.
Validated == {b \in Blocks : index'[b].validity # index[b].validity}
FoundInvalid == {b \in Blocks : index'[b].failedValid # index[b].failedValid}

\* The loop of ActivateBestChain.  ConnectBlock caches the branch id of a block
\* that it validates for the first time.
ActivateAndCache(t) ==
    LET cached[b \in Blocks] ==
            IF b \notin Validated THEN branch[b]
            ELSE IF IsActivationHeight(nHeight[b]) THEN CurrentEpochBranchId(nHeight[b])
            ELSE cached[Parent[b]]
    IN /\ phase = "up"
       /\ FindAndStep(t, Rejected) \/ LoopTest(t)
       /\ branch' = cached
       /\ activates' = activates \cup {b \in Validated : IsActivationHeight(nHeight[b])}
       /\ UNCHANGED <<phase, activation, doomed, starts>>

Activate(t) ==
    /\ ActivateAndCache(t)
    /\ dirty' = dirty \cup Validated \cup FoundInvalid
    /\ UNCHANGED disk

-----------------------------------------------------------------------------
(***************************************************************************)
(* FlushStateToDisk, whose steps all happen under cs_main.  It is called   *)
(* when ActivateBestChain returns, by RPC calls and at shutdown; the call  *)
(* within ConnectTip, when the cache is full, is StepAndFlush.             *)
(***************************************************************************)

\* The data of stored blocks reaches the disk: FlushBlockFile.
Synced(idx) == disk.files \cup {b \in Blocks : idx[b].haveData}

\* Fault variant: the branch id of an activation block is not stored.
Written_NoFlag(d, set, idx, ids, flags) ==
    [d EXCEPT !.index = [b \in Blocks |-> IF b \in set THEN OnDisk(idx[b]) ELSE @[b]],
              !.branch = [b \in Blocks |-> IF b \in set THEN None ELSE @[b]]]

\* The entries of set, as they are in memory, in the block index database.
Written(d, set, idx, ids, flags) ==
    [d EXCEPT !.index = [b \in Blocks |-> IF b \in set THEN OnDisk(idx[b]) ELSE @[b]],
              !.branch = [b \in Blocks |->
                  IF b \in set THEN IF b \in flags THEN ids[b] ELSE None ELSE @[b]]]

\* A step of ActivateBestChain in which ConnectTip or DisconnectTip flushes
\* everything, because the cache is full, when the tip is at x.
StepAndFlush(t) ==
    /\ ActivateAndCache(t)
    /\ \E x \in {Parent[b] : b \in Path[tip] \ Path[tip']} \cup (Path[tip'] \ Path[tip]) :
          LET idx == [b \in Blocks |->
                  IF b \in Path[x] THEN index'[b]
                  ELSE [index'[b] EXCEPT !.validity = index[b].validity,
                                         !.failedValid = index[b].failedValid]]
              flags == activates' \cap (activates \cup Path[x])
          IN /\ disk' = [Written(disk, dirty \cup (Validated \cap Path[x]), idx,
                                 branch', flags)
                            EXCEPT !.files = Synced(index), !.tip = x]
             /\ dirty' = (Validated \ Path[x]) \cup FoundInvalid

\* A call with nothing to prune: a full flush, or the block index only.
StartFlush(full) ==
    /\ phase = "up"
    /\ phase' = IF full THEN "writeall" ELSE "write"
    /\ disk' = [disk EXCEPT !.files = Synced(index)]
    /\ UNCHANGED <<vars, activation, branch, activates, dirty, doomed, starts>>

\* Fault variant: the file is deleted before the index is written.
StartPrune_UnlinkFirst(b) ==
    /\ phase = "up"
    /\ PruneOneBlockFile(b)
    /\ phase' = "writeall"
    /\ dirty' = dirty \cup {b}
    /\ doomed' = {b}
    /\ disk' = [disk EXCEPT !.files = Synced(index') \ {b}, !.havePruned = TRUE]
    /\ UNCHANGED <<activation, branch, activates, starts>>

\* A call that prunes a file, which is one block here, and flushes everything.
StartPrune(b) ==
    /\ phase = "up"
    /\ PruneOneBlockFile(b)
    /\ phase' = "writeall"
    /\ dirty' = dirty \cup {b}
    /\ doomed' = {b}
    /\ disk' = [disk EXCEPT !.files = Synced(index'), !.havePruned = TRUE]
    /\ UNCHANGED <<activation, branch, activates, starts>>

WriteBlockIndex ==
    /\ phase \in {"write", "writeall"}
    /\ disk' = Written(disk, dirty, index, branch, activates)
    /\ dirty' = {}
    /\ phase' = IF phase = "write" THEN "up" ELSE IF doomed = {} THEN "coins" ELSE "unlink"
    /\ UNCHANGED <<vars, activation, branch, activates, doomed, starts>>

UnlinkPrunedFiles ==
    /\ phase = "unlink"
    /\ disk' = [disk EXCEPT !.files = @ \ doomed]
    /\ doomed' = {}
    /\ phase' = "coins"
    /\ UNCHANGED <<vars, activation, branch, activates, dirty, starts>>

\* pcoinsTip->Flush(), which is atomic; CoinsChain models what it writes.
FlushCoins ==
    /\ phase = "coins"
    /\ disk' = [disk EXCEPT !.tip = tip]
    /\ phase' = "up"
    /\ UNCHANGED <<vars, activation, branch, activates, dirty, doomed, starts>>

-----------------------------------------------------------------------------
(***************************************************************************)
(* Crash and start.                                                        *)
(***************************************************************************)

Reset ==
    /\ index' = Nothing
    /\ candidates' = {}
    /\ unlinked' = << >>
    /\ tip' = Genesis
    /\ nextId' = 1
    /\ havePruned' = FALSE
    /\ pc' = [t \in Threads |-> "idle"]
    /\ mostWork' = [t \in Threads |-> None]
    /\ shutdown' = FALSE
    /\ phase' = "down"
    /\ branch' = [b \in Blocks |-> None]
    /\ activates' = {}
    /\ dirty' = {}
    /\ doomed' = {}
    /\ UNCHANGED <<activation, disk, starts>>

\* The node dies at any moment but the one CrashAfterErase is about.
Crash ==
    /\ phase \notin {"down", "erased", "dangling"}
    /\ starts < MaxStarts
    /\ Reset

\* LoadBlockIndexDB.  The node refuses to start when a block file is missing.
LoadBlockIndexDB(height) ==
    LET chainTx[b \in Blocks] ==
            disk.index[b].nTx /\ (b = Genesis \/ chainTx[Parent[b]])
        cached[b \in Blocks] ==
            IF b = Genesis THEN 0
            ELSE IF disk.branch[b] # None THEN disk.branch[b]
            ELSE IF IsValid(disk.index[b], BLOCK_VALID_SCRIPTS) THEN cached[Parent[b]]
            ELSE None
        idx == [b \in Blocks |-> [disk.index[b] EXCEPT !.nChainTx = chainTx[b]]]
        ByHeight(a, b) == \/ nHeight[a] < nHeight[b]
                          \/ nHeight[a] = nHeight[b] /\ Address[a] < Address[b]
    IN /\ phase = "down"
       /\ starts < MaxStarts
       /\ disk.index[disk.tip].known
       /\ \A b \in Blocks : disk.index[b].haveData => b \in disk.files
       /\ activation' = height
       /\ index' = idx
       /\ unlinked' \in Listings({b \in Blocks : idx[b].nTx /\ ~ chainTx[b]}, ByHeight)
       /\ tip' = disk.tip
       /\ candidates' = PruneBlockIndexCandidates(idx,
                            {b \in Blocks : /\ IsValid(idx[b], BLOCK_VALID_TRANSACTIONS)
                                            /\ idx[b].nChainTx}, disk.tip)
       /\ havePruned' = disk.havePruned
       /\ branch' = cached
       /\ activates' = {b \in Blocks : disk.branch[b] # None}
       /\ starts' = starts + 1
       /\ phase' = "rewind"
       /\ UNCHANGED <<nextId, pc, mostWork, shutdown, dirty, doomed, disk>>

\* Fault variant: it is enough that some software validated the block.
SufficientlyValidated_Once(b) == branch[b] # None

SufficientlyValidated(b) ==
    /\ b \in activates <=> IsActivationHeight(nHeight[b])
    /\ branch[b] = CurrentEpochBranchId(nHeight[b])

\* Blocks of the active chain from the first insufficiently validated one up.
ToRewind == {b \in Path[tip] : \E x \in Path[b] \ {Genesis} : ~ SufficientlyValidated(x)}

\* The rewind is too long: the node stops.
RefuseRewind ==
    /\ phase = "rewind"
    /\ Cardinality(ToRewind) > MAX_REORG_LENGTH
    /\ Reset

\* DisconnectTip, and the FlushStateToDisk that may or may not write anything.
RewindTip ==
    /\ phase = "rewind"
    /\ ToRewind # {}
    /\ Cardinality(ToRewind) <= MAX_REORG_LENGTH
    /\ index[tip].haveData
    /\ tip' = Parent[tip]
    /\ disk' \in {disk, [disk EXCEPT !.tip = Parent[tip]]}
    /\ UNCHANGED <<index, candidates, unlinked, nextId, havePruned, pc, mostWork, shutdown,
                   phase, activation, branch, activates, dirty, doomed, starts>>

\* Blocks that leave the index.
Insufficient == {b \in Known : ~ SufficientlyValidated(b) /\ b \notin Path[tip]}

\* Fault variant: the blocks below the old tip are forgotten.
Resumable_None == {}

\* Blocks that are worth trying again.
Resumable == {b \in Known \ Insufficient : /\ IsValid(index[b], BLOCK_VALID_TRANSACTIONS)
                                           /\ index[b].nChainTx}

\* The rest of RewindBlockIndex up to its last flush: blocks that were not
\* validated under the rules of the running software leave the index, in
\* memory and on disk, unless they could not be disconnected.
EraseInsufficient ==
    LET idx == [b \in Blocks |-> IF b \in Insufficient THEN Unknown ELSE index[b]]
    IN /\ phase = "rewind"
       /\ ToRewind = {} \/ ~ index[tip].haveData
       /\ Cardinality(ToRewind) <= MAX_REORG_LENGTH
       /\ index' = idx
       /\ candidates' = PruneBlockIndexCandidates(idx,
                            (candidates \ Insufficient) \cup Resumable, tip)
       /\ unlinked' = Only(unlinked, Blocks \ Insufficient)
       /\ branch' = [b \in Blocks |-> IF b \in Insufficient THEN None ELSE branch[b]]
       /\ activates' = activates \ Insufficient
       /\ disk' = Written(disk, Insufficient, idx, branch, {})
       /\ phase' = "erased"
       /\ UNCHANGED <<tip, nextId, havePruned, pc, mostWork, shutdown, activation, dirty,
                      doomed, starts>>

\* Entries that RewindBlockIndex kept without their parents.
Stranded == {b \in Known \ {Genesis} : ~ index[Parent[b]].known}

\* Fault variant: the chain is not activated after the start.
FinishStart_Idle(t) ==
    /\ phase = "erased"
    /\ disk' = [disk EXCEPT !.tip = tip]
    /\ phase' = IF Stranded = {} THEN "up" ELSE "dangling"
    /\ UNCHANGED <<index, candidates, unlinked, tip, nextId, havePruned, pc, mostWork, shutdown,
                   activation, branch, activates, dirty, doomed, starts>>

\* The last flush of RewindBlockIndex; then AppInit2 calls ActivateBestChain.
FinishStart(t) ==
    /\ phase = "erased"
    /\ disk' = [disk EXCEPT !.tip = tip]
    /\ phase' = IF Stranded = {} THEN "up" ELSE "dangling"
    /\ pc' = [pc EXCEPT ![t] = "find"]
    /\ UNCHANGED <<index, candidates, unlinked, tip, nextId, havePruned, mostWork, shutdown,
                   activation, branch, activates, dirty, doomed, starts>>

-----------------------------------------------------------------------------
RestartNext ==
    \/ Arrive
    \/ \E t \in Threads : Activate(t) \/ StepAndFlush(t) \/ FinishStart(t)
    \/ \E full \in BOOLEAN : StartFlush(full)
    \/ \E b \in Prunable : StartPrune(b)
    \/ WriteBlockIndex
    \/ UnlinkPrunedFiles
    \/ FlushCoins
    \/ Crash
    \/ \E height \in Activations : LoadBlockIndexDB(height)
    \/ RefuseRewind
    \/ RewindTip
    \/ EraseInsufficient

RestartSpec == RestartInit /\ [][RestartNext]_allVars

\* The node dies when the entries are erased and the coins are not flushed.
CrashAfterErase ==
    /\ phase = "erased"
    /\ starts < MaxStarts
    /\ Reset

CrashSpec == RestartInit /\ [][RestartNext \/ CrashAfterErase]_allVars

-----------------------------------------------------------------------------

\* The type of the state.
RestartTypeOK ==
    /\ phase \in {"up", "write", "writeall", "unlink", "coins", "down", "rewind", "erased",
                   "dangling"}
    /\ phase # "down" => TypeOK
    /\ activation \in Activations
    /\ branch \in [Blocks -> {0, 1, None}]
    /\ activates \subseteq Blocks
    /\ dirty \subseteq Known
    /\ doomed \subseteq Known
    /\ DOMAIN disk = {"index", "branch", "files", "tip", "havePruned"}
    /\ disk.tip \in Blocks
    /\ disk.files \subseteq Blocks
    /\ disk.branch \in [Blocks -> {0, 1, None}]
    /\ starts \in 0..MaxStarts

\* Whenever the node dies, the block the chain state stands at and all its
\* ancestors are in the block index on disk, as blocks that were validated:
\* otherwise LoadBlockIndexDB finds no tip and the node cannot start.  (Between
\* the last two writes of RewindBlockIndex this may fail; only CrashSpec lets
\* the node die there.)
DurableTipIndexed == phase # "erased" =>
    \A b \in Path[disk.tip] \ {Genesis} :
        disk.index[b].known /\ disk.index[b].validity = BLOCK_VALID_SCRIPTS

\* Every block that the index on disk says is stored has its file, whatever
\* was pruned and wherever the flush was interrupted.
FilesPresent == \A b \in Blocks : disk.index[b].haveData => b \in disk.files

\* What is on disk fits together in every state in which the node may die: the
\* chain state, the block index and the block files.
DiskConsistent == DurableTipIndexed /\ FilesPresent

\* b is above the activation heights of two versions of the software.
AboveTwo(b) == \E h, k \in Activations : h # k /\ nHeight[b] > h /\ nHeight[b] > k

\* After any sequence of crashes and restarts every entry of the index has its
\* parent in the index, unless it lies above the activation heights of two
\* versions of the software (RewindBlockIndex judges entries one by one), and
\* while that has not happened what CheckBlockIndex asserts holds, with the
\* exception that BlockTree makes between the steps of ActivateBestChain.
IndexSurvives ==
    /\ RestartTypeOK
    /\ \A b \in Stranded : AboveTwo(b)
    /\ phase = "up" => Stranded = {} /\ CheckBlockIndex

\* Once the activation that follows a start is over, the active chain again
\* has as much work as any chain the index knows to be complete and valid.
BestChainRestored == phase = "up" => BestChainActive

\* A node that has not pruned never stands on a block that its software
\* rejects, whatever software validated the chain before.
RulesOfSoftware ==
    phase = "up" /\ ~ havePruned => Path[tip] \cap (Rejected \ {Genesis}) = {}

\* Without pruning, which may keep it from undoing blocks of other rules, a
\* start disconnects blocks only if the active chain breaks the rules of the
\* software that starts: a crash alone never makes a validated chain look as
\* if other software had validated it.
NoNeedlessRewind ==
    [][phase = "rewind" /\ tip' # tip /\ phase' # "down" /\ ~ havePruned
          => Path[tip] \cap Rejected # {}]_allVars

\* setBlockIndexCandidates is ordered by nSequenceId, and the loop of
\* ReceivedBlockTransactions gives a new one to the block whose data came and,
\* round after round, to the blocks that wait for it in mapBlocksUnlinked.  A
\* member that gets a new one may be out of its place in the std::set.  So a
\* member does not wait, and has its data once the activation that follows a
\* start is over, but for the tip, which is not requested again; and a block that
\* waits twice, and would be linked again in the rounds after it has become a
\* member, was linked before and waits for an ancestor that was pruned.
KeysStable ==
    phase = "up" =>
        /\ Range(unlinked) \cap candidates = {}
        /\ Quiescent => \A b \in candidates \ {tip} : index[b].haveData
        /\ \A i, j \in DOMAIN unlinked :
              i # j /\ unlinked[i] = unlinked[j] => index[unlinked[i]].nChainTx

=============================================================================
