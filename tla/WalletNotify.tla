---------------------------- MODULE WalletNotify ----------------------------
(***************************************************************************)
(* The wallet behind the chain.  Message processing moves the chain tip    *)
(* under cs_main; the "txnotify" thread wakes once a second, compares the  *)
(* tip with the last one it notified, takes a snapshot under cs_main and   *)
(* then, without that lock, replays the blocks between them to the wallet: *)
(* disconnects from its last tip down to the fork, connects from the fork  *)
(* up, and last the transactions that entered the mempool.  The wallet     *)
(* keeps for every note of its own a list of witnesses, one for each of    *)
(* the last WITNESS_CACHE_SIZE blocks.  Here a crash is followed by a start *)
(* with -rescan; module WalletRestart adds wallet.dat and the start from    *)
(* what it holds.                                                          *)
(*                                                                         *)
(* A note's witness is the IncrementalWitness of module NoteTree; one tree *)
(* stands for those of Sprout and Sapling, which are handled alike.  A     *)
(* transaction of the wallet has one note, and its commitment bears the    *)
(* transaction's name.  A note's nullifier is told by its position.        *)
(***************************************************************************)
EXTENDS NoteTree, Functions

CONSTANTS
    Blocks, Genesis, Parent,  \* the block tree: Parent[b] for b # Genesis
    Txs,                      \* transactions with a note of this wallet
    Commitments,              \* Commitments[b]: those in block b, in order
    Conflicts,                \* Conflicts[b]: those that block b double-spends
    MaxReorg,                 \* MAX_REORG_LENGTH
    MaxMoves, MaxCrashes      \* bounds on tip movements and on crashes

WITNESS_CACHE_SIZE == MaxReorg + 1

ASSUME TreeAssumption ==
    /\ Genesis \in Blocks
    /\ Parent \in [Blocks \ {Genesis} -> Blocks]
    /\ DOMAIN Commitments = Blocks
    /\ Conflicts \in [Blocks -> SUBSET Txs]
    /\ MaxReorg \in Nat \ {0}

VARIABLES
    tip,         \* chainActive.Tip()
    invalid,     \* blocks failed by invalidateblock
    pool,        \* wallet transactions in the mempool
    added,       \* mapRecentlyAddedTx
    conf,        \* recentlyConflictedTxs: block |-> conflicted transactions
    lastTip,     \* pindexLastTip of the notifier
    batch,       \* what the notifier collected in this cycle
    pc,          \* where the notifier is
    wallet,      \* mapWallet: transaction |-> its note and its block
    nfMap,       \* mapSaplingNullifiersToNotes: <<transaction, position>>
    cacheSize,   \* nWitnessCacheSize
    dbTip,       \* best block of the chain state database
    moves, crashes

chainVars == <<tip, invalid, pool, added, conf, moves>>
walletVars == <<wallet, nfMap, cacheSize>>
notifier == <<lastTip, batch, pc>>
durable == <<dbTip, crashes>>
vars == <<chainVars, walletVars, notifier, durable>>

-----------------------------------------------------------------------------
(* The block tree *)

\* The blocks from genesis to b.
Path[b \in Blocks] ==
    IF b = Genesis THEN <<b>> ELSE Append(Path[Parent[b]], b)

Height(b) == Len(Path[b]) - 1

OnPath(a, b) == Height(a) <= Height(b) /\ Path[b][Height(a) + 1] = a

\* CChain::FindFork: the last common block of a chain and a block.
FindFork(b, c) ==
    CHOOSE f \in Blocks :
        /\ OnPath(f, b) /\ OnPath(f, c)
        /\ \A g \in Blocks : OnPath(g, b) /\ OnPath(g, c) => Height(g) <= Height(f)

\* The blocks above f up to b, in order.
Above(f, b) == SubSeq(Path[b], Height(f) + 2, Height(b) + 1)

\* The transactions of the wallet in a block.
TxsIn == [b \in Blocks |-> Txs \cap ToSet(Commitments[b])]

\* All commitments up to block b, and the tree that has absorbed them, which
\* the chain state keeps by its root.
CommitmentsTo ==
    [b \in Blocks |-> FlattenSeq([k \in DOMAIN Path[b] |-> Commitments[Path[b][k]]])]

TreeAfter ==
    [b \in Blocks |-> FoldLeft(LAMBDA tree, cm : append(tree, Leaf(cm)), EmptyTree,
                               CommitmentsTo[b])]

TxsUpTo(b) == UNION {TxsIn[c] : c \in {x \in Blocks : OnPath(x, b)}}

\* The block of b's chain that contains t, if there is one.
BlockOf(t, b) == CHOOSE c \in Blocks : OnPath(c, b) /\ t \in TxsIn[c]

-----------------------------------------------------------------------------
(* The wallet: a note is [height, wit, nf, block]. *)

NewNote(b) == [height |-> -1, wit |-> <<>>, nf |-> None, block |-> b]

\* Fault variant: the merge drops the block a transaction was found in.
SyncTransaction_KeepsBlock(w, S, b) ==
    [t \in DOMAIN w \cup S |->
        IF t \notin S THEN w[t]
        ELSE IF t \notin DOMAIN w THEN NewNote(b)
        ELSE [w[t] EXCEPT !.nf = None]]

\* SyncTransaction for the transactions S of the wallet, found in block b or,
\* with b = None, not in a block.  A known transaction keeps its witnesses
\* (UpdatedNoteData) but takes the incoming note data, whose nullifier is
\* not set; its block only changes to another block.
SyncTransaction(w, S, b) ==
    [t \in DOMAIN w \cup S |->
        IF t \notin S THEN w[t]
        ELSE IF t \notin DOMAIN w THEN NewNote(b)
        ELSE [w[t] EXCEPT !.nf = None, !.block = IF b = None THEN @ ELSE b]]

\* Fault variant: the witnesses of the block before are extended in place.
CopyPreviousWitnesses_InPlace(wit) == wit

\* CopyPreviousWitnesses: what a block adds goes to a copy of the front witness.
CopyPreviousWitnesses(wit) ==
    IF wit = <<>> THEN wit
    ELSE LET longer == <<wit[1]>> \o wit
         IN  SubSeq(longer, 1, IF Len(longer) > WITNESS_CACHE_SIZE
                               THEN WITNESS_CACHE_SIZE ELSE Len(longer))

\* AppendNoteCommitment: the front witness takes the commitment.
AppendNoteCommitment(note, cm, h) ==
    IF note.height >= h \/ note.wit = <<>> THEN note
    ELSE [note EXCEPT !.wit[1] = WitnessAppend(@, Leaf(cm))]

\* WitnessNoteIfMine: its height lets the rest of the block reach the witness.
WitnessNoteIfMine(note, tree, h) ==
    IF note.height >= h THEN note
    ELSE [note EXCEPT !.wit = <<witness(tree)>>, !.height = h - 1]

\* IncrementNoteWitnesses, from the tree at the start of the block, for the note
\* with commitment mine; no note's witnesses depend on another note.
IncrementNote(note, mine, b) ==
    LET h == Height(b)
        Commit(s, cm) ==
            LET tree == append(s.tree, Leaf(cm))
                appended == AppendNoteCommitment(s.note, cm, h)
            IN  [tree |-> tree,
                 note |-> IF cm = mine THEN WitnessNoteIfMine(appended, tree, h)
                          ELSE appended]
        start == [tree |-> IF b = Genesis THEN EmptyTree ELSE TreeAfter[Parent[b]],
                  note |-> IF note.height >= h THEN note
                           ELSE [note EXCEPT !.wit = CopyPreviousWitnesses(@)]]
        done == FoldLeft(Commit, start, Commitments[b]).note
    IN  IF done.height >= h THEN done ELSE [done EXCEPT !.height = h]

IncrementNoteWitnesses(w, b) == [t \in DOMAIN w |-> IncrementNote(w[t], t, b)]

IncrementedSize(n) == IF n < WITNESS_CACHE_SIZE THEN n + 1 ELSE n

\* The assertions on the way.
IncrementAsserts(w, n, b) ==
    LET after == IncrementNoteWitnesses(w, b)
    IN  \A t \in DOMAIN w : w[t].height < Height(b) =>
            /\ n >= Len(w[t].wit)
            /\ w[t].height \in {-1, Height(b) - 1}
            /\ IncrementedSize(n) >= Len(after[t].wit)

DecrementNoteWitnesses(w, b) ==
    [t \in DOMAIN w |->
        IF w[t].height > Height(b) THEN w[t]
        ELSE [w[t] EXCEPT !.height = Height(b) - 1,
                          !.wit = IF @ = <<>> THEN @ ELSE Tail(@)]]

DecrementAsserts(w, n, b) ==
    /\ \A t \in DOMAIN w : w[t].height <= Height(b) =>
            /\ n >= Len(w[t].wit)
            /\ w[t].height \in {-1, Height(b)}
            /\ n - 1 >= Len(DecrementNoteWitnesses(w, b)[t].wit)
    /\ n - 1 > 0

\* UpdateSaplingNullifierNoteMapForBlock: the nullifier follows from the
\* position of the front witness; without a witness it is removed.
UpdateNullifiers(w, b) ==
    [t \in DOMAIN w |->
        IF t \notin TxsIn[b] THEN w[t]
        ELSE [w[t] EXCEPT !.nf = IF w[t].wit = <<>> THEN None
                                 ELSE position(w[t].wit[1])]]

UpdateNullifierMap(m, w, b) ==
    LET mine == TxsIn[b] \cap DOMAIN w
    IN  (m \ {<<t, w[t].nf>> : t \in {u \in mine : w[u].wit = <<>>}})
            \cup {<<t, position(w[t].wit[1])>> : t \in {u \in mine : w[u].wit # <<>>}}

-----------------------------------------------------------------------------
(* The chain, under cs_main *)

NoBatch == [fork |-> Genesis, stack |-> <<>>, txs |-> {}, scan |-> FALSE]

Init ==
    /\ tip = Genesis /\ invalid = {} /\ moves = 0
    /\ pool = {} /\ added = {}
    /\ conf = [b \in {} |-> {}]
    /\ lastTip = Genesis /\ batch = NoBatch /\ pc = "sleep"
    /\ wallet = [t \in {} |-> NewNote(None)]
    /\ nfMap = {} /\ cacheSize = 0
    /\ dbTip = Genesis /\ crashes = 0

\* What the mempool removes as spent twice when the blocks of s connect.
ConflictedBy(b, p) == p \cap Conflicts[b]

\* Fault variant: only the new tip gets an entry.
NewConflicts_TipOnly(s, p) ==
    [b \in {c \in ToSet(s) : c = s[Len(s)]} |-> ConflictedBy(b, p)]

\* ConnectTip stores, for each block it connects, what it conflicted.
NewConflicts(s, p) == [b \in ToSet(s) |-> ConflictedBy(b, p)]

\* The choices of transactions of disconnected blocks that AcceptToMemoryPool
\* takes back.
Resurrected(f) == SUBSET (TxsUpTo(tip) \ TxsUpTo(f))

\* Fault variant: a transaction that a block confirms stays in the map.
RecentlyAdded_KeepsMined(back, gone) == added \cup (back \ pool)

\* mapRecentlyAddedTx: addUnchecked inserts, CTxMemPool::remove erases.
RecentlyAdded(back, gone) == (added \cup (back \ pool)) \ gone

\* The tip moves to b in one hold of cs_main.
SetTip(b) ==
    LET f == FindFork(tip, b)
        s == Above(f, b)
    IN  \E back \in Resurrected(f) :
            LET before == pool \cup back
                gone == UNION {TxsIn[c] \cup Conflicts[c] : c \in ToSet(s)}
                new == NewConflicts(s, before)
            IN  /\ tip' = b
                /\ pool' = before \ gone
                /\ added' = RecentlyAdded(back, gone)
                \* std::map::insert keeps an entry that is there already
                /\ conf' = [c \in DOMAIN conf \cup DOMAIN new |->
                               IF c \in DOMAIN conf THEN conf[c] ELSE new[c]]
                /\ moves' = moves + 1

\* The process runs, and no scan at start-up holds cs_main and cs_wallet.
Unlocked == pc # "aborted" /\ ~batch.scan

\* ActivateBestChainStep: to a branch with more work, within the reorg limit.
ActivateBestChainStep(b) ==
    /\ Unlocked /\ moves < MaxMoves
    /\ Height(b) > Height(tip)
    /\ \A c \in invalid : ~OnPath(c, b)
    /\ Height(tip) - Height(FindFork(tip, b)) <= MaxReorg
    /\ SetTip(b)
    /\ UNCHANGED <<invalid, walletVars, notifier, durable>>

\* InvalidateBlock: disconnects the block and what is above it.
InvalidateBlock(b) ==
    /\ Unlocked /\ moves < MaxMoves
    /\ b # Genesis /\ OnPath(b, tip)
    /\ invalid' = invalid \cup {b}
    /\ SetTip(Parent[b])
    /\ UNCHANGED <<walletVars, notifier, durable>>

\* AcceptToMemoryPool of a transaction of this wallet.
AddToMempool(t) ==
    /\ Unlocked
    /\ t \notin pool \cup TxsUpTo(tip)
    /\ \A b \in Blocks : OnPath(b, tip) => t \notin Conflicts[b]
    /\ pool' = pool \cup {t}
    /\ added' = added \cup {t}
    /\ UNCHANGED <<tip, invalid, conf, moves, walletVars, notifier, durable>>

-----------------------------------------------------------------------------
(* The notifier thread *)

Abort == pc' = "aborted" /\ UNCHANGED <<walletVars, lastTip, batch>>

\* The snapshot, under cs_main.  recentlyConflicted.at(pindex) throws when a
\* block on the way to the tip has no entry, which ends the thread.
Collect ==
    LET f == FindFork(tip, lastTip)
        s == Above(f, tip)
    IN  /\ pc = "sleep"
        /\ conf' = [b \in {} |-> {}]
        /\ added' = {}
        /\ IF ToSet(s) \subseteq DOMAIN conf
           THEN /\ batch' = [fork |-> f, txs |-> added, scan |-> FALSE,
                             stack |-> [i \in DOMAIN s |->
                                          [block |-> s[i], conf |-> conf[s[i]]]]]
                /\ pc' = "disconnect"
           ELSE pc' = "aborted" /\ UNCHANGED batch
        /\ UNCHANGED <<tip, invalid, pool, moves, walletVars, lastTip, durable>>

\* A block below the last tip: its transactions are no longer in a block, ...
SyncDisconnected ==
    /\ pc = "disconnect" /\ lastTip # batch.fork
    /\ wallet' = SyncTransaction(wallet, TxsIn[lastTip], None)
    /\ pc' = "decrement"
    /\ UNCHANGED <<chainVars, nfMap, cacheSize, lastTip, batch, durable>>

\* ... ChainTip(pindex, pblock, none) removes its witnesses ...
Decrement ==
    /\ pc = "decrement"
    /\ IF DecrementAsserts(wallet, cacheSize, lastTip)
       THEN /\ wallet' = DecrementNoteWitnesses(wallet, lastTip)
            /\ cacheSize' = cacheSize - 1
            /\ pc' = "forget"
            /\ UNCHANGED <<nfMap, lastTip, batch>>
       ELSE Abort
    /\ UNCHANGED <<chainVars, durable>>

\* ... and its nullifiers; on to the block below.
Forget ==
    /\ pc = "forget"
    /\ wallet' = UpdateNullifiers(wallet, lastTip)
    /\ nfMap' = UpdateNullifierMap(nfMap, wallet, lastTip)
    /\ lastTip' = Parent[lastTip]
    /\ pc' = "disconnect"
    /\ UNCHANGED <<chainVars, cacheSize, batch, durable>>

\* Fault variant: one block is connected and the thread goes no further.
ConnectPhase_Once == pc = "disconnect" /\ lastTip = batch.fork

ConnectPhase ==
    \/ pc = "disconnect" /\ lastTip = batch.fork
    \/ pc = "connect"

\* At the fork: the transactions that the next block conflicted out of the
\* mempool, then those it contains, ...
SyncConnected ==
    /\ ConnectPhase
    /\ batch.stack # <<>>
    /\ LET d == Head(batch.stack)
           w == SyncTransaction(wallet, d.conf, None)
       IN  wallet' = SyncTransaction(w, TxsIn[d.block], d.block)
    /\ pc' = "increment"
    /\ UNCHANGED <<chainVars, nfMap, cacheSize, lastTip, batch, durable>>

\* ... ChainTip(pindex, pblock, oldTrees) extends the witnesses ...
Increment ==
    LET b == Head(batch.stack).block
    IN  /\ pc = "increment"
        /\ IF IncrementAsserts(wallet, cacheSize, b)
           THEN /\ wallet' = IncrementNoteWitnesses(wallet, b)
                /\ cacheSize' = IncrementedSize(cacheSize)
                /\ pc' = "learn"
                /\ UNCHANGED <<nfMap, lastTip, batch>>
           ELSE Abort
        /\ UNCHANGED <<chainVars, durable>>

\* ... and computes the nullifiers; on to the next block.
Learn ==
    LET b == Head(batch.stack).block
    IN  /\ pc = "learn"
        /\ wallet' = UpdateNullifiers(wallet, b)
        /\ nfMap' = UpdateNullifierMap(nfMap, wallet, b)
        /\ lastTip' = b
        /\ batch' = [batch EXCEPT !.stack = Tail(@)]
        /\ pc' = "connect"
        /\ UNCHANGED <<chainVars, cacheSize, durable>>

\* Last, the transactions that entered the mempool; then the thread sleeps.
SyncMempool ==
    /\ ConnectPhase
    /\ batch.stack = <<>>
    /\ wallet' = SyncTransaction(wallet, batch.txs, None)
    /\ batch' = NoBatch
    /\ pc' = "sleep"
    /\ UNCHANGED <<chainVars, nfMap, cacheSize, lastTip, durable>>

-----------------------------------------------------------------------------
(* Disk, crash and restart *)

\* FlushStateToDisk writes the chain state.
FlushChainState ==
    /\ Unlocked /\ dbTip' = tip /\ dbTip # tip
    /\ UNCHANGED <<chainVars, walletVars, notifier, crashes>>

\* A restart begins on the chain state that is on disk, with nothing in memory.
ChainRestarts ==
    /\ crashes < MaxCrashes
    /\ crashes' = crashes + 1
    /\ tip' = dbTip /\ lastTip' = dbTip
    /\ pool' = {} /\ added' = {} /\ conf' = [b \in {} |-> {}]
    /\ invalid' = {b \in invalid : ~OnPath(b, dbTip)}
    /\ UNCHANGED <<moves, dbTip>>

\* ClearNoteWitnessCache.
ClearNoteWitnessCache(w) ==
    [t \in DOMAIN w |-> [w[t] EXCEPT !.height = -1, !.wit = <<>>]]

\* mapSaplingNullifiersToNotes as LoadWallet fills it.
LoadedNullifiers(w) ==
    {<<t, w[t].nf>> : t \in {u \in DOMAIN w : w[u].nf # None}}

\* A start scans from f up to the tip, unless that is f: each block goes to the
\* wallet as the notifier brings it (SyncConnected, Increment, Learn), while
\* ScanForWalletTransactions holds cs_main and cs_wallet to the end.
ScanForWalletTransactions(f) ==
    LET s == <<f>> \o Above(f, dbTip)
    IN  IF f = dbTip THEN batch' = NoBatch /\ pc' = "sleep"
        ELSE /\ batch' = [NoBatch EXCEPT !.scan = TRUE,
                             !.stack = [i \in DOMAIN s |-> [block |-> s[i], conf |-> {}]]]
             /\ pc' = "connect"

\* The process dies and is started with -rescan.  The scan rebuilds the
\* witnesses, so of wallet.dat only the transactions in it matter: any of them.
RestartWithRescan ==
    /\ ChainRestarts
    /\ \E kept \in SUBSET DOMAIN wallet :
          /\ wallet' = ClearNoteWitnessCache(Restrict(wallet, kept))
          /\ nfMap' = LoadedNullifiers(wallet')
    /\ cacheSize' = 0
    /\ ScanForWalletTransactions(Genesis)

-----------------------------------------------------------------------------
Notify ==
    \/ Collect
    \/ SyncDisconnected \/ Decrement \/ Forget
    \/ SyncConnected \/ Increment \/ Learn
    \/ SyncMempool

Next ==
    \/ \E b \in Blocks : ActivateBestChainStep(b) \/ InvalidateBlock(b)
    \/ \E t \in Txs : AddToMempool(t)
    \/ Notify
    \/ FlushChainState
    \/ RestartWithRescan

Spec == Init /\ [][Next]_vars

Steps == {"sleep", "disconnect", "decrement", "forget", "connect", "increment",
          "learn", "aborted"}

\* One of the steps of Notify can be taken; each of them changes pc.
CanGoOn ==
    \/ pc \in {"sleep", "decrement", "forget", "increment", "learn"}
    \/ pc = "disconnect" /\ lastTip # batch.fork
    \/ ConnectPhase

\* The notifier goes on.  Apart from Notify only the restarts, which are
\* bounded, change pc, so this is weak fairness of Notify.
GoesOn == CanGoOn /\ pc' \in Steps /\ pc' # pc

\* The notifier is a thread of its own that sleeps at most a second.
FairSpec == Spec /\ WF_pc(GoesOn)

-----------------------------------------------------------------------------
(* Properties *)

IsNote(note) ==
    /\ note.height \in Int /\ note.nf \in Nat \cup {None}
    /\ note.block \in Blocks \cup {None}
    /\ \A k \in DOMAIN note.wit : /\ note.wit[k].cursor_depth \in 0 .. Depth - 1
                                  /\ Len(note.wit[k].filled) <= Depth

\* The shape of the state of chain, notifier and wallet.
TypeOK ==
    /\ {tip, lastTip, dbTip, batch.fork} \cup invalid \subseteq Blocks
    /\ added \subseteq pool /\ pool \subseteq Txs
    /\ DOMAIN conf \subseteq Blocks
    /\ \A b \in DOMAIN conf : conf[b] \subseteq Txs
    /\ batch.stack \in Seq([block : Blocks, conf : SUBSET Txs])
    /\ batch.txs \subseteq Txs /\ batch.scan \in BOOLEAN
    /\ pc \in Steps
    /\ DOMAIN wallet \subseteq Txs /\ \A t \in DOMAIN wallet : IsNote(wallet[t])
    /\ nfMap \subseteq Txs \X Nat
    /\ cacheSize \in 0 .. WITNESS_CACHE_SIZE
    /\ moves \in 0 .. MaxMoves /\ crashes \in 0 .. MaxCrashes

\* Between the notification of one block and of the next, when any thread can
\* find the wallet at rest.
BetweenBlocks == pc \in {"sleep", "disconnect", "connect"} /\ ~batch.scan

\* The place of t's note among the commitments up to b.
PositionOf(t, b) == CHOOSE k \in 0..(Len(CommitmentsTo[b]) - 1) : CommitmentsTo[b][k + 1] = t

\* Whatever reorganisations happen while the notifier is behind: between two
\* block notifications a wallet note that is in the notified chain has
\* witnesses, the front one for the notified tip, the next ones for the blocks
\* right below it, and the path of each leads from the note's commitment to
\* the root of the commitment tree at that block; and a note that is in no
\* notified block has none (IncrementNoteWitnesses, DecrementNoteWitnesses,
\* IncrementalWitness::append and path).
WitnessesFollowChain ==
    BetweenBlocks =>
        \A t \in DOMAIN wallet :
            IF t \in TxsUpTo(lastTip)
            THEN /\ wallet[t].wit # <<>>
                 /\ wallet[t].height = Height(lastTip)
                 /\ \A k \in DOMAIN wallet[t].wit :
                        Witnesses(wallet[t].wit[k],
                                  CommitmentsTo[Path[lastTip][Height(lastTip) + 2 - k]],
                                  PositionOf(t, lastTip))
            ELSE wallet[t].wit = <<>>

\* The wallet knows every transaction of its own in the notified chain, and the
\* block that holds it, so its balance is the one of that chain
\* (AddToWalletIfInvolvingMe, and the rescan at start-up).
WalletComplete ==
    BetweenBlocks =>
        \A t \in TxsUpTo(lastTip) :
            t \in DOMAIN wallet /\ wallet[t].block = BlockOf(t, lastTip)

\* The nullifier of every note in the notified chain is cached and mapped to
\* it, so the spend of a note is recognised: no notification of another kind
\* that comes later (mempool, conflict) takes it away (UpdatedNoteData,
\* UpdateSaplingNullifierNoteMapWithTx).
SpendsRecognised ==
    BetweenBlocks =>
        \A t \in DOMAIN wallet \cap TxsUpTo(lastTip) :
            /\ wallet[t].nf = PositionOf(t, lastTip)
            /\ <<t, wallet[t].nf>> \in nfMap

\* recentlyConflicted has what it is asked for: whenever the notifier may look,
\* every block between its fork and the tip has been connected since it last
\* looked and has its entry (ConnectTip, DrainRecentlyConflicted).
ConflictsKept ==
    pc = "sleep" => ToSet(Above(FindFork(tip, lastTip), tip)) \subseteq DOMAIN conf

\* One assertion alone can end the notifier, the one that the witness cache is
\* not used up by disconnects (the TODO of #1302): recentlyConflicted.at(pindex)
\* never throws, heights always fit and no note has more witnesses than
\* nWitnessCacheSize.
OnlyExhaustionAborts ==
    /\ TypeOK
    /\ ConflictsKept
    /\ pc = "aborted" => ~batch.scan /\ cacheSize <= 1 /\ lastTip # batch.fork

\* Once the chain stays where it is the notifier reaches its tip, unless the
\* process has been aborted.
CatchesUp == <>[](lastTip = tip \/ pc = "aborted")
=============================================================================
