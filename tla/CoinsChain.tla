----------------------------- MODULE CoinsChain -----------------------------
(***************************************************************************)
(* ConnectBlock and DisconnectBlock (src/src/main.cpp) on the chain        *)
(* state's stack of views: blocks are connected and disconnected in views  *)
(* on pcoinsTip, with undo data written when a block is connected for the  *)
(* first time; pcoinsTip is flushed now and then; the process may crash.   *)
(*                                                                         *)
(* The claim is that what the views show is always the state that replaying *)
(* the active chain gives.  cs_main makes each handler atomic.             *)
(*                                                                         *)
(* Scripts, proofs, amounts, coinbase maturity, header commitments and the *)
(* shielded value pools only make ConnectBlock reject more blocks: any     *)
(* block may be rejected here.  A look-up that the code skips after a      *)
(* failed one is made here; it can only cache one more clean entry.  A     *)
(* note commitment tree is the sequence of the transactions that appended  *)
(* to it, and is its own root; one tree and one nullifier set stand for    *)
(* those of Sprout and Sapling, which are handled alike and independently; *)
(* a block's hash is the path of blocks that ends with it.                 *)
(***************************************************************************)
EXTENDS HistoryLayers, FiniteSets

CONSTANTS Txids,      \* transaction ids
          Inputs,     \* Inputs[tx]: sequence of <<txid, position>>
          Outputs,    \* Outputs[tx]: set of positions
          Spends,     \* Spends[tx]: set of nullifiers it reveals
          AnchorOf,   \* AnchorOf[tx]: anchor its proofs refer to, or None
          Appends,    \* transactions with note commitments
          Blocks,     \* Blocks[h]: the blocks of height h that miners offer
          EpochOf,    \* EpochOf[h]: the epoch of height h, None before Heartwood
          LookedUp    \* bound: transactions the mempool or an RPC asks for

Heights == 1..MaxHeight
Epochs == {EpochOf[h] : h \in Heights} \ {None}
Nullifiers == UNION {Spends[t] : t \in Txids}
Roots == {r \in UNION {[1..n -> Appends] : n \in 0..Cardinality(Appends)} :
             IsInjective(r)}
EmptyRoot == << >>
Coinbases == {block[1] : block \in UNION {Blocks[h] : h \in Heights}}

\* Blocks and transactions are those that pass CheckBlock, CheckTransaction and
\* ContextualCheckBlock: the first transaction of a block and no other is a
\* coinbase, which spends nothing and differs from those of other heights; any
\* other spends something, and no output twice.  Keys of different maps, and
\* null, differ.
ASSUME CoinsChainAssumption ==
    /\ DOMAIN Blocks = Heights
    /\ \A h \in Heights : \A b \in Blocks[h] :
          /\ b \in Seq(Txids) /\ b # << >>
          /\ \A i \in 2..Len(b) : b[i] \notin Coinbases
          /\ \A g \in Heights \ {h} : \A c \in Blocks[g] : c[1] # b[1]
    /\ \A t \in Txids :
          /\ Inputs[t] \in Seq(Txids \X Outs)
          /\ \A i, j \in DOMAIN Inputs[t] : Inputs[t][i] = Inputs[t][j] => i = j
          /\ Outputs[t] \subseteq Outs
          /\ (t \in Coinbases) <=> (Inputs[t] = << >> /\ Spends[t] = {})
    /\ LookedUp \subseteq Txids
    /\ Appends \subseteq Txids /\ IsFiniteSet(Appends)
    /\ Nullifiers \cap Seq(Txids) = {}
    /\ None \notin Seq(Seq(Txids))
    /\ None \notin Seq(Txids)

VARIABLES coins,    \* the coin maps of the three layers, by txid
          marks,    \* the nullifier and anchor maps, by key
          hash,     \* the best block and the best anchor
          history,  \* the history trees, by epoch
          chain,    \* the active chain, without genesis
          dbChain,  \* the active chain when pcoinsTip was last flushed
          undo,     \* undo data of the blocks with BLOCK_HAVE_UNDO, by block
          dbUndo,   \* the same in the block index database
          fault,    \* an assertion failed, or a block was disconnected unclean
          misfit    \* an assertion of BatchWriteHistory failed

vars == <<coins, marks, hash, history, chain, dbChain, undo, dbUndo, fault, misfit>>

Init ==
    /\ coins = [t \in Txids |-> [db |-> Cleared, tip |-> None, view |-> None]]
    /\ marks = [k \in Nullifiers \cup Roots |->
                   [db |-> k = EmptyRoot, tip |-> None, view |-> None]]
    /\ hash = [k \in {"block", "anchor"} |->
                  [db |-> << >>, tip |-> None, view |-> None]]
    /\ history = [e \in Epochs |-> EmptyHistory]
    /\ chain = << >>
    /\ dbChain = << >>
    /\ undo = << >>
    /\ dbUndo = << >>
    /\ fault = FALSE
    /\ misfit = FALSE

(***************************************************************************)
(* A handler works on a record of the views' cells, with `valid` for a     *)
(* return of false and `bad` for a failed assertion or unclean result.     *)
(***************************************************************************)
Opened == [coins |-> coins, marks |-> marks, hash |-> hash, history |-> history,
           undo |-> << >>, tree |-> << >>, valid |-> TRUE, bad |-> FALSE]

\* AccessCoins for each of a set of transactions.
FetchAll(s, txids) ==
    [s EXCEPT !.coins = [t \in Txids |-> IF t \in txids THEN FetchCoins(@[t])
                                         ELSE @[t]]]

Prevs(tx) == {Inputs[tx][j][1] : j \in DOMAIN Inputs[tx]}

-----------------------------------------------------------------------------
(***************************************************************************)
(* Connecting.                                                             *)
(***************************************************************************)

\* No block overwrites a transaction that has unspent outputs.
CheckDuplicates(s, block) ==
    LET r == FetchAll(s, Range(block))
    IN [r EXCEPT !.valid = @ /\ \A t \in Range(block) :
                                   IsPruned(ViewCoins(r.coins[t]))]

\* Fault variant: an output that was created and spent is taken as available.
HaveInputs_Lax(s, tx) ==
    LET r == FetchAll(s, Prevs(tx))
    IN [r EXCEPT !.valid = @ /\ \A p \in Prevs(tx) : r.coins[p].view # None]

HaveInputs(s, tx) ==
    LET r == FetchAll(s, Prevs(tx))
    IN [r EXCEPT !.valid = @ /\ \A j \in DOMAIN Inputs[tx] :
           Inputs[tx][j][2] \in ViewCoins(r.coins[Inputs[tx][j][1]]).outs]

HaveShieldedRequirements(s, tx) ==
    [s EXCEPT
        !.marks = [k \in DOMAIN @ |->
                      IF k \in Spends[tx] THEN GetNullifier(@[k])
                      ELSE IF k = AnchorOf[tx] THEN GetAnchorAt(@[k]) ELSE @[k]],
        !.valid = /\ @
                  /\ \A n \in Spends[tx] : ~ ViewHas(s.marks[n])
                  /\ AnchorOf[tx] # None => ViewHas(s.marks[AnchorOf[tx]])]

\* Fault variant: the undo record never carries the height.
SpendInput_NoHeight(s, in) ==
    LET cur == ModifyCoins(s.coins[in[1]]).view.coins
        new == [cur EXCEPT !.outs = @ \ {in[2]}]
    IN [s EXCEPT !.coins[in[1]] = Modified(@, new),
                 !.undo = Append(@, 0),
                 !.bad = @ \/ in[2] \notin cur.outs]

\* One iteration of the loop in UpdateCoins: spend an output, and remember the
\* height of its transaction if that was the last one.
SpendInput(s, in) ==
    LET cur == ModifyCoins(s.coins[in[1]]).view.coins
        new == [cur EXCEPT !.outs = @ \ {in[2]}]
    IN [s EXCEPT !.coins[in[1]] = Modified(@, new),
                 !.undo = Append(@, IF IsPruned(new) THEN cur.nHeight ELSE 0),
                 !.bad = @ \/ in[2] \notin cur.outs]

SetNullifiers(s, tx, spent) ==
    [s EXCEPT !.marks = [k \in DOMAIN @ |-> IF k \in Spends[tx]
                                            THEN SetMark(@[k], spent) ELSE @[k]]]

\* The states of the loop: after none, one, ..., all of the inputs.
Spending(s, tx) ==
    LET after[j \in 0..Len(Inputs[tx])] ==
            IF j = 0 THEN [s EXCEPT !.undo = << >>]
            ELSE SpendInput(after[j - 1], Inputs[tx][j])
    IN after

\* UpdateCoins; the undo record of a transaction is the heights of its inputs.
UpdateCoins(s, tx, height) ==
    LET spent == Spending(s, tx)[Len(Inputs[tx])]
        r == SetNullifiers(spent, tx, TRUE)
    IN [r EXCEPT
           !.coins[tx] = ModifiedNew(@, [outs |-> Outputs[tx], nHeight |-> height]),
           !.undo = Append(s.undo, spent.undo)]

\* One transaction of ConnectBlock's main loop, which a failed one ends.
ConnectTx(s, tx, height) ==
    LET checked == IF ~ s.valid \/ tx \in Coinbases THEN s
                   ELSE HaveShieldedRequirements(HaveInputs(s, tx), tx)
        updated == UpdateCoins(checked, tx, height)
    IN IF ~ checked.valid THEN checked
       ELSE [updated EXCEPT
                !.tree = IF tx \in Appends THEN Append(@, tx) ELSE @]

PushAnchor(s) ==
    IF ViewHash(s.hash["anchor"]) = s.tree THEN s
    ELSE [s EXCEPT !.hash["anchor"] = SetHash(@, s.tree),
                   !.marks[s.tree] = SetMark(@, TRUE)]

\* The start of ConnectBlock: the view must be at the parent, and the tree of
\* the best anchor must be there.
BeginConnect ==
    LET s == [Opened EXCEPT !.hash = [k \in DOMAIN @ |-> GetHash(@[k])]]
        best == ViewHash(s.hash["anchor"])
    IN [s EXCEPT !.marks[best] = GetAnchorAt(@),
                 !.tree = best,
                 !.bad = ViewHash(s.hash["block"]) # chain \/ ~ ViewHas(s.marks[best])]

\* The root for the block's header is asked of the parent's epoch; the block
\* becomes a leaf of the tree of its own epoch.
PushHistory(s, path) ==
    LET e == EpochOf[Len(path)]
        prev == IF Len(path) = 1 THEN None ELSE EpochOf[Len(path) - 1]
        Asked(x, k) == IF k = prev THEN SelectHistoryCache(x) ELSE x
    IN [s EXCEPT !.history = [k \in Epochs |->
           IF k = e THEN PushHistoryNode(Asked(@[k], k), path) ELSE Asked(@[k], k)]]

\* The states of the main loop.
Connecting(block) ==
    LET after[i \in 0..Len(block)] ==
            IF i = 0 THEN CheckDuplicates(BeginConnect, block)
            ELSE ConnectTx(after[i - 1], block[i], Len(chain) + 1)
    IN after

ConnectBlock(block) ==
    LET path == Append(chain, block)
        r == Connecting(block)[Len(block)]
    IN IF ~ r.valid THEN r
       ELSE [PushHistory(PushAnchor(r), path) EXCEPT
                !.hash["block"] = SetHash(@, path)]

-----------------------------------------------------------------------------
(***************************************************************************)
(* Disconnecting.                                                          *)
(***************************************************************************)

\* ApplyTxInUndo.
ApplyTxInUndo(s, in, undoHeight) ==
    LET cur == ModifyCoins(s.coins[in[1]]).view.coins
        base == IF undoHeight # 0 THEN [outs |-> {}, nHeight |-> undoHeight] ELSE cur
    IN [s EXCEPT
           !.coins[in[1]] = Modified(@, [base EXCEPT !.outs = @ \cup {in[2]}]),
           !.bad = \/ @
                   \/ (undoHeight # 0) # IsPruned(cur)
                   \/ in[2] \in base.outs]

\* The states of the loop that restores the inputs, the last one first.
Restoring(s, tx, txundo) ==
    LET n == Len(Inputs[tx])
        after[k \in 0..n] ==
            IF k = 0 THEN s
            ELSE ApplyTxInUndo(after[k - 1], Inputs[tx][n + 1 - k], txundo[n + 1 - k])
    IN after

\* One transaction of DisconnectBlock's loop.
DisconnectTx(s, tx, txundo, height) ==
    LET outs == ModifyCoins(s.coins[tx]).view.coins
        outsBlock == [outs |-> Outputs[tx], nHeight |-> height]
        r == SetNullifiers([s EXCEPT !.coins[tx] = Modified(@, Cleared)], tx, FALSE)
    IN [Restoring(r, tx, txundo)[Len(Inputs[tx])] EXCEPT
           !.bad = @ \/ Canonical(outs) # Canonical(outsBlock)]

PopAnchor(s, newrt) ==
    LET cur == ViewHash(s.hash["anchor"])
        loaded == [s EXCEPT !.hash["anchor"] = GetHash(@)]
    IN IF cur = newrt THEN loaded
       ELSE [loaded EXCEPT !.hash["anchor"] = SetHash(@, newrt),
                           !.marks[cur] = SetMark(GetAnchorAt(@), FALSE),
                           !.bad = @ \/ ~ ViewHas(s.marks[cur])]

\* The start of DisconnectBlock.
BeginDisconnect == [Opened EXCEPT !.hash["block"] = GetHash(@),
                                  !.bad = ViewHash(hash["block"]) # chain]

\* The states of DisconnectBlock's loop, the last transaction first.
Disconnecting ==
    LET block == Last(chain)
        n == Len(block)
        txs == undo[chain].txs
        after[k \in 0..n] ==
            IF k = 0 THEN BeginDisconnect
            ELSE DisconnectTx(after[k - 1], block[n + 1 - k], txs[n + 1 - k],
                              Len(chain))
    IN after

\* The old Sprout root is taken from the undo data; for the Sapling root the code
\* has pprev->hashFinalSaplingRoot, the empty root before Sapling, which is the
\* same root and is not kept apart here.
DisconnectBlock ==
    LET r == Disconnecting[Len(Last(chain))]
    IN [PopAnchor(r, undo[chain].root) EXCEPT
           !.history = [e \in Epochs |-> IF e = EpochOf[Len(chain)]
                                         THEN PopHistoryNode(@[e]) ELSE @[e]],
           !.hash["block"] = SetHash(@, Front(chain))]

-----------------------------------------------------------------------------
(***************************************************************************)
(* The handlers, each from opening its view to flushing or dropping it.    *)
(***************************************************************************)

\* What CCoinsViewCache::BatchWrite asserts of each coin it receives.
BatchWriteAsserts(s) ==
    \A t \in Txids :
        LET c == s.coins[t]
        IN c.view # None /\ c.view.dirty /\ c.tip = None /\ ~ IsPruned(c.view.coins)
              => c.view.fresh

\* What BatchWriteHistory asserts.
LengthsMatch(h) == h.view # None => BatchWriteHistory(h).tip.length = h.view.length

Flushed(s) ==
    /\ coins' = [t \in Txids |-> BatchWriteCoins(s.coins[t])]
    /\ marks' = [k \in DOMAIN marks |-> BatchWriteMark(s.marks[k])]
    /\ hash' = [k \in DOMAIN hash |-> BatchWriteHash(s.hash[k])]
    /\ history' = [e \in Epochs |-> BatchWriteHistory(s.history[e])]
    /\ fault' = (fault \/ s.bad \/ ~ BatchWriteAsserts(s))
    /\ misfit' = (misfit \/ \E e \in Epochs : ~ LengthsMatch(s.history[e]))

Dropped(s) ==
    /\ coins' = [t \in Txids |-> DropView(s.coins[t])]
    /\ marks' = [k \in DOMAIN marks |-> DropView(s.marks[k])]
    /\ hash' = [k \in DOMAIN hash |-> DropView(s.hash[k])]
    /\ history' = [e \in Epochs |-> DropView(s.history[e])]
    /\ fault' = (fault \/ s.bad)
    /\ UNCHANGED misfit

\* ConnectTip with a valid block: the undo data is written the first time only.
ConnectTip(block) ==
    LET s == ConnectBlock(block)
        path == Append(chain, block)
        data == [txs |-> s.undo, root |-> ViewHash(BeginConnect.hash["anchor"])]
    IN /\ s.valid
       /\ Flushed(s)
       /\ chain' = path
       /\ undo' = IF path \in DOMAIN undo THEN undo
                  ELSE [p \in DOMAIN undo \cup {path} |->
                           IF p = path THEN data ELSE undo[p]]
       /\ UNCHANGED <<dbChain, dbUndo>>

\* ConnectTip with an invalid block, TestBlockValidity (fJustCheck), or a block
\* that fails the checks this model leaves out: the view is dropped.
RejectBlock(block) ==
    /\ Dropped(ConnectBlock(block))
    /\ UNCHANGED <<chain, dbChain, undo, dbUndo>>

\* DisconnectTip.
DisconnectTip ==
    /\ chain # << >>
    /\ Flushed(DisconnectBlock)
    /\ chain' = Front(chain)
    /\ UNCHANGED <<dbChain, undo, dbUndo>>

\* FlushStateToDisk when only the block index is due, or the process dies
\* before the chain state is written.
WriteBlockIndex ==
    /\ dbUndo' = undo
    /\ UNCHANGED <<coins, marks, hash, history, chain, dbChain, undo, fault, misfit>>

\* Fault variant: the chain state is written without the block index.
FlushStateToDisk_CoinsOnly ==
    /\ coins' = [t \in Txids |-> DbWriteCoins(coins[t])]
    /\ marks' = [k \in DOMAIN marks |-> DbWriteMark(marks[k])]
    /\ hash' = [k \in DOMAIN hash |-> DbWriteHash(hash[k])]
    /\ history' = [e \in Epochs |-> DbWriteHistory(history[e])]
    /\ dbChain' = chain
    /\ UNCHANGED <<chain, undo, dbUndo, fault, misfit>>

\* FlushStateToDisk in full: block and undo files, block index, chain state.
\* Handlers call it last, and it writes if the cache is large or the time has
\* come; as an action of its own it may follow any handler.
FlushStateToDisk ==
    /\ coins' = [t \in Txids |-> DbWriteCoins(coins[t])]
    /\ marks' = [k \in DOMAIN marks |-> DbWriteMark(marks[k])]
    /\ hash' = [k \in DOMAIN hash |-> DbWriteHash(hash[k])]
    /\ history' = [e \in Epochs |-> DbWriteHistory(history[e])]
    /\ dbChain' = chain
    /\ dbUndo' = undo
    /\ UNCHANGED <<chain, undo, fault, misfit>>

\* The process dies; at start-up the tip is the database's best block.
Crash ==
    /\ coins' = [t \in Txids |-> DropCaches(coins[t])]
    /\ marks' = [k \in DOMAIN marks |-> DropCaches(marks[k])]
    /\ hash' = [k \in DOMAIN hash |-> DropCaches(hash[k])]
    /\ history' = [e \in Epochs |-> DropCaches(history[e])]
    /\ chain' = hash["block"].db
    /\ undo' = dbUndo
    /\ UNCHANGED <<dbChain, dbUndo, fault, misfit>>

\* The mempool or an RPC looks a coin up in pcoinsTip.
AccessTipCoins(t) ==
    /\ coins' = [coins EXCEPT ![t] = TipFetchCoins(@)]
    /\ UNCHANGED <<marks, hash, history, chain, dbChain, undo, dbUndo, fault, misfit>>

Next ==
    \/ /\ Len(chain) < MaxHeight
       /\ \E block \in Blocks[Len(chain) + 1] :
             ConnectTip(block) \/ RejectBlock(block)
    \/ DisconnectTip
    \/ WriteBlockIndex
    \/ FlushStateToDisk
    \/ Crash
    \/ \E t \in LookedUp : AccessTipCoins(t)

Spec == Init /\ [][Next]_vars

-----------------------------------------------------------------------------
(***************************************************************************)
(* The chain state that a chain stands for, computed from its blocks.      *)
(***************************************************************************)
TxsOf(ch) == UNION {Range(ch[h]) : h \in DOMAIN ch}

\* The outputs that the transactions of T spend, and the nullifiers they reveal.
SpentBy(T) == UNION {Range(Inputs[u]) : u \in T}
RevealedBy(T) == UNION {Spends[u] : u \in T}

HeightIn(ch, t) == CHOOSE h \in {h \in DOMAIN ch : t \in Range(ch[h])} : TRUE

\* What is left of t, which has height h, when the outputs in X are spent.
Unspent(t, X) == {n \in Outputs[t] : <<t, n>> \notin X}
CoinsLeft(t, X, h) == Canonical([outs |-> Unspent(t, X), nHeight |-> h])

UtxoOf(ch, t) ==
    IF t \in TxsOf(ch) THEN CoinsLeft(t, SpentBy(TxsOf(ch)), HeightIn(ch, t))
    ELSE Cleared

\* The tree after each transaction of a block, and after each block of a chain.
TreesIn(root, block) ==
    LET after[i \in 0..Len(block)] ==
            IF i = 0 THEN root
            ELSE IF block[i] \in Appends THEN Append(after[i - 1], block[i])
            ELSE after[i - 1]
    IN after

RootsAt(ch) ==
    LET after[h \in 0..Len(ch)] ==
            IF h = 0 THEN EmptyRoot ELSE TreesIn(after[h - 1], ch[h])[Len(ch[h])]
    IN after

RootOf(ch) == RootsAt(ch)[Len(ch)]
RootsOf(ch) == {RootsAt(ch)[h] : h \in 0..Len(ch)}

MarkOf(ch, k) ==
    IF k \in Nullifiers THEN k \in RevealedBy(TxsOf(ch)) ELSE k \in RootsOf(ch)

\* The leaves of an epoch's history tree, and whether a layer holds the tree.
LeavesOf(ch, e) ==
    LET in == SelectSeq([h \in DOMAIN ch |-> h], LAMBDA h : EpochOf[h] = e)
    IN [k \in DOMAIN in |-> SubSeq(ch, 1, in[k])]

IsTreeOf(length, root, Node(_, _), e, ch) ==
    LET leaves == LeavesOf(ch, e)
        array == ArrayOf(leaves)
    IN /\ length = Len(array)
       /\ root = IF leaves = << >> THEN None ELSE leaves
       /\ \A i \in DOMAIN array : Node(history[e], i - 1) = array[i]

(***************************************************************************)
(* Properties.                                                             *)
(***************************************************************************)

Closed(cells) == {c \in cells : c.view = None}

\* The type of the state.  Between two handlers no view is open on pcoinsTip.
TypeOK ==
    /\ coins \in [Txids -> Closed(CoinCells)]
    /\ marks \in [Nullifiers \cup Roots -> Closed(MarkCells)]
    /\ DOMAIN hash = {"block", "anchor"}
    /\ hash["block"].view = None
    /\ hash["anchor"].view = None
    /\ fault \in BOOLEAN

\* pcoinsTip shows the unspent outputs, nullifiers, anchors and best hashes of
\* the active chain.
TipIsReplay ==
    /\ \A t \in Txids : TipCoins(coins[t]) = UtxoOf(chain, t)
    /\ \A k \in DOMAIN marks : TipHas(marks[k]) = MarkOf(chain, k)
    /\ TipHash(hash["block"]) = chain
    /\ TipHash(hash["anchor"]) = RootOf(chain)

\* The database holds those of the chain active at the last flush.
DbIsReplay ==
    /\ \A t \in Txids : coins[t].db = UtxoOf(dbChain, t)
    /\ \A k \in DOMAIN marks : marks[k].db = MarkOf(dbChain, k)
    /\ hash["block"].db = dbChain
    /\ hash["anchor"].db = RootOf(dbChain)

\* Every block of the active chain can be disconnected, and every block of the
\* chain in the database can be after a crash: its undo data is referred to by
\* the block index that was written with, or before, the chain state.
UndoAvailable ==
    /\ \A h \in 1..Len(chain) : SubSeq(chain, 1, h) \in DOMAIN undo
    /\ \A h \in 1..Len(dbChain) : SubSeq(dbChain, 1, h) \in DOMAIN dbUndo

\* Whatever was connected, disconnected, rejected, cached, flushed or lost
\* before: pcoinsTip shows what replaying the active chain gives, and the
\* database what replaying one chain gives, with the undo data of its blocks
\* (ConnectBlock, DisconnectBlock, FlushStateToDisk and the caches of coins.cpp);
\* partial updates never become durable.
ChainStateIsReplay == TypeOK /\ TipIsReplay /\ DbIsReplay /\ UndoAvailable

\* The same for the history trees of every epoch (PushHistoryNode,
\* PopHistoryNode): length, root and nodes are those of the chain, in pcoinsTip
\* and in the database, and no assertion of BatchWriteHistory fails.
HistoryIsReplay ==
    /\ ~ misfit
    /\ DOMAIN history = Epochs
    /\ \A e \in Epochs :
          /\ history[e].view = None
          /\ IsTreeOf(TipLength(history[e]), TipRoot(history[e]), TipNode, e, chain)
          /\ IsTreeOf(history[e].db.length, history[e].db.root, DbNode, e, dbChain)

\* No output is spent twice and no nullifier revealed twice on the chain, and
\* every spent output was created in it.
NoDoubleSpend ==
    /\ \A t, u \in TxsOf(chain) : t # u =>
          /\ Range(Inputs[t]) \cap Range(Inputs[u]) = {}
          /\ Spends[t] \cap Spends[u] = {}
    /\ \A t \in TxsOf(chain) : Prevs(t) \subseteq TxsOf(chain)

\* No assertion of UpdateCoins, ConnectBlock, PopAnchor or BatchWrite fails,
\* and DisconnectBlock, which uses the undo data of the first connection,
\* never finds the view inconsistent with the block.
NeverUnclean == ~ fault

=============================================================================
