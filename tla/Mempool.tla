------------------------------ MODULE Mempool ------------------------------
(***************************************************************************)
(* The memory pool, the chain it follows and the orphan transactions.      *)
(* Peers' transactions enter through AcceptToMemoryPool; a block that      *)
(* connects takes out what it contains, what it conflicts with and what    *)
(* expires; a block that disconnects puts its transactions back, before    *)
(* the tip moves, and evicts what used its anchor; the end of the step     *)
(* removes what the new tip makes immature or commits to another branch.   *)
(* Everything happens under cs_main, but one step of ActivateBestChain     *)
(* moves the tip several times.                                            *)
(*                                                                         *)
(* A block is its coinbase and at most one other transaction; every        *)
(* transaction has one output, named like it, and costs MIN_TX_COST.  A    *)
(* root of the note commitment tree is the set of transactions with        *)
(* shielded outputs below it.                                              *)
(***************************************************************************)
EXTENDS WeightedTxTree, SequencesExt, FiniteSetsExt

CONSTANTS
    Coinbase,       \* a sequence: the coinbases of the blocks there can be
    Prevouts,       \* Prevouts[t]: the transactions whose outputs t spends
    Nullifiers,     \* Nullifiers[t]: the nullifiers t reveals
    Anchor,         \* Anchor[t]: the root its shielded spends refer to
    Shielded,       \* transactions with shielded outputs
    Expiry,         \* Expiry[t]: nExpiryHeight
    Branch,         \* Branch[t]: the consensus branch its signatures commit to
    TimeLocked,     \* transactions whose nLockTime a reorganisation can undo
    UpgradeHeight,  \* the height at which branch 1 replaces branch 0
    Maturity,       \* COINBASE_MATURITY
    ExpiringSoon,   \* TX_EXPIRING_SOON_THRESHOLD
    Capacity,       \* -mempooltxcostlimit, in units of MIN_TX_COST
    EvictionMemory, \* EVICTION_MEMORY_ENTRIES
    MaxOrphans,     \* -maxorphantx
    Peers,
    MaxHeight, MaxSteps,   \* bounds on the chain and on tip movements
    NoTx

ASSUME MempoolAssumption ==
    /\ Coinbase \in Seq(ToSet(Coinbase)) /\ IsInjective(Coinbase)
    /\ Prevouts \in [Tx -> SUBSET (Tx \cup ToSet(Coinbase))]
    /\ Anchor \in [Tx -> SUBSET Tx]
    /\ Expiry \in [Tx -> Nat] /\ Branch \in [Tx -> {0, 1}]
    /\ TimeLocked \subseteq Tx
    /\ {Maturity, ExpiringSoon, Capacity, MaxOrphans, MaxHeight, MaxSteps} \subseteq Nat
    /\ EvictionMemory \in Nat \ {0}
    /\ Len(Coinbase) > Maturity + MaxSteps /\ MaxHeight > Maturity
    /\ Tx \cap ToSet(Coinbase) = {}
    /\ NoTx \notin Tx \cup ToSet(Coinbase)

VARIABLES
    chain,        \* the active chain: a sequence of [cb, tx, root]
    mapTx,        \* transaction |-> the branch it was validated for
    mapNextTx,    \* output |-> the pool transaction that spends it
    poolNf,       \* nullifier |-> the pool transaction that reveals it
    tree,         \* weightedTxTree
    evicted,      \* recentlyEvicted, oldest first
    orphans,      \* mapOrphanTransactions: transaction |-> peer
    byPrev,       \* mapOrphanTransactionsByPrev, as <<previous, orphan>>
    busy,         \* what holds cs_main: [phase, old height], see below
    work,         \* the orphans to try, those to erase, misbehaving peers
    steps

Coinbases == ToSet(Coinbase)

poolVars == <<mapTx, mapNextTx, poolNf, tree>>
orphanVars == <<orphans, byPrev>>
vars == <<chain, poolVars, evicted, orphanVars, busy, work, steps>>

-----------------------------------------------------------------------------
(* The chain and its coins *)

Height == Len(chain)

MinedIn(ch) == {b.cb : b \in ToSet(ch)} \cup ({b.tx : b \in ToSet(ch)} \ {NoTx})

\* Outputs in the coins view that are not spent (pcoinsTip).
Unspent(ch) ==
    MinedIn(ch) \ UNION {Prevouts[t] : t \in MinedIn(ch) \cap Tx}

NullifierSet(ch) == UNION {Nullifiers[t] : t \in MinedIn(ch) \cap Tx}

Roots(ch) == {{}} \cup {b.root : b \in ToSet(ch)}

BestAnchor(ch) == IF ch = <<>> THEN {} ELSE ch[Len(ch)].root

\* The height of the block of which p is the coinbase.
CoinbaseHeight(ch, p) == CHOOSE h \in DOMAIN ch : ch[h].cb = p

Mature(ch, t, nSpendHeight) ==
    \A p \in Prevouts[t] \cap Coinbases \cap MinedIn(ch) :
        nSpendHeight - CoinbaseHeight(ch, p) >= Maturity

EpochAt(h) == IF h >= UpgradeHeight THEN 1 ELSE 0

IsExpiredTx(t, h) == Expiry[t] # 0 /\ h > Expiry[t]

\* The shielded requirements of t: known anchors, unspent nullifiers.
HaveShieldedRequirements(ch, t) ==
    /\ Nullifiers[t] # {} => Anchor[t] \in Roots(ch)
    /\ Nullifiers[t] \cap NullifierSet(ch) = {}

\* t may be in the block at height Len(ch) + 1.
ValidNext(ch, t) ==
    /\ t \notin MinedIn(ch)
    /\ Prevouts[t] \subseteq Unspent(ch)
    /\ Mature(ch, t, Len(ch) + 1)
    /\ HaveShieldedRequirements(ch, t)
    /\ ~IsExpiredTx(t, Len(ch) + 1)
    /\ Branch[t] = EpochAt(Len(ch) + 1)

-----------------------------------------------------------------------------
(* CTxMemPool.  The pool's structures are handled as one record [mapTx,    *)
(* next, nf, tree], since an operation changes all of them.                *)

Pool == [mapTx |-> mapTx, next |-> mapNextTx, nf |-> poolNf, tree |-> tree]

SetPool(p) ==
    /\ mapTx' = p.mapTx /\ mapNextTx' = p.next /\ poolNf' = p.nf
    /\ tree' = p.tree

In(p) == DOMAIN p.mapTx

addUnchecked(p, t, branch) ==
    [mapTx |-> [u \in In(p) \cup {t} |-> IF u = t THEN branch ELSE p.mapTx[u]],
     next |-> [o \in DOMAIN p.next \cup Prevouts[t] |->
                  IF o \in Prevouts[t] THEN t ELSE p.next[o]],
     nf |-> [n \in DOMAIN p.nf \cup Nullifiers[t] |->
                  IF n \in Nullifiers[t] THEN t ELSE p.nf[n]],
     tree |-> add(p.tree, t)]

\* The pool transactions that spend outputs of those in S, and so on.
Descendants(p, S) ==
    LET gen[k \in 0 .. Cardinality(In(p))] ==
            IF k = 0 THEN S
            ELSE gen[k - 1] \cup {p.next[o] : o \in gen[k - 1] \cap DOMAIN p.next}
    IN  gen[Cardinality(In(p))]

\* Takes the transactions S out of every structure of the pool.
Without(p, S) ==
    LET gone == S \cap In(p)
        outs == UNION {Prevouts[t] : t \in gone}
        nfs == UNION {Nullifiers[t] : t \in gone}
    IN  [mapTx |-> [u \in In(p) \ gone |-> p.mapTx[u]],
         next |-> [o \in DOMAIN p.next \ outs |-> p.next[o]],
         nf |-> [n \in DOMAIN p.nf \ nfs |-> p.nf[n]],
         tree |-> FoldSet(LAMBDA t, tr : remove(tr, t), p.tree, gone)]

\* remove(tx, removed, true) for each of S: with their descendants, also
\* when the transaction itself is not in the pool.
removeRecursive(p, S) == Without(p, Descendants(p, S))

\* The pool transactions that removeConflicts(tx) takes out.
Conflicting(p, t) ==
    ({p.next[o] : o \in Prevouts[t] \cap DOMAIN p.next}
        \cup {p.nf[n] : n \in Nullifiers[t] \cap DOMAIN p.nf}) \ {t}

\* removeForBlock: what the block contains, without its children, and what it
\* conflicts with, with their children.
removeForBlock(p, t) ==
    IF t = NoTx THEN p
    ELSE LET q == Without(p, {t}) IN removeRecursive(q, Conflicting(q, t))

removeExpired(p, h) == removeRecursive(p, {t \in In(p) : IsExpiredTx(t, h)})

\* Fault variant: the anchor that remains is taken for the one that went.
removeWithAnchor_New(p, before, after) ==
    IF before = after THEN p
    ELSE removeRecursive(p, {t \in In(p) : Nullifiers[t] # {} /\ Anchor[t] = after})

\* removeWithAnchor, when the root changed.
removeWithAnchor(p, before, after) ==
    IF before = after THEN p
    ELSE removeRecursive(p, {t \in In(p) : Nullifiers[t] # {} /\ Anchor[t] = before})

\* removeForReorg: what is no longer final, and of what spends a coinbase what
\* has an input neither in the pool nor in the coins, or immature.
removeForReorg(p, ch, nonFinal) ==
    removeRecursive(p, nonFinal \cup {t \in In(p) :
        /\ Prevouts[t] \cap Coinbases # {}
        /\ \E o \in Prevouts[t] \ In(p) :
              \/ o \notin Unspent(ch)
              \/ o \in Coinbases /\ Len(ch) + 1 - CoinbaseHeight(ch, o) < Maturity})

removeWithoutBranchId(p, ch) ==
    removeRecursive(p, {t \in In(p) : p.mapTx[t] # EpochAt(Len(ch) + 1)})

OverLimit(p) == Len(p.tree.ids) > Capacity

\* RecentlyEvictedList::add.
Remember(ev, t) == Append(IF Len(ev) = EvictionMemory THEN Tail(ev) ELSE ev, t)

\* EnsureSizeLimit: pairs of a pool within the limit and the list of evicted
\* transactions, for every draw of random weights.
EnsureSizeLimit(p, ev) ==
    LET drop(pe) ==
            {<<removeRecursive(pe[1], {t}), Remember(pe[2], t)>> :
                t \in {findByEvictionWeight(pe[1].tree, w) :
                          w \in 0 .. getTotalWeight(pe[1].tree) - 1}}
        run[k \in 0 .. Cardinality(Tx)] ==
            IF k = 0 THEN {<<p, ev>>}
            ELSE UNION {IF OverLimit(pe[1]) THEN drop(pe) ELSE {pe} : pe \in run[k - 1]}
    IN  run[Cardinality(Tx)]

\* Fault variant: only the latest eviction is looked up.
IsRecentlyEvicted_Latest(ev, t) == ev # <<>> /\ t = Last(ev)

IsRecentlyEvicted(ev, t) == t \in ToSet(ev)

\* Fault variant: nullifiers are not looked up.
ConflictsWithPool_Inputs(p, t) == Prevouts[t] \cap DOMAIN p.next # {}

\* An input or a nullifier of t is taken by a transaction of the pool.
ConflictsWithPool(p, t) ==
    Prevouts[t] \cap DOMAIN p.next # {} \/ Nullifiers[t] \cap DOMAIN p.nf # {}

\* AcceptToMemoryPool: the view is that of the coins of ch under the pool p,
\* the height that of the active chain, which in DisconnectTip has not moved.
\* Outcomes are "missing" (inputs), "rejected" and "ok": accepted, unless it is
\* refused for what is not modelled (not standard, not final, fee, rate limit).
Verdict(p, ev, ch, height, t) ==
    LET next == height + 1
        have(o) == o \in In(p) \/ o \in Unspent(ch)
    IN  CASE IsRecentlyEvicted(ev, t) -> "rejected"
          [] IsExpiredTx(t, next) \/ IsExpiredTx(t, next + ExpiringSoon) -> "rejected"
          [] t \in In(p) -> "rejected"
          [] ConflictsWithPool(p, t) -> "rejected"
          [] t \in Unspent(ch) -> "rejected"
          [] \E o \in Prevouts[t] : ~have(o) -> "missing"
          [] ~HaveShieldedRequirements(ch, t) -> "rejected"
          [] ~Mature(ch, t, Len(ch) + 1) -> "rejected"
          [] Branch[t] # EpochAt(next) -> "rejected"
          [] OTHER -> "ok"

\* The pools and lists of evicted transactions an acceptance can lead to.
Accepted(p, ev, height, t) ==
    EnsureSizeLimit(addUnchecked(p, t, EpochAt(height + 1)), ev)

-----------------------------------------------------------------------------
(* Steps.  busy.phase is "none", "back" (blocks were disconnected),         *)
(* "forward" (blocks were connected), "both", or "orphans".                 *)

Idle == [phase |-> "none", old |-> 0]
NoWork == [todo |-> <<>>, erase |-> {}, bad |-> {}]

\* A chain of n blocks with nothing but their coinbases.
CoinbaseChain(n) == [h \in 1 .. n |-> [cb |-> Coinbase[h], tx |-> NoTx, root |-> {}]]

Init ==
    /\ chain = CoinbaseChain(Maturity + 1)
    /\ mapTx = [t \in {} |-> 0] /\ mapNextTx = [o \in {} |-> NoTx]
    /\ poolNf = [n \in {} |-> NoTx] /\ tree = EmptyTree
    /\ evicted = <<>>
    /\ orphans = [t \in {} |-> 0] /\ byPrev = {}
    /\ busy = Idle /\ work = NoWork /\ steps = 0

\* chainActive.Height() while DisconnectTip resurrects: UpdateTip comes after.
HeightInDisconnect == Height

\* DisconnectTip: the block's transactions go back to the pool, or their
\* children leave it; what used the anchor that goes is evicted.
DisconnectTip ==
    LET b == chain[Height]
        ch == SubSeq(chain, 1, Height - 1)
        q == removeRecursive(Pool, {b.cb})
        refused == {<<removeRecursive(q, {b.tx}), evicted>>}
        back == IF b.tx = NoTx THEN {<<q, evicted>>}
                ELSE IF Verdict(q, evicted, ch, HeightInDisconnect, b.tx) = "ok"
                THEN Accepted(q, evicted, HeightInDisconnect, b.tx) \cup refused
                ELSE refused
    IN  /\ busy.phase \in {"none", "back"}
        /\ steps < MaxSteps /\ Height > 1
        /\ \E pe \in back :
              /\ SetPool(removeWithAnchor(pe[1], b.root, BestAnchor(ch)))
              /\ evicted' = pe[2]
        /\ chain' = ch
        /\ busy' = IF busy = Idle THEN [phase |-> "back", old |-> Height] ELSE busy
        /\ steps' = steps + 1
        /\ UNCHANGED <<orphanVars, work>>

\* ConnectTip of a block with t, whose coinbase has not been seen before.
ConnectTip(t) ==
    LET root == BestAnchor(chain) \cup ({t} \cap Shielded)
    IN  /\ busy.phase \in {"none", "back", "both"}
        /\ busy.phase = "both" => Height <= busy.old
        /\ steps < MaxSteps /\ Height < MaxHeight
        /\ t # NoTx => ValidNext(chain, t)
        /\ chain' = Append(chain, [cb |-> Coinbase[Maturity + 2 + steps], tx |-> t, root |-> root])
        /\ SetPool(removeExpired(removeForBlock(Pool, t), Height + 1))
        /\ busy' = IF busy = Idle THEN [phase |-> "forward", old |-> Height]
                   ELSE [busy EXCEPT !.phase = "both"]
        /\ steps' = steps + 1
        /\ UNCHANGED <<evicted, orphanVars, work>>

\* The end of ActivateBestChainStep or of InvalidateBlock.
EndStep ==
    /\ busy.phase \in {"back", "forward", "both"}
    /\ \/ /\ busy.phase = "forward"
          /\ SetPool(removeWithoutBranchId(Pool, chain))
       \/ /\ busy.phase # "forward"
          /\ \E nonFinal \in SUBSET (TimeLocked \cap DOMAIN mapTx) :
                SetPool(removeWithoutBranchId(removeForReorg(Pool, chain, nonFinal), chain))
    /\ busy' = Idle
    /\ UNCHANGED <<chain, evicted, orphanVars, work, steps>>

AlreadyHave(t) == t \in DOMAIN mapTx \cup DOMAIN orphans \cup Unspent(chain)

\* The orphans that wait for t, in an order that only their hashes decide.
OrphansOf(t) == SetToSeqs({e[2] : e \in {x \in byPrev : x[1] = t}})

\* mapOrphanTransactionsByPrev after EraseOrphanTx of those in gone.
IndexWithout(gone) == {e \in byPrev : e[2] \notin gone}

EraseOrphans(gone) ==
    /\ orphans' = [t \in DOMAIN orphans \ gone |-> orphans[t]]
    /\ byPrev' = IndexWithout(gone)

\* A "tx" message with a transaction that is accepted.
TxAccepted(t) ==
    /\ busy = Idle /\ ~AlreadyHave(t)
    /\ Verdict(Pool, evicted, chain, Height, t) = "ok"
    /\ \E pe \in Accepted(Pool, evicted, Height, t) :
          SetPool(pe[1]) /\ evicted' = pe[2]
    /\ \E todo \in OrphansOf(t) : work' = [NoWork EXCEPT !.todo = todo]
    /\ busy' = [phase |-> "orphans", old |-> Height]
    /\ UNCHANGED <<chain, orphanVars, steps>>

\* The next orphan that depends on an accepted transaction: accepted, with
\* those that depend on it to follow; still short of an input; or refused,
\* and then the peer it came from may have earned a DoS score.
TryOrphan ==
    LET o == Head(work.todo)
        verdict == Verdict(Pool, evicted, chain, Height, o)
        rest == Tail(work.todo)
    IN  /\ busy.phase = "orphans" /\ work.todo # <<>>
        /\ \/ /\ orphans[o] \in work.bad
              /\ work' = [work EXCEPT !.todo = rest] /\ UNCHANGED <<poolVars, evicted>>
           \/ /\ orphans[o] \notin work.bad /\ verdict = "ok"
              /\ \E pe \in Accepted(Pool, evicted, Height, o) :
                    SetPool(pe[1]) /\ evicted' = pe[2]
              /\ \E more \in OrphansOf(o) :
                    work' = [todo |-> rest \o more, erase |-> work.erase \cup {o},
                             bad |-> work.bad]
           \/ /\ orphans[o] \notin work.bad /\ verdict = "missing"
              /\ work' = [work EXCEPT !.todo = rest] /\ UNCHANGED <<poolVars, evicted>>
           \/ /\ orphans[o] \notin work.bad /\ verdict # "missing"
              /\ \E bad \in {{}, {orphans[o]}} :
                    work' = [todo |-> rest, erase |-> work.erase \cup {o},
                             bad |-> work.bad \cup bad]
              /\ UNCHANGED <<poolVars, evicted>>
        /\ UNCHANGED <<chain, orphanVars, busy, steps>>

\* The handler ends: vEraseQueue.
OrphansDone ==
    /\ busy.phase = "orphans" /\ work.todo = <<>>
    /\ EraseOrphans(work.erase)
    /\ busy' = Idle /\ work' = NoWork
    /\ UNCHANGED <<chain, poolVars, evicted, steps>>

\* The orphans and their index with one more.
AddOrphanTx(t, peer) ==
    [map |-> [o \in DOMAIN orphans \cup {t} |-> IF o = t THEN peer ELSE orphans[o]],
     prev |-> byPrev \cup {<<o, t>> : o \in Prevouts[t]}]

\* The choices of what stays, at random, when there are too many.
LimitOrphanTxSize(all) ==
    IF Cardinality(all) <= MaxOrphans THEN {all} ELSE kSubset(MaxOrphans, all)

\* A "tx" message whose inputs are missing.
TxOrphaned(t, peer) ==
    /\ busy = Idle /\ ~AlreadyHave(t)
    /\ Verdict(Pool, evicted, chain, Height, t) = "missing"
    /\ Nullifiers[t] = {} /\ t \notin Shielded
    /\ LET more == AddOrphanTx(t, peer)
       IN  \E kept \in LimitOrphanTxSize(DOMAIN more.map) :
              /\ orphans' = [o \in kept |-> more.map[o]]
              /\ byPrev' = {e \in more.prev : e[2] \in kept}
    /\ UNCHANGED <<chain, poolVars, evicted, busy, work, steps>>

\* A "tx" message that changes nothing here: the transaction is known, is in
\* recentRejects, is rejected, or misses inputs and is shielded or too large.
TxIgnored ==
    /\ busy = Idle
    /\ UNCHANGED vars

\* FinalizeNode: EraseOrphansFor a peer that disconnected.
EraseOrphansFor(peer) ==
    /\ busy = Idle
    /\ \E o \in DOMAIN orphans : orphans[o] = peer
    /\ EraseOrphans({o \in DOMAIN orphans : orphans[o] = peer})
    /\ UNCHANGED <<chain, poolVars, evicted, busy, work, steps>>

\* RecentlyEvictedList::pruneList: the oldest entry has been kept long enough.
PruneEvicted ==
    /\ evicted # <<>>
    /\ evicted' = Tail(evicted)
    /\ UNCHANGED <<chain, poolVars, orphanVars, busy, work, steps>>

Next ==
    \/ DisconnectTip
    \/ \E t \in Tx \cup {NoTx} : ConnectTip(t)
    \/ EndStep
    \/ \E t \in Tx : TxAccepted(t)
    \/ TryOrphan \/ OrphansDone
    \/ \E t \in Tx, peer \in Peers : TxOrphaned(t, peer)
    \/ TxIgnored
    \/ \E peer \in Peers : EraseOrphansFor(peer)
    \/ PruneEvicted

Spec == Init /\ [][Next]_vars

-----------------------------------------------------------------------------
(* Properties *)

\* The shape of the pool, the chain and the orphans.
TypeOK ==
    /\ Height \in 1 .. MaxHeight /\ steps \in 0 .. MaxSteps
    /\ DOMAIN mapTx \subseteq Tx /\ \A t \in DOMAIN mapTx : mapTx[t] \in {0, 1}
    /\ Len(evicted) <= EvictionMemory /\ ToSet(evicted) \subseteq Tx
    /\ DOMAIN orphans \subseteq Tx /\ \A t \in DOMAIN orphans : orphans[t] \in Peers
    /\ busy.phase \in {"none", "back", "forward", "both", "orphans"}
    /\ ToSet(work.todo) \cup work.erase \subseteq DOMAIN orphans

\* The pool never stays above its limit, not even within a reorganisation
\* (EnsureSizeLimit).
WithinLimit == Len(tree.ids) <= Capacity

\* mapOrphanTransactionsByPrev has exactly the entries of the orphans that are
\* kept, however they go: accepted, rejected, crowded out or with their peer.
OrphansIndexed ==
    /\ byPrev = UNION {Prevouts[o] \X {o} : o \in DOMAIN orphans}
    /\ Cardinality(DOMAIN orphans) <= MaxOrphans

\* Whatever enters and leaves, in whatever order, the pool's structures agree:
\* mapNextTx and the nullifier maps name exactly the inputs and nullifiers of
\* the transactions in mapTx, no two of which conflict, and the eviction tree
\* holds exactly those, once each (the asserts of CTxMemPool::check); pool and
\* orphans keep within their limits.
PoolConsistent ==
    LET pool == DOMAIN mapTx
    IN  /\ TypeOK /\ WithinLimit /\ OrphansIndexed
        /\ DOMAIN mapNextTx = UNION {Prevouts[t] : t \in pool}
        /\ DOMAIN poolNf = UNION {Nullifiers[t] : t \in pool}
        /\ \A t \in pool : /\ \A o \in Prevouts[t] : mapNextTx[o] = t
                           /\ \A n \in Nullifiers[t] : poolNf[n] = t
        /\ ToSet(tree.ids) = pool /\ IsInjective(tree.ids)

\* When cs_main is free every transaction in the pool passes, with its pool
\* ancestors, the tests of the next block: inputs in the pool or unspent and
\* mature, anchors known and nullifiers unspent, committed to the branch of
\* that block, and not expired there except when the tip's height is exactly
\* its expiry height (removeExpired runs for the tip's height and leaves it,
\* the miner passes it over); across blocks connected, reorganised and
\* invalidated.
PoolFitsTip ==
    busy = Idle =>
        \A t \in DOMAIN mapTx :
            /\ Prevouts[t] \subseteq DOMAIN mapTx \cup Unspent(chain)
            /\ Mature(chain, t, Height + 1)
            /\ HaveShieldedRequirements(chain, t)
            /\ IsExpiredTx(t, Height + 1) => Expiry[t] = Height
            /\ mapTx[t] = EpochAt(Height + 1) /\ Branch[t] = mapTx[t]

\* The draw is by weight: of the total weight exactly Weight[t] values select
\* t, after any sequence of additions and removals (WeightedTxTree).
DrawByWeight ==
    \A t \in DOMAIN mapTx :
        Cardinality({w \in 0 .. getTotalWeight(tree) - 1 :
                        findByEvictionWeight(tree, w) = t}) = Weight[t]

\* What was evicted stays out while the list remembers it, and the list holds
\* no transaction twice (so txIdSet, erased by the first, agrees with it).
EvictedStaysOut ==
    /\ ToSet(evicted) \cap DOMAIN mapTx = {}
    /\ IsInjective(evicted)
=============================================================================
