----------------------------- MODULE CoinsCache -----------------------------
(***************************************************************************)
(* The chain state's stack of views as a state machine: any client that    *)
(* follows the rules of CCoinsViewCache (src/src/coins.h) may call any     *)
(* operation in any order.  The machine implements LayeredView.            *)
(*                                                                         *)
(* The rules a client must follow are guards here, and CoinsChain shows    *)
(* that ConnectBlock and DisconnectBlock follow them:                      *)
(*   - ModifyNewCoins is called only for a transaction the parent view     *)
(*     has no unspent outputs of ("We rely on Zcash-derived block chains   *)
(*     having no duplicate transactions");                                 *)
(*   - a view is flushed only after every best hash the parent caches has  *)
(*     been read or set in it, because BatchWrite copies null hashes too;  *)
(*   - pcoinsTip is flushed only while no view is open on it.              *)
(* All of this runs under cs_main, so nothing interleaves with an open     *)
(* view.                                                                   *)
(***************************************************************************)
EXTENDS CoinsLayers

CONSTANTS Txids,       \* transaction ids
          Nullifiers,  \* nullifiers of either shielded pool
          Pools,       \* SPROUT and SAPLING
          Roots,       \* note commitment tree roots
          EmptyRoot,   \* the root of the empty tree
          Blocks       \* block hashes

Anchors == Pools \X Roots
BestBlock == "best block"

ASSUME HashAssumption == /\ None \notin Roots \cup Blocks
                         /\ EmptyRoot \in Roots
                         /\ BestBlock \notin Pools

VARIABLES coins,   \* cacheCoins and DB_COINS, by txid
          marks,   \* nullifier and anchor maps, by key
          hashes,  \* hashBlock, hashSproutAnchor, hashSaplingAnchor
          open     \* whether a view is open on pcoinsTip

vars == <<coins, marks, hashes, open>>

MarkKeys == Nullifiers \cup Anchors
HashKeys == Pools \cup {BestBlock}
Hashes(k) == IF k = BestBlock THEN Blocks ELSE Roots

HashCells(k) == [db : Hashes(k), tip : Hashes(k) \cup {None},
                 view : Hashes(k) \cup {None}]

\* Type invariant of the three layers; the database never holds a null hash.
TypeOK ==
    /\ coins \in [Txids -> CoinCells]
    /\ marks \in [MarkKeys -> MarkCells]
    /\ DOMAIN hashes = HashKeys /\ \A k \in HashKeys : hashes[k] \in HashCells(k)
    /\ open \in BOOLEAN

\* An empty database: the anchor of the empty tree is always there.
Init ==
    /\ coins = [t \in Txids |-> [db |-> Cleared, tip |-> None, view |-> None]]
    /\ marks = [k \in MarkKeys |->
                   [db |-> \E p \in Pools : k = <<p, EmptyRoot>>,
                    tip |-> None, view |-> None]]
    /\ \E b \in Blocks :
          hashes = [k \in HashKeys |->
                       [db |-> IF k = BestBlock THEN b ELSE EmptyRoot,
                        tip |-> None, view |-> None]]
    /\ open = FALSE

-----------------------------------------------------------------------------
\* CCoinsViewCache view(pcoinsTip).
OpenView == ~ open /\ open' = TRUE /\ UNCHANGED <<coins, marks, hashes>>

\* GetCoins, AccessCoins and HaveCoins of the view, of which HaveInputs and
\* the duplicate check of ConnectBlock are made.
AccessCoins(t) ==
    /\ open
    /\ coins' = [coins EXCEPT ![t] = FetchCoins(@)]
    /\ UNCHANGED <<marks, hashes, open>>

\* The same of pcoinsTip, for the mempool, the miner and the RPCs.
AccessTipCoins(t) ==
    /\ ~ open
    /\ coins' = [coins EXCEPT ![t] = TipFetchCoins(@)]
    /\ UNCHANGED <<marks, hashes, open>>

\* A CCoinsModifier from ModifyCoins, during its whole life.
ModifyCoin(t, new) ==
    /\ open
    /\ coins' = [coins EXCEPT ![t] = Modified(@, new)]
    /\ UNCHANGED <<marks, hashes, open>>

\* A CCoinsModifier from ModifyNewCoins, during its whole life.
ModifyNewCoin(t, new) ==
    /\ open
    /\ IsPruned(TipCoins(coins[t]))
    /\ coins' = [coins EXCEPT ![t] = ModifiedNew(@, new)]
    /\ UNCHANGED <<marks, hashes, open>>

AccessNullifier(n) ==
    /\ open
    /\ marks' = [marks EXCEPT ![n] = GetNullifier(@)]
    /\ UNCHANGED <<coins, hashes, open>>

AccessAnchor(a) ==
    /\ open
    /\ marks' = [marks EXCEPT ![a] = GetAnchorAt(@)]
    /\ UNCHANGED <<coins, hashes, open>>

SetNullifier(n, spent) ==
    /\ open
    /\ marks' = [marks EXCEPT ![n] = SetMark(@, spent)]
    /\ UNCHANGED <<coins, hashes, open>>

\* AbstractPushAnchor: nothing but the best hash is read if the root is old.
PushAnchor(p, newrt) ==
    /\ open
    /\ IF ViewHash(hashes[p]) = newrt
       THEN /\ hashes' = [hashes EXCEPT ![p] = GetHash(@)]
            /\ UNCHANGED marks
       ELSE /\ hashes' = [hashes EXCEPT ![p] = SetHash(GetHash(@), newrt)]
            /\ marks' = [marks EXCEPT ![<<p, newrt>>] = SetMark(@, TRUE)]
    /\ UNCHANGED <<coins, open>>

\* AbstractPopAnchor; BringBestAnchorIntoCache asserts that the current root
\* is an anchor.  The root popped to is an earlier one, so that of the empty tree
\* is never left.
PopAnchor(p, newrt) ==
    LET cur == ViewHash(hashes[p])
    IN /\ open
       /\ IF cur = newrt
          THEN /\ hashes' = [hashes EXCEPT ![p] = GetHash(@)]
               /\ UNCHANGED marks
          ELSE /\ cur # EmptyRoot
               /\ ViewHas(marks[<<p, cur>>])
               /\ hashes' = [hashes EXCEPT ![p] = SetHash(GetHash(@), newrt)]
               /\ marks' = [marks EXCEPT ![<<p, cur>>] =
                               SetMark(GetAnchorAt(@), FALSE)]
       /\ UNCHANGED <<coins, open>>

\* GetBestBlock and GetBestAnchor.
AccessHash(k) ==
    /\ open
    /\ hashes' = [hashes EXCEPT ![k] = GetHash(@)]
    /\ UNCHANGED <<coins, marks, open>>

SetBestBlock(b) ==
    /\ open
    /\ hashes' = [hashes EXCEPT ![BestBlock] = SetHash(@, b)]
    /\ UNCHANGED <<coins, marks, open>>

\* Every best hash that pcoinsTip caches is known to the view.
HashesLoaded == \A k \in HashKeys : hashes[k].tip # None => hashes[k].view # None

\* Flush of the view, which is then destroyed.
FlushView ==
    /\ open
    /\ HashesLoaded
    /\ coins' = [t \in Txids |-> BatchWriteCoins(coins[t])]
    /\ marks' = [k \in MarkKeys |-> BatchWriteMark(marks[k])]
    /\ hashes' = [k \in HashKeys |-> BatchWriteHash(hashes[k])]
    /\ open' = FALSE

\* The view is destroyed without a flush: the block was invalid, or the view
\* was the mempool's or the miner's.
DiscardView ==
    /\ open
    /\ coins' = [t \in Txids |-> DropView(coins[t])]
    /\ marks' = [k \in MarkKeys |-> DropView(marks[k])]
    /\ hashes' = [k \in HashKeys |-> DropView(hashes[k])]
    /\ open' = FALSE

\* pcoinsTip->Flush() in FlushStateToDisk: one atomic batch of the database.
FlushTip ==
    /\ ~ open
    /\ coins' = [t \in Txids |-> DbWriteCoins(coins[t])]
    /\ marks' = [k \in MarkKeys |-> DbWriteMark(marks[k])]
    /\ hashes' = [k \in HashKeys |-> DbWriteHash(hashes[k])]
    /\ UNCHANGED open

\* The process dies at any time and starts again with empty caches.
Crash ==
    /\ coins' = [t \in Txids |-> DropCaches(coins[t])]
    /\ marks' = [k \in MarkKeys |-> DropCaches(marks[k])]
    /\ hashes' = [k \in HashKeys |-> DropCaches(hashes[k])]
    /\ open' = FALSE

-----------------------------------------------------------------------------
Next ==
    \/ OpenView \/ FlushView \/ DiscardView \/ FlushTip \/ Crash
    \/ \E t \in Txids :
          \/ AccessCoins(t) \/ AccessTipCoins(t)
          \/ \E new \in Coins : ModifyCoin(t, new) \/ ModifyNewCoin(t, new)
    \/ \E n \in Nullifiers :
          AccessNullifier(n) \/ \E spent \in BOOLEAN : SetNullifier(n, spent)
    \/ \E a \in Anchors : AccessAnchor(a)
    \/ \E p \in Pools, rt \in Roots : PushAnchor(p, rt) \/ PopAnchor(p, rt)
    \/ \E k \in HashKeys : AccessHash(k)
    \/ \E b \in Blocks : SetBestBlock(b)

Spec == Init /\ [][Next]_vars

-----------------------------------------------------------------------------
(***************************************************************************)
(* Properties.                                                             *)
(***************************************************************************)

\* Meaning of the flags of a CCoinsCacheEntry (coins.h): an entry that is not
\* DIRTY equals what the parent shows, and the parent shows nothing, or a
\* pruned coin, where an entry is FRESH.  Also the assertion of BatchWrite: a
\* dirty entry that pcoinsTip does not know is fresh.
FlagsSound ==
    \A t \in Txids :
        LET c == coins[t]
        IN /\ c.tip # None => /\ c.tip.fresh => IsPruned(c.db)
                              /\ ~ c.tip.dirty => Canonical(c.tip.coins) = c.db
           /\ c.view # None => /\ c.view.fresh => IsPruned(TipCoins(c))
                               /\ ~ c.view.dirty => ViewCoins(c) = TipCoins(c)
                               /\ c.view.dirty /\ c.tip = None => c.view.fresh

\* The chain state as one map, the kinds of keys told apart by a tag.
Coin(t) == <<"coin", t>>
MarkKey(k) == <<"mark", k>>
HashKey(k) == <<"hash", k>>

StateKeys == {Coin(t) : t \in Txids} \cup {MarkKey(k) : k \in MarkKeys}
                \cup {HashKey(k) : k \in HashKeys}

\* The state with f, m and h of each cell.
Combined(f(_), m(_), h(_)) ==
    [k \in StateKeys |-> IF k[1] = "coin" THEN f(coins[k[2]])
                         ELSE IF k[1] = "mark" THEN m(marks[k[2]]) ELSE h(hashes[k[2]])]

\* What one call may write: one value, or an anchor and the best anchor.
CoinUpdates == UNION {[{Coin(t)} -> Coins] : t \in Txids}
MarkUpdates == UNION {[{MarkKey(k)} -> BOOLEAN] : k \in MarkKeys}
HashUpdates == UNION {[{HashKey(k)} -> Hashes(k)] : k \in HashKeys}
AnchorUpdate(p, rt, entered, best) ==
    [k \in {MarkKey(<<p, rt>>), HashKey(p)} |-> IF k[1] = "mark" THEN entered ELSE best]
AnchorUpdates == {AnchorUpdate(p, rt, entered, best) :
                     p \in Pools, rt \in Roots, entered \in BOOLEAN, best \in Roots}
StateUpdates == CoinUpdates \cup MarkUpdates \cup HashUpdates \cup AnchorUpdates

InDb(c) == c.db

StateView == INSTANCE LayeredView WITH
    Keys <- StateKeys,
    Updates <- StateUpdates,
    durable <- Combined(InDb, InDb, InDb),
    committed <- Combined(TipCoins, TipHas, TipHash),
    working <- Combined(ViewCoins, ViewHas, ViewHash)

\* The three views behave as a three-version map: no sequence of cached reads
\* (which remember negative answers too), CCoinsModifiers, pushed and popped
\* anchors, flushes (which copy null hashes), discarded views and crashes shows
\* in what a look-up returns, and a flush or a crash takes effect on coins,
\* nullifiers, anchors and best hashes alike.
StateRefined == StateView!Spec

=============================================================================
