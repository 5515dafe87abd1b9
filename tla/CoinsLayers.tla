---------------------------- MODULE CoinsLayers ----------------------------
(***************************************************************************)
(* The per-key operations of the chain state's views: CCoinsViewDB         *)
(* (src/src/txdb.cpp), the CCoinsViewCache pcoinsTip on top of it, and a   *)
(* CCoinsViewCache that ConnectTip or DisconnectTip opens on pcoinsTip     *)
(* (src/src/coins.cpp).                                                    *)
(*                                                                         *)
(* Every operation but a flush looks at one key, and a flush treats each   *)
(* key by itself, so the three maps are kept by key: a cell holds what the *)
(* database, pcoinsTip and the view store for one key.                     *)
(***************************************************************************)
EXTENDS Integers

CONSTANTS Outs,       \* output positions of a transaction
          MaxHeight,  \* bound: largest block height
          None        \* no entry in a cache map; a null hash

(***************************************************************************)
(* Transparent coins.  CCoins keeps the outputs that are unspent and the   *)
(* height of the transaction; fully spent objects are pruned, and all      *)
(* pruned objects are equal.                                               *)
(***************************************************************************)
Coins == [outs : SUBSET Outs, nHeight : 0..MaxHeight]

Cleared == [outs |-> {}, nHeight |-> 0]

IsPruned(coins) == coins.outs = {}

\* CCoins::operator== : which object stands for an equivalence class.
Canonical(coins) == IF IsPruned(coins) THEN Cleared ELSE coins

Entry(coins, dirty, fresh) == [coins |-> coins, dirty |-> dirty, fresh |-> fresh]

Entries == [coins : Coins, dirty : BOOLEAN, fresh : BOOLEAN]

ASSUME NoneAssumption == /\ MaxHeight \in Nat
                         /\ None \notin Entries
                         /\ None \notin [entered : BOOLEAN, dirty : BOOLEAN]

CoinCells == [db : Coins, tip : Entries \cup {None}, view : Entries \cup {None}]

\* FetchCoins of pcoinsTip: a database entry is never pruned.
TipFetchCoins(c) ==
    IF c.tip = None /\ ~ IsPruned(c.db)
    THEN [c EXCEPT !.tip = Entry(c.db, FALSE, FALSE)]
    ELSE c

\* FetchCoins of the view, which asks pcoinsTip.
FetchCoins(c) ==
    LET d == TipFetchCoins(c)
    IN IF c.view # None THEN c
       ELSE IF d.tip = None THEN d
       ELSE [d EXCEPT !.view = Entry(d.tip.coins, FALSE, IsPruned(d.tip.coins))]

\* Fault variant: an entry of pcoinsTip that is pruned is not taken as fresh,
\* one that is not pruned is.
ModifyCoins_FreshInverted(c) ==
    LET d == TipFetchCoins(c)
    IN IF c.view # None THEN [c EXCEPT !.view = Entry(@.coins, TRUE, @.fresh)]
       ELSE IF d.tip = None
            THEN [d EXCEPT !.view = Entry(Cleared, TRUE, TRUE)]
            ELSE [d EXCEPT !.view =
                     Entry(d.tip.coins, TRUE, ~ IsPruned(d.tip.coins))]

\* ModifyCoins, up to the modification itself.
ModifyCoins(c) ==
    LET d == TipFetchCoins(c)
    IN IF c.view # None THEN [c EXCEPT !.view = Entry(@.coins, TRUE, @.fresh)]
       ELSE IF d.tip = None
            THEN [d EXCEPT !.view = Entry(Cleared, TRUE, TRUE)]
            ELSE [d EXCEPT !.view =
                     Entry(d.tip.coins, TRUE, IsPruned(d.tip.coins))]

\* The modification and ~CCoinsModifier, which drops a fresh pruned entry.
Modified(c, coins) ==
    LET d == ModifyCoins(c)
    IN IF d.view.fresh /\ IsPruned(coins)
       THEN [d EXCEPT !.view = None]
       ELSE [d EXCEPT !.view = Entry(coins, TRUE, @.fresh)]

\* ModifyNewCoins and ~CCoinsModifier.  The parent is not consulted.
ModifiedNew(c, coins) ==
    [c EXCEPT !.view = IF IsPruned(coins) THEN None ELSE Entry(coins, TRUE, TRUE)]

\* Fault variant: an entry new to pcoinsTip is not marked dirty.
BatchWriteCoins_Clean(c) ==
    [c EXCEPT
        !.view = None,
        !.tip = IF c.view = None \/ ~ c.view.dirty THEN @
                ELSE IF @ = None
                     THEN IF IsPruned(c.view.coins) THEN None
                          ELSE Entry(c.view.coins, FALSE, TRUE)
                     ELSE IF @.fresh /\ IsPruned(c.view.coins) THEN None
                          ELSE Entry(c.view.coins, TRUE, @.fresh)]

\* CCoinsViewCache::BatchWrite for one coin: the view flushes to pcoinsTip.
BatchWriteCoins(c) ==
    [c EXCEPT
        !.view = None,
        !.tip = IF c.view = None \/ ~ c.view.dirty THEN @
                ELSE IF @ = None
                     THEN IF IsPruned(c.view.coins) THEN None
                          ELSE Entry(c.view.coins, TRUE, TRUE)
                     ELSE IF @.fresh /\ IsPruned(c.view.coins) THEN None
                          ELSE Entry(c.view.coins, TRUE, @.fresh)]

\* CCoinsViewDB::BatchWrite for one coin: pcoinsTip flushes to the database.
DbWriteCoins(c) ==
    [c EXCEPT
        !.tip = None,
        !.db = IF c.tip = None \/ ~ c.tip.dirty THEN @ ELSE Canonical(c.tip.coins)]

\* What a look-up in each layer returns.
TipCoins(c) == Canonical(IF c.tip = None THEN c.db ELSE c.tip.coins)
ViewCoins(c) == IF c.view = None THEN TipCoins(c) ELSE Canonical(c.view.coins)

(***************************************************************************)
(* Nullifiers and anchors: present or not, with the tree of an anchor      *)
(* determined by its root.                                                 *)
(***************************************************************************)
Mark(entered, dirty) == [entered |-> entered, dirty |-> dirty]

Marks == [entered : BOOLEAN, dirty : BOOLEAN]

MarkCells == [db : BOOLEAN, tip : Marks \cup {None}, view : Marks \cup {None}]

TipHas(c) == IF c.tip = None THEN c.db ELSE c.tip.entered
ViewHas(c) == IF c.view = None THEN TipHas(c) ELSE c.view.entered

\* GetNullifier caches every answer, in each layer it asks.
GetNullifier(c) ==
    IF c.view # None THEN c
    ELSE [c EXCEPT !.tip = IF @ = None THEN Mark(c.db, FALSE) ELSE @,
                   !.view = Mark(TipHas(c), FALSE)]

\* GetSproutAnchorAt and GetSaplingAnchorAt cache only an anchor they found.
GetAnchorAt(c) ==
    IF c.view # None \/ ~ TipHas(c) THEN c
    ELSE [c EXCEPT !.tip = IF @ = None THEN Mark(TRUE, FALSE) ELSE @,
                   !.view = Mark(TRUE, FALSE)]

\* SetNullifiers, and the insertions of PushAnchor and PopAnchor.
SetMark(c, entered) == [c EXCEPT !.view = Mark(entered, TRUE)]

\* BatchWriteNullifiers and BatchWriteAnchors of coins.cpp.
BatchWriteMark(c) ==
    [c EXCEPT
        !.view = None,
        !.tip = IF c.view = None \/ ~ c.view.dirty THEN @
                ELSE IF @ = None THEN Mark(c.view.entered, TRUE)
                     ELSE IF @.entered # c.view.entered
                          THEN Mark(c.view.entered, TRUE)
                          ELSE @]

\* BatchWriteNullifiers and BatchWriteAnchors of txdb.cpp.  The database has the
\* anchor of the empty tree without a record of it; that one is never taken back.
DbWriteMark(c) ==
    [c EXCEPT
        !.tip = None,
        !.db = IF c.tip = None \/ ~ c.tip.dirty THEN @ ELSE c.tip.entered]

(***************************************************************************)
(* The best block and the best anchors: a null hash in a cache means "ask  *)
(* the parent".  A flush copies the hash, null or not, and pcoinsTip keeps *)
(* its own when it flushes.                                                *)
(***************************************************************************)
TipHash(c) == IF c.tip = None THEN c.db ELSE c.tip
ViewHash(c) == IF c.view = None THEN TipHash(c) ELSE c.view

\* GetBestBlock and GetBestAnchor remember the answer in each layer.
GetHash(c) ==
    IF c.view # None THEN c ELSE [c EXCEPT !.tip = TipHash(c), !.view = TipHash(c)]

SetHash(c, h) == [c EXCEPT !.view = h]

BatchWriteHash(c) == [c EXCEPT !.tip = c.view, !.view = None]

\* Fault variant: a null hash is written to the database.
DbWriteHash_Null(c) == [c EXCEPT !.db = c.tip]

DbWriteHash(c) == [c EXCEPT !.db = IF c.tip = None THEN @ ELSE c.tip]

(***************************************************************************)
(* A view is dropped without a flush; the process dies and restarts.       *)
(***************************************************************************)
DropView(c) == [c EXCEPT !.view = None]
DropCaches(c) == [c EXCEPT !.tip = None, !.view = None]

=============================================================================
