-------------------------- MODULE CoinsCacheProofs --------------------------
(***************************************************************************)
(* CoinsCache implements LayeredView, for every set of transactions,       *)
(* outputs, heights, nullifiers, pools, roots and blocks.                  *)
(*                                                                         *)
(* The refinement rests on the meaning of the flags: CellOK and MarkOK are *)
(* that meaning for one key, each cache operation preserves it, and under  *)
(* it no operation but a modification changes what a look-up returns.      *)
(***************************************************************************)
EXTENDS CoinsCache, TLAPS

\* What the flags of one key's entries say about the layer below; stronger than
\* FlagsSound, which alone does not survive a flush.
CellOK(c) ==
    /\ c \in CoinCells
    /\ Canonical(c.db) = c.db
    /\ c.tip # None => /\ c.tip.fresh => IsPruned(c.db)
                       /\ ~ c.tip.dirty => Canonical(c.tip.coins) = c.db
    /\ c.view # None => /\ c.view.fresh => IsPruned(TipCoins(c))
                        /\ ~ c.view.dirty => Canonical(c.view.coins) = TipCoins(c)
                        /\ c.tip = None => c.view.fresh
                        /\ c.view.dirty /\ c.view.fresh => ~ IsPruned(c.view.coins)

\* The same for a nullifier or an anchor: a clean entry repeats the layer below.
MarkOK(c) ==
    /\ c \in MarkCells
    /\ c.tip # None /\ ~ c.tip.dirty => c.tip.entered = c.db
    /\ c.view # None /\ ~ c.view.dirty => c.view.entered = TipHas(c)

\* The inductive invariant.
IInv ==
    /\ TypeOK
    /\ \A t \in Txids : CellOK(coins[t])
    /\ \A k \in MarkKeys : MarkOK(marks[k])
    /\ ~ open => /\ \A t \in Txids : coins[t].view = None
                 /\ \A k \in MarkKeys : marks[k].view = None
                 /\ \A k \in HashKeys : hashes[k].view = None

\* The layers d shows are those c shows.
Same(c, d) ==
    d.db = c.db /\ TipCoins(d) = TipCoins(c) /\ ViewCoins(d) = ViewCoins(c)
SameMark(c, d) ==
    d.db = c.db /\ TipHas(d) = TipHas(c) /\ ViewHas(d) = ViewHas(c)
SameHash(c, d) ==
    d.db = c.db /\ TipHash(d) = TipHash(c) /\ ViewHash(d) = ViewHash(c)

-----------------------------------------------------------------------------
(***************************************************************************)
(* Lemmas about coins and cells.                                           *)
(***************************************************************************)
\* Canonical is idempotent and changes nothing but the height of a pruned coin
\* (CCoins::operator== and IsPruned of coins.h).
LEMMA CanonicalFacts ==
    ASSUME NEW x \in Coins
    PROVE  /\ Canonical(x) \in Coins
           /\ Canonical(Canonical(x)) = Canonical(x)
           /\ IsPruned(Canonical(x)) <=> IsPruned(x)
           /\ IsPruned(x) => Canonical(x) = Cleared
           /\ Cleared \in Coins /\ IsPruned(Cleared)
  <1>1. Cleared \in Coins /\ IsPruned(Cleared)
    BY NoneAssumption DEF Cleared, Coins, IsPruned
  <1> QED
    BY <1>1 DEF Canonical

\* A cache entry has the fields it was made of and is not "no entry".
LEMMA EntryFacts ==
    ASSUME NEW x \in Coins, NEW dirty \in BOOLEAN, NEW fresh \in BOOLEAN
    PROVE  /\ Entry(x, dirty, fresh) \in Entries
           /\ Entry(x, dirty, fresh) # None
           /\ Entry(x, dirty, fresh).coins = x
           /\ Entry(x, dirty, fresh).dirty = dirty
           /\ Entry(x, dirty, fresh).fresh = fresh
  <1>1. Entry(x, dirty, fresh) \in Entries
    BY Zenon DEF Entry, Entries
  <1> QED
    BY <1>1, NoneAssumption DEF Entry

\* The same for an entry of the nullifier and anchor maps.
LEMMA MarkFacts ==
    ASSUME NEW e \in BOOLEAN, NEW d \in BOOLEAN
    PROVE  /\ Mark(e, d) \in Marks /\ Mark(e, d) # None
           /\ Mark(e, d).entered = e /\ Mark(e, d).dirty = d
  <1>1. Mark(e, d) \in Marks
    BY Zenon DEF Mark, Marks
  <1> QED
    BY <1>1, NoneAssumption DEF Mark, Marks

\* FetchCoins of pcoinsTip: caching a coin of the database does not show.
LEMMA TipFetchCell ==
    ASSUME NEW c, CellOK(c)
    PROVE  /\ CellOK(TipFetchCoins(c))
           /\ Same(c, TipFetchCoins(c))
           /\ TipFetchCoins(c).view = c.view
           /\ TipFetchCoins(c).tip = None => c.tip = None /\ IsPruned(c.db)
  <1>1. CASE c.tip = None /\ ~ IsPruned(c.db)
    <2> DEFINE d == TipFetchCoins(c)
    <2>1. d = [c EXCEPT !.tip = Entry(c.db, FALSE, FALSE)]
      BY <1>1 DEF TipFetchCoins
    <2>2. Entry(c.db, FALSE, FALSE) \in Entries /\ Entry(c.db, FALSE, FALSE) # None
      <3>1. c.db \in Coins
        BY DEF CellOK, CoinCells
      <3> QED
        BY <3>1, EntryFacts
    <2>3. /\ d \in CoinCells /\ d.db = c.db /\ d.view = c.view
          /\ d.tip = Entry(c.db, FALSE, FALSE)
      BY <2>1, <2>2 DEF CellOK, CoinCells
    <2>4. TipCoins(d) = TipCoins(c)
      BY <1>1, <2>2, <2>3 DEF TipCoins, Entry
    <2> HIDE DEF d
    <2>5. CellOK(d)
      BY <1>1, <2>2, <2>3, <2>4 DEF CellOK, Entry
    <2> QED
      BY <2>2, <2>3, <2>4, <2>5 DEF Same, ViewCoins, d
  <1>2. CASE ~ (c.tip = None /\ ~ IsPruned(c.db))
    <2>1. TipFetchCoins(c) = c
      BY <1>2 DEF TipFetchCoins
    <2> QED
      BY <1>2, <2>1 DEF Same
  <1> QED
    BY <1>1, <1>2

\* FetchCoins of the view: caching a coin of pcoinsTip does not show.
LEMMA FetchCell ==
    ASSUME NEW c, CellOK(c)
    PROVE  CellOK(FetchCoins(c)) /\ Same(c, FetchCoins(c))
  <1> DEFINE d == TipFetchCoins(c)
             e == Entry(d.tip.coins, FALSE, IsPruned(d.tip.coins))
             f == FetchCoins(c)
  <1>0. /\ CellOK(d) /\ Same(c, d) /\ d.view = c.view
    BY TipFetchCell
  <1>1. CASE c.view # None \/ d.tip = None
    <2>1. f = c \/ f = d
      BY <1>1 DEF FetchCoins
    <2> QED
      BY <1>0, <2>1 DEF Same
  <1>2. CASE c.view = None /\ d.tip # None
    <2>1. f = [d EXCEPT !.view = e]
      BY <1>2 DEF FetchCoins
    <2> HIDE DEF d, f
    <2>2. /\ e \in Entries /\ e # None /\ d.tip.coins \in Coins
          /\ e.coins = d.tip.coins /\ e.dirty = FALSE
          /\ e.fresh = IsPruned(d.tip.coins)
      <3>1. d.tip.coins \in Coins
        BY <1>0, <1>2 DEF CellOK, CoinCells, Entries
      <3>2. IsPruned(d.tip.coins) \in BOOLEAN
        BY DEF IsPruned
      <3> QED
        BY <3>1, <3>2, EntryFacts
    <2>3. f \in CoinCells /\ f.db = d.db /\ f.tip = d.tip /\ f.view = e
      BY <1>0, <2>1, <2>2 DEF CellOK, CoinCells
    <2>4. TipCoins(f) = TipCoins(d) /\ TipCoins(d) = Canonical(d.tip.coins)
      BY <1>2, <2>3 DEF TipCoins
    <2>5. ViewCoins(f) = TipCoins(f) /\ ViewCoins(d) = TipCoins(d)
      BY <1>0, <1>2, <2>2, <2>3, <2>4 DEF ViewCoins
    <2>6. CellOK(f)
      <3> HIDE DEF e
      <3>1. e.fresh => IsPruned(TipCoins(f))
        BY <2>2, <2>4, CanonicalFacts
      <3>2. f.tip # None
        BY <1>2, <2>3
      <3> QED
        BY <1>0, <2>2, <2>3, <2>4, <3>1, <3>2 DEF CellOK
    <2> QED
      BY <1>0, <2>3, <2>4, <2>5, <2>6 DEF Same, f
  <1> QED
    BY <1>1, <1>2

\* What ~CCoinsModifier leaves of an entry with the given FRESH flag.
Stored(c, new, fresh) ==
    IF fresh /\ IsPruned(new) THEN [c EXCEPT !.view = None]
    ELSE [c EXCEPT !.view = Entry(new, TRUE, fresh)]

\* Giving the view's entry new contents, whatever the flags become.
LEMMA StoreCell ==
    ASSUME NEW c, CellOK(c), NEW new \in Coins, NEW fresh \in BOOLEAN,
           fresh => IsPruned(TipCoins(c)),
           c.tip = None => fresh
    PROVE  /\ CellOK(Stored(c, new, fresh)) /\ Stored(c, new, fresh).db = c.db
           /\ TipCoins(Stored(c, new, fresh)) = TipCoins(c)
           /\ ViewCoins(Stored(c, new, fresh)) = Canonical(new)
  <1> DEFINE e == Entry(new, TRUE, fresh)
             d == Stored(c, new, fresh)
  <1>0. /\ e \in Entries /\ e # None /\ e.coins = new
        /\ e.dirty = TRUE /\ e.fresh = fresh
    BY EntryFacts
  <1> HIDE DEF e
  <1>1. CASE fresh /\ IsPruned(new)
    <2>1. /\ d \in CoinCells /\ d.db = c.db /\ d.tip = c.tip /\ d.view = None
      BY <1>1 DEF CellOK, CoinCells, Stored
    <2>2. TipCoins(d) = TipCoins(c)
      BY <2>1 DEF TipCoins
    <2>3. TipCoins(c) = Cleared
      <3>1. PICK x \in Coins : TipCoins(c) = Canonical(x)
        BY DEF TipCoins, CellOK, CoinCells, Entries
      <3> QED
        BY <1>1, <3>1, CanonicalFacts
    <2>4. CellOK(d)
      BY <2>1 DEF CellOK
    <2> QED
      BY <1>1, <2>1, <2>2, <2>3, <2>4, CanonicalFacts DEF ViewCoins
  <1>2. CASE ~ (fresh /\ IsPruned(new))
    <2>1. d = [c EXCEPT !.view = e]
      BY <1>2 DEF e, Stored
    <2>2. /\ d \in CoinCells /\ d.db = c.db /\ d.tip = c.tip /\ d.view = e
      BY <1>0, <2>1 DEF CellOK, CoinCells
    <2>3. TipCoins(d) = TipCoins(c)
      BY <2>2 DEF TipCoins
    <2>4. CellOK(d)
      BY <1>0, <1>2, <2>2, <2>3 DEF CellOK
    <2> QED
      BY <1>0, <2>2, <2>3, <2>4 DEF ViewCoins
  <1> QED
    BY <1>1, <1>2

\* ModifyCoins and the modification write through to the view and nowhere else.
LEMMA ModifyCell ==
    ASSUME NEW c, CellOK(c), NEW new \in Coins
    PROVE  /\ CellOK(Modified(c, new)) /\ Modified(c, new).db = c.db
           /\ TipCoins(Modified(c, new)) = TipCoins(c)
           /\ ViewCoins(Modified(c, new)) = Canonical(new)
  <1> DEFINE d == TipFetchCoins(c)
             m == ModifyCoins(c)
             r == Modified(c, new)
  <1>0. /\ CellOK(d) /\ d.db = c.db /\ TipCoins(d) = TipCoins(c)
        /\ d.view = c.view
        /\ d.tip = None => IsPruned(TipCoins(c))
    <2>1. CellOK(d) /\ Same(c, d) /\ d.view = c.view
      BY TipFetchCell
    <2>2. d.tip = None => c.tip = None /\ IsPruned(c.db)
      BY TipFetchCell
    <2> QED
      BY <2>1, <2>2, CanonicalFacts DEF Same, TipCoins, CellOK, CoinCells
  <1>1. CASE c.view # None
    <2>1. m = [c EXCEPT !.view = Entry(c.view.coins, TRUE, c.view.fresh)]
      BY <1>1 DEF ModifyCoins
    <2>2. m.view = Entry(c.view.coins, TRUE, c.view.fresh)
      BY <2>1 DEF CellOK, CoinCells
    <2>3. c.view.fresh \in BOOLEAN /\ c.view.coins \in Coins
      BY <1>1 DEF CellOK, CoinCells, Entries
    <2>4. m.view.fresh = c.view.fresh
      BY <2>2 DEF Entry
    <2>5. r = Stored(c, new, c.view.fresh)
      BY <2>1, <2>4 DEF Modified, CellOK, CoinCells, Stored
    <2>6. /\ c.view.fresh => IsPruned(TipCoins(c))
          /\ c.tip = None => c.view.fresh
      BY <1>1 DEF CellOK
    <2> HIDE DEF d, m, r
    <2>7. /\ CellOK(r) /\ r.db = c.db /\ TipCoins(r) = TipCoins(c)
          /\ ViewCoins(r) = Canonical(new)
      BY <2>3, <2>5, <2>6, StoreCell
    <2> QED
      BY <2>7 DEF r
  <1>2. CASE c.view = None
    <2>1. PICK x \in Coins, fresh \in BOOLEAN :
             /\ m = [d EXCEPT !.view = Entry(x, TRUE, fresh)]
             /\ fresh => IsPruned(TipCoins(d))
             /\ d.tip = None => fresh
      <3>1. CASE d.tip = None
        <4>1. m = [d EXCEPT !.view = Entry(Cleared, TRUE, TRUE)]
          BY <1>2, <3>1 DEF ModifyCoins
        <4> QED
          BY <1>0, <3>1, <4>1, CanonicalFacts DEF CellOK, CoinCells
      <3>2. CASE d.tip # None
        <4>1. m = [d EXCEPT !.view = Entry(d.tip.coins, TRUE, IsPruned(d.tip.coins))]
          BY <1>2, <3>2 DEF ModifyCoins
        <4>2. d.tip.coins \in Coins /\ IsPruned(d.tip.coins) \in BOOLEAN
          BY <1>0, <3>2 DEF CellOK, CoinCells, Entries, IsPruned
        <4>3. TipCoins(d) = Canonical(d.tip.coins)
          BY <3>2 DEF TipCoins
        <4> QED
          BY <3>2, <4>1, <4>2, <4>3, CanonicalFacts
      <3> QED
        BY <3>1, <3>2
    <2> HIDE DEF d
    <2>2. m.view = Entry(x, TRUE, fresh)
      BY <1>0, <2>1 DEF CellOK, CoinCells
    <2>3. m.view.fresh = fresh
      BY <2>2 DEF Entry
    <2>4. r = Stored(d, new, fresh)
      BY <1>0, <2>1, <2>3 DEF Modified, CellOK, CoinCells, Stored
    <2> HIDE DEF m, r
    <2>5. /\ CellOK(r) /\ r.db = d.db /\ TipCoins(r) = TipCoins(d)
          /\ ViewCoins(r) = Canonical(new)
      BY <1>0, <2>1, <2>4, StoreCell
    <2> QED
      BY <1>0, <2>5 DEF r
  <1> QED
    BY <1>1, <1>2

\* ModifyNewCoins does so too, because the parent has no unspent outputs.
LEMMA ModifyNewCell ==
    ASSUME NEW c, CellOK(c), NEW new \in Coins, IsPruned(TipCoins(c))
    PROVE  /\ CellOK(ModifiedNew(c, new)) /\ ModifiedNew(c, new).db = c.db
           /\ TipCoins(ModifiedNew(c, new)) = TipCoins(c)
           /\ ViewCoins(ModifiedNew(c, new)) = Canonical(new)
  <1>1. ModifiedNew(c, new) = Stored(c, new, TRUE)
    BY DEF ModifiedNew, Stored
  <1> QED
    BY <1>1, StoreCell

\* A flush of the view makes pcoinsTip show what the view showed.
LEMMA BatchWriteCell ==
    ASSUME NEW c, CellOK(c)
    PROVE  /\ CellOK(BatchWriteCoins(c)) /\ BatchWriteCoins(c).view = None
           /\ BatchWriteCoins(c).db = c.db
           /\ TipCoins(BatchWriteCoins(c)) = ViewCoins(c)
           /\ ViewCoins(BatchWriteCoins(c)) = ViewCoins(c)
  <1> DEFINE d == BatchWriteCoins(c)
  <1>0. /\ c.db \in Coins /\ c.tip \in Entries \cup {None}
        /\ c.view \in Entries \cup {None}
        /\ DOMAIN c = {"db", "tip", "view"}
    BY DEF CellOK, CoinCells
  <1>1. CASE c.view = None \/ ~ c.view.dirty
    <2>1. d \in CoinCells /\ d.db = c.db /\ d.tip = c.tip /\ d.view = None
      BY <1>1 DEF BatchWriteCoins, CellOK, CoinCells
    <2>2. TipCoins(d) = TipCoins(c) /\ ViewCoins(d) = TipCoins(d)
      BY <2>1 DEF TipCoins, ViewCoins
    <2>3. TipCoins(c) = ViewCoins(c)
      BY <1>1 DEF CellOK, ViewCoins
    <2>4. CellOK(d)
      BY <2>1 DEF CellOK
    <2> QED
      BY <2>1, <2>2, <2>3, <2>4
  <1>2. CASE c.view # None /\ c.view.dirty
    <2>0. c.view.coins \in Coins /\ ViewCoins(c) = Canonical(c.view.coins)
      BY <1>0, <1>2 DEF Entries, ViewCoins
    <2>1. CASE c.tip = None
      <3> DEFINE e == Entry(c.view.coins, TRUE, TRUE)
      <3>1. c.view.fresh /\ ~ IsPruned(c.view.coins) /\ IsPruned(TipCoins(c))
        BY <1>2, <2>1 DEF CellOK
      <3>2. IsPruned(c.db)
        BY <1>0, <2>1, <3>1, CanonicalFacts DEF TipCoins
      <3>3. e \in Entries /\ e # None /\ e.coins = c.view.coins /\ e.dirty = TRUE
        BY <2>0, EntryFacts
      <3> HIDE DEF e
      <3>4. d = [c EXCEPT !.view = None, !.tip = e]
        BY <1>2, <2>1, <3>1 DEF BatchWriteCoins, e
      <3>5. d \in CoinCells /\ d.db = c.db /\ d.tip = e /\ d.view = None
        BY <3>3, <3>4 DEF CellOK, CoinCells
      <3>6. CellOK(d)
        BY <3>2, <3>3, <3>5 DEF CellOK
      <3> QED
        BY <2>0, <3>3, <3>5, <3>6 DEF TipCoins, ViewCoins
    <2>2. CASE c.tip # None /\ c.tip.fresh /\ IsPruned(c.view.coins)
      <3>1. d = [c EXCEPT !.view = None, !.tip = None]
        BY <1>2, <2>2 DEF BatchWriteCoins
      <3>2. d \in CoinCells /\ d.db = c.db /\ d.tip = None /\ d.view = None
        BY <3>1 DEF CellOK, CoinCells
      <3>3. CellOK(d)
        BY <3>2 DEF CellOK
      <3>4. Canonical(c.db) = Cleared /\ Canonical(c.view.coins) = Cleared
        BY <1>0, <2>0, <2>2, CanonicalFacts DEF CellOK
      <3> QED
        BY <2>0, <3>2, <3>3, <3>4 DEF TipCoins, ViewCoins
    <2>3. CASE c.tip # None /\ ~ (c.tip.fresh /\ IsPruned(c.view.coins))
      <3> DEFINE e == Entry(c.view.coins, TRUE, c.tip.fresh)
      <3>1. c.tip.fresh \in BOOLEAN
        BY <1>0, <2>3 DEF Entries
      <3>2. /\ e \in Entries /\ e # None /\ e.coins = c.view.coins
            /\ e.dirty = TRUE /\ e.fresh = c.tip.fresh
        BY <2>0, <3>1, EntryFacts
      <3> HIDE DEF e
      <3>3. d = [c EXCEPT !.view = None, !.tip = e]
        BY <1>2, <2>3 DEF BatchWriteCoins, e
      <3>4. d \in CoinCells /\ d.db = c.db /\ d.tip = e /\ d.view = None
        BY <3>2, <3>3 DEF CellOK, CoinCells
      <3>5. CellOK(d)
        BY <2>3, <3>2, <3>4 DEF CellOK
      <3> QED
        BY <2>0, <3>2, <3>4, <3>5 DEF TipCoins, ViewCoins
    <2> QED
      BY <2>1, <2>2, <2>3
  <1> QED
    BY <1>1, <1>2

\* A flush of pcoinsTip makes the database hold what pcoinsTip showed.
LEMMA DbWriteCell ==
    ASSUME NEW c, CellOK(c), c.view = None
    PROVE  /\ CellOK(DbWriteCoins(c)) /\ DbWriteCoins(c).view = None
           /\ DbWriteCoins(c).db = TipCoins(c)
           /\ TipCoins(DbWriteCoins(c)) = TipCoins(c)
           /\ ViewCoins(DbWriteCoins(c)) = TipCoins(c)
  <1> DEFINE d == DbWriteCoins(c)
  <1>0. TipCoins(c) \in Coins /\ Canonical(TipCoins(c)) = TipCoins(c)
    BY CanonicalFacts DEF TipCoins, CellOK, CoinCells, Entries
  <1>1. d.db = TipCoins(c) /\ d.tip = None /\ d.view = None /\ d \in CoinCells
    <2>1. d = [c EXCEPT !.tip = None, !.db = TipCoins(c)]
      BY DEF DbWriteCoins, TipCoins, CellOK, CoinCells
    <2> QED
      BY <1>0, <2>1 DEF CellOK, CoinCells
  <1>2. CellOK(d)
    BY <1>0, <1>1 DEF CellOK
  <1> QED
    BY <1>0, <1>1, <1>2 DEF TipCoins, ViewCoins

\* Dropping the view, or both caches, falls back to the layer below.
LEMMA DropCell ==
    ASSUME NEW c, CellOK(c)
    PROVE  /\ CellOK(DropView(c)) /\ DropView(c).view = None
           /\ DropView(c).db = c.db
           /\ TipCoins(DropView(c)) = TipCoins(c)
           /\ ViewCoins(DropView(c)) = TipCoins(c)
           /\ CellOK(DropCaches(c)) /\ DropCaches(c).view = None
           /\ DropCaches(c).db = c.db
           /\ TipCoins(DropCaches(c)) = c.db /\ ViewCoins(DropCaches(c)) = c.db
  <1>1. /\ DropView(c) \in CoinCells /\ DropView(c).db = c.db
        /\ DropView(c).tip = c.tip /\ DropView(c).view = None
    BY DEF DropView, CellOK, CoinCells
  <1>2. /\ DropCaches(c) \in CoinCells /\ DropCaches(c).db = c.db
        /\ DropCaches(c).tip = None /\ DropCaches(c).view = None
    BY DEF DropCaches, CellOK, CoinCells
  <1> QED
    BY <1>1, <1>2 DEF CellOK, TipCoins, ViewCoins

-----------------------------------------------------------------------------
(***************************************************************************)
(* Lemmas about marks and hashes.                                          *)
(***************************************************************************)
\* A look-up of a nullifier or an anchor does not show, a negative answer that
\* GetNullifier caches included.
LEMMA ReadMark ==
    ASSUME NEW c, MarkOK(c)
    PROVE  /\ MarkOK(GetNullifier(c)) /\ SameMark(c, GetNullifier(c))
           /\ MarkOK(GetAnchorAt(c)) /\ SameMark(c, GetAnchorAt(c))
  <1>1. \A e, d \in BOOLEAN : /\ Mark(e, d) \in Marks /\ Mark(e, d) # None
                              /\ Mark(e, d).entered = e /\ Mark(e, d).dirty = d
    BY MarkFacts
  <1>2. c.db \in BOOLEAN /\ TipHas(c) \in BOOLEAN
    BY DEF MarkOK, MarkCells, Marks, TipHas
  <1> DEFINE asked == [c EXCEPT !.tip = IF @ = None THEN Mark(c.db, FALSE) ELSE @,
                                !.view = Mark(TipHas(c), FALSE)]
  <1>3. c.view = None => MarkOK(asked) /\ SameMark(c, asked)
    BY <1>1, <1>2 DEF MarkOK, MarkCells, SameMark, TipHas, ViewHas
  <1>4. SameMark(c, c)
    BY DEF SameMark
  <1>5. GetNullifier(c) = c \/ (c.view = None /\ GetNullifier(c) = asked)
    BY DEF GetNullifier
  <1>6. GetAnchorAt(c) = c \/ (c.view = None /\ GetAnchorAt(c) = asked)
    BY <1>2 DEF GetAnchorAt, TipHas
  <1> QED
    BY <1>3, <1>4, <1>5, <1>6

\* Entering a mark in the view shows in the view and nowhere else.
LEMMA WriteMark ==
    ASSUME NEW c, MarkOK(c), NEW e \in BOOLEAN
    PROVE  /\ MarkOK(SetMark(c, e)) /\ SetMark(c, e).db = c.db
           /\ TipHas(SetMark(c, e)) = TipHas(c) /\ ViewHas(SetMark(c, e)) = e
  <1>1. /\ Mark(e, TRUE) \in Marks /\ Mark(e, TRUE) # None
        /\ Mark(e, TRUE).entered = e /\ Mark(e, TRUE).dirty = TRUE
    BY MarkFacts
  <1> QED
    BY <1>1 DEF SetMark, MarkOK, MarkCells, TipHas, ViewHas

\* A flush of the view, of pcoinsTip, a dropped view and a restart, for a mark.
LEMMA MoveMark ==
    ASSUME NEW c, MarkOK(c)
    PROVE  /\ /\ MarkOK(BatchWriteMark(c)) /\ BatchWriteMark(c).view = None
              /\ BatchWriteMark(c).db = c.db
              /\ TipHas(BatchWriteMark(c)) = ViewHas(c)
              /\ ViewHas(BatchWriteMark(c)) = ViewHas(c)
           /\ c.view = None =>
                 /\ MarkOK(DbWriteMark(c)) /\ DbWriteMark(c).view = None
                 /\ DbWriteMark(c).db = TipHas(c)
                 /\ TipHas(DbWriteMark(c)) = TipHas(c)
                 /\ ViewHas(DbWriteMark(c)) = TipHas(c)
           /\ /\ MarkOK(DropView(c)) /\ DropView(c).view = None
              /\ DropView(c).db = c.db
              /\ TipHas(DropView(c)) = TipHas(c) /\ ViewHas(DropView(c)) = TipHas(c)
           /\ /\ MarkOK(DropCaches(c)) /\ DropCaches(c).view = None
              /\ DropCaches(c).db = c.db
              /\ TipHas(DropCaches(c)) = c.db /\ ViewHas(DropCaches(c)) = c.db
  <1>1. \A e, d \in BOOLEAN : /\ Mark(e, d) \in Marks /\ Mark(e, d) # None
                              /\ Mark(e, d).entered = e /\ Mark(e, d).dirty = d
    BY MarkFacts
  <1>2. /\ MarkOK(BatchWriteMark(c)) /\ BatchWriteMark(c).view = None
        /\ BatchWriteMark(c).db = c.db
        /\ TipHas(BatchWriteMark(c)) = ViewHas(c)
        /\ ViewHas(BatchWriteMark(c)) = ViewHas(c)
    <2>1. CASE c.view = None \/ ~ c.view.dirty
      <3>1. BatchWriteMark(c) = [c EXCEPT !.view = None]
        BY <2>1 DEF BatchWriteMark, MarkOK, MarkCells
      <3> QED
        BY <2>1, <3>1 DEF MarkOK, MarkCells, TipHas, ViewHas
    <2>2. CASE c.view # None /\ c.view.dirty
      <3>0. c.view.entered \in BOOLEAN
        BY <2>2 DEF MarkOK, MarkCells, Marks
      <3>1. CASE c.tip = None \/ c.tip.entered # c.view.entered
        <4>1. BatchWriteMark(c) =
                 [c EXCEPT !.view = None, !.tip = Mark(c.view.entered, TRUE)]
          BY <2>2, <3>1 DEF BatchWriteMark, MarkOK, MarkCells
        <4> QED
          BY <1>1, <2>2, <3>0, <4>1 DEF MarkOK, MarkCells, TipHas, ViewHas
      <3>2. CASE c.tip # None /\ c.tip.entered = c.view.entered
        <4>1. BatchWriteMark(c) = [c EXCEPT !.view = None]
          BY <2>2, <3>2 DEF BatchWriteMark, MarkOK, MarkCells
        <4> QED
          BY <2>2, <3>2, <4>1 DEF MarkOK, MarkCells, TipHas, ViewHas
      <3> QED
        BY <3>1, <3>2
    <2> QED
      BY <2>1, <2>2
  <1>3. ASSUME c.view = None
        PROVE  /\ MarkOK(DbWriteMark(c)) /\ DbWriteMark(c).view = None
               /\ DbWriteMark(c).db = TipHas(c)
               /\ TipHas(DbWriteMark(c)) = TipHas(c)
               /\ ViewHas(DbWriteMark(c)) = TipHas(c)
    <2>1. DbWriteMark(c) = [c EXCEPT !.tip = None, !.db = TipHas(c)]
      BY DEF DbWriteMark, TipHas, MarkOK, MarkCells, Marks
    <2>2. TipHas(c) \in BOOLEAN
      BY DEF MarkOK, MarkCells, Marks, TipHas
    <2> QED
      BY <1>3, <2>1, <2>2 DEF MarkOK, MarkCells, TipHas, ViewHas
  <1>4. /\ /\ MarkOK(DropView(c)) /\ DropView(c).view = None
           /\ DropView(c).db = c.db
           /\ TipHas(DropView(c)) = TipHas(c) /\ ViewHas(DropView(c)) = TipHas(c)
        /\ /\ MarkOK(DropCaches(c)) /\ DropCaches(c).view = None
           /\ DropCaches(c).db = c.db
           /\ TipHas(DropCaches(c)) = c.db /\ ViewHas(DropCaches(c)) = c.db
    BY DEF DropView, DropCaches, MarkOK, MarkCells, TipHas, ViewHas
  <1> QED
    BY <1>2, <1>3, <1>4

\* Reading, setting and moving a best hash; the flush of a view that has read
\* the hashes loses none.
LEMMA HashFacts ==
    ASSUME NEW k \in HashKeys, NEW c \in HashCells(k)
    PROVE  /\ GetHash(c) \in HashCells(k) /\ SameHash(c, GetHash(c))
           /\ \A h \in Hashes(k) : /\ SetHash(c, h) \in HashCells(k)
                                   /\ SetHash(c, h).db = c.db
                                   /\ TipHash(SetHash(c, h)) = TipHash(c)
                                   /\ ViewHash(SetHash(c, h)) = h
           /\ (c.tip # None => c.view # None) =>
                 /\ BatchWriteHash(c) \in HashCells(k) /\ BatchWriteHash(c).view = None
                 /\ BatchWriteHash(c).db = c.db
                 /\ TipHash(BatchWriteHash(c)) = ViewHash(c)
                 /\ ViewHash(BatchWriteHash(c)) = ViewHash(c)
           /\ c.view = None =>
                 /\ DbWriteHash(c) \in HashCells(k) /\ DbWriteHash(c).view = None
                 /\ DbWriteHash(c).db = TipHash(c)
                 /\ TipHash(DbWriteHash(c)) = TipHash(c)
                 /\ ViewHash(DbWriteHash(c)) = TipHash(c)
           /\ /\ DropView(c) \in HashCells(k) /\ DropView(c).view = None
              /\ DropView(c).db = c.db
              /\ TipHash(DropView(c)) = TipHash(c) /\ ViewHash(DropView(c)) = TipHash(c)
           /\ /\ DropCaches(c) \in HashCells(k) /\ DropCaches(c).view = None
              /\ DropCaches(c).db = c.db
              /\ TipHash(DropCaches(c)) = c.db /\ ViewHash(DropCaches(c)) = c.db
  <1>1. None \notin Hashes(k)
    BY HashAssumption DEF Hashes
  <1> QED
    BY <1>1 DEF HashCells, GetHash, SameHash, SetHash, BatchWriteHash, DbWriteHash,
                DropView, DropCaches, TipHash, ViewHash

\* The hash a layer shows is a hash.
LEMMA HashShown ==
    ASSUME NEW k \in HashKeys, NEW c \in HashCells(k)
    PROVE  ViewHash(c) \in Hashes(k)
  BY DEF HashCells, ViewHash, TipHash

-----------------------------------------------------------------------------
(***************************************************************************)
(* Steps of the machine.                                                   *)
(***************************************************************************)
\* The three kinds of keys.
LEMMA KeyKinds ==
    /\ \A k \in StateKeys : \/ k[1] = "coin" /\ k[2] \in Txids
                            \/ k[1] = "mark" /\ k[2] \in MarkKeys
                            \/ k[1] = "hash" /\ k[2] \in HashKeys
    /\ \A k \in StateKeys : \A x : /\ k = Coin(x) <=> k[1] = "coin" /\ k[2] = x
                                   /\ k = MarkKey(x) <=> k[1] = "mark" /\ k[2] = x
                                   /\ k = HashKey(x) <=> k[1] = "hash" /\ k[2] = x
  BY DEF StateKeys, Coin, MarkKey, HashKey

\* Flush of the view commits exactly the working version.
LEMMA FlushViewStep ==
    ASSUME IInv, FlushView
    PROVE  IInv' /\ StateView!Commit
  <1>1. \A t \in Txids : /\ CellOK(coins'[t]) /\ coins'[t].view = None
                         /\ coins'[t].db = coins[t].db
                         /\ TipCoins(coins'[t]) = ViewCoins(coins[t])
                         /\ ViewCoins(coins'[t]) = ViewCoins(coins[t])
    BY BatchWriteCell DEF IInv, FlushView
  <1>2. \A k \in MarkKeys : /\ MarkOK(marks'[k]) /\ marks'[k].view = None
                            /\ marks'[k].db = marks[k].db
                            /\ TipHas(marks'[k]) = ViewHas(marks[k])
                            /\ ViewHas(marks'[k]) = ViewHas(marks[k])
    BY MoveMark DEF IInv, FlushView
  <1>3. \A k \in HashKeys : /\ hashes'[k] \in HashCells(k) /\ hashes'[k].view = None
                            /\ hashes'[k].db = hashes[k].db
                            /\ TipHash(hashes'[k]) = ViewHash(hashes[k])
                            /\ ViewHash(hashes'[k]) = ViewHash(hashes[k])
    <2>1. \A k \in HashKeys : /\ hashes[k] \in HashCells(k)
                              /\ hashes[k].tip # None => hashes[k].view # None
                              /\ hashes'[k] = BatchWriteHash(hashes[k])
      BY DEF IInv, TypeOK, FlushView, HashesLoaded
    <2>2. TAKE k \in HashKeys
    <2>3. /\ BatchWriteHash(hashes[k]) \in HashCells(k)
          /\ BatchWriteHash(hashes[k]).view = None
          /\ BatchWriteHash(hashes[k]).db = hashes[k].db
          /\ TipHash(BatchWriteHash(hashes[k])) = ViewHash(hashes[k])
          /\ ViewHash(BatchWriteHash(hashes[k])) = ViewHash(hashes[k])
      BY <2>1, HashFacts
    <2> QED
      BY <2>1, <2>3
  <1>4. IInv'
    BY <1>1, <1>2, <1>3 DEF IInv, TypeOK, FlushView, CellOK, MarkOK
  <1>5. StateView!Commit
    BY <1>1, <1>2, <1>3, KeyKinds DEF StateView!Commit, Combined, InDb, FlushView
  <1> QED
    BY <1>4, <1>5

\* A view that is dropped leaves nothing behind.
LEMMA DiscardViewStep ==
    ASSUME IInv, DiscardView
    PROVE  IInv' /\ StateView!Discard
  <1>1. \A t \in Txids : /\ CellOK(coins'[t]) /\ coins'[t].view = None
                         /\ coins'[t].db = coins[t].db
                         /\ TipCoins(coins'[t]) = TipCoins(coins[t])
                         /\ ViewCoins(coins'[t]) = TipCoins(coins[t])
    BY DropCell DEF IInv, DiscardView
  <1>2. \A k \in MarkKeys : /\ MarkOK(marks'[k]) /\ marks'[k].view = None
                            /\ marks'[k].db = marks[k].db
                            /\ TipHas(marks'[k]) = TipHas(marks[k])
                            /\ ViewHas(marks'[k]) = TipHas(marks[k])
    BY MoveMark DEF IInv, DiscardView
  <1>3. \A k \in HashKeys : /\ hashes'[k] \in HashCells(k) /\ hashes'[k].view = None
                            /\ hashes'[k].db = hashes[k].db
                            /\ TipHash(hashes'[k]) = TipHash(hashes[k])
                            /\ ViewHash(hashes'[k]) = TipHash(hashes[k])
    BY HashFacts DEF IInv, TypeOK, DiscardView
  <1>4. IInv'
    BY <1>1, <1>2, <1>3 DEF IInv, TypeOK, DiscardView, CellOK, MarkOK
  <1>5. StateView!Discard
    BY <1>1, <1>2, <1>3, KeyKinds DEF StateView!Discard, Combined, InDb, DiscardView
  <1> QED
    BY <1>4, <1>5

\* Flush of pcoinsTip makes exactly the committed version durable.
LEMMA FlushTipStep ==
    ASSUME IInv, FlushTip
    PROVE  IInv' /\ StateView!Persist
  <1>1. \A t \in Txids : /\ CellOK(coins'[t]) /\ coins'[t].view = None
                         /\ coins'[t].db = TipCoins(coins[t])
                         /\ TipCoins(coins'[t]) = TipCoins(coins[t])
                         /\ ViewCoins(coins'[t]) = ViewCoins(coins[t])
    BY DbWriteCell DEF IInv, FlushTip, ViewCoins
  <1>2. \A k \in MarkKeys : /\ MarkOK(marks'[k]) /\ marks'[k].view = None
                            /\ marks'[k].db = TipHas(marks[k])
                            /\ TipHas(marks'[k]) = TipHas(marks[k])
                            /\ ViewHas(marks'[k]) = ViewHas(marks[k])
    BY MoveMark DEF IInv, FlushTip, ViewHas
  <1>3. \A k \in HashKeys : /\ hashes'[k] \in HashCells(k) /\ hashes'[k].view = None
                            /\ hashes'[k].db = TipHash(hashes[k])
                            /\ TipHash(hashes'[k]) = TipHash(hashes[k])
                            /\ ViewHash(hashes'[k]) = ViewHash(hashes[k])
    BY HashFacts DEF IInv, TypeOK, FlushTip, ViewHash
  <1>4. IInv'
    BY <1>1, <1>2, <1>3 DEF IInv, TypeOK, FlushTip, CellOK, MarkOK
  <1>5. StateView!Persist
    BY <1>1, <1>2, <1>3, KeyKinds DEF StateView!Persist, Combined, InDb, FlushTip
  <1> QED
    BY <1>4, <1>5

\* A restart with empty caches shows the durable version everywhere.
LEMMA CrashStep ==
    ASSUME IInv, Crash
    PROVE  IInv' /\ StateView!Crash
  <1>1. \A t \in Txids : /\ CellOK(coins'[t]) /\ coins'[t].view = None
                         /\ coins'[t].db = coins[t].db
                         /\ TipCoins(coins'[t]) = coins[t].db
                         /\ ViewCoins(coins'[t]) = coins[t].db
    BY DropCell DEF IInv, Crash
  <1>2. \A k \in MarkKeys : /\ MarkOK(marks'[k]) /\ marks'[k].view = None
                            /\ marks'[k].db = marks[k].db
                            /\ TipHas(marks'[k]) = marks[k].db
                            /\ ViewHas(marks'[k]) = marks[k].db
    BY MoveMark DEF IInv, Crash
  <1>3. \A k \in HashKeys : /\ hashes'[k] \in HashCells(k) /\ hashes'[k].view = None
                            /\ hashes'[k].db = hashes[k].db
                            /\ TipHash(hashes'[k]) = hashes[k].db
                            /\ ViewHash(hashes'[k]) = hashes[k].db
    BY HashFacts DEF IInv, TypeOK, Crash
  <1>4. IInv'
    BY <1>1, <1>2, <1>3 DEF IInv, TypeOK, Crash, CellOK, MarkOK
  <1>5. StateView!Crash
    BY <1>1, <1>2, <1>3, KeyKinds DEF StateView!Crash, Combined, InDb, Crash
  <1> QED
    BY <1>4, <1>5

\* A step after which every layer shows what it showed.
LEMMA QuietStep ==
    ASSUME UNCHANGED open,
           \A t \in Txids : Same(coins[t], coins'[t]),
           \A k \in MarkKeys : SameMark(marks[k], marks'[k]),
           \A k \in HashKeys : SameHash(hashes[k], hashes'[k])
    PROVE  UNCHANGED StateView!vars
  BY KeyKinds DEF StateView!vars, Combined, InDb, Same, SameMark, SameHash

\* A step after which the view shows the update u.
LEMMA WriteStep ==
    ASSUME open, UNCHANGED open, NEW u \in StateUpdates,
           \A t \in Txids :
              /\ coins'[t].db = coins[t].db /\ TipCoins(coins'[t]) = TipCoins(coins[t])
              /\ ViewCoins(coins'[t]) = IF Coin(t) \in DOMAIN u THEN u[Coin(t)]
                                        ELSE ViewCoins(coins[t]),
           \A k \in MarkKeys :
              /\ marks'[k].db = marks[k].db /\ TipHas(marks'[k]) = TipHas(marks[k])
              /\ ViewHas(marks'[k]) = IF MarkKey(k) \in DOMAIN u THEN u[MarkKey(k)]
                                      ELSE ViewHas(marks[k]),
           \A k \in HashKeys :
              /\ hashes'[k].db = hashes[k].db /\ TipHash(hashes'[k]) = TipHash(hashes[k])
              /\ ViewHash(hashes'[k]) = IF HashKey(k) \in DOMAIN u THEN u[HashKey(k)]
                                        ELSE ViewHash(hashes[k])
    PROVE  \E w \in StateUpdates : StateView!Write(w)
  <1>1. \A k \in StateKeys : \/ k[1] = "coin" /\ k[2] \in Txids /\ k = Coin(k[2])
                             \/ k[1] = "mark" /\ k[2] \in MarkKeys /\ k = MarkKey(k[2])
                             \/ k[1] = "hash" /\ k[2] \in HashKeys /\ k = HashKey(k[2])
    BY KeyKinds
  <1>2. StateView!Write(u)
    BY <1>1 DEF StateView!Write, Combined, InDb
  <1> QED
    BY <1>2

\* A step that replaces the cell of one coin by one that shows the same.
LEMMA AccessStep ==
    ASSUME IInv, NEW t \in Txids, NEW d, coins' = [coins EXCEPT ![t] = d],
           CellOK(d), Same(coins[t], d), ~ open => d.view = None,
           UNCHANGED <<marks, hashes, open>>
    PROVE  IInv' /\ UNCHANGED StateView!vars
  <1>1. IInv'
    BY DEF IInv, TypeOK, CellOK
  <1>2. \A x \in Txids : Same(coins[x], coins'[x])
    BY DEF IInv, TypeOK, Same
  <1> QED
    BY <1>1, <1>2, QuietStep DEF SameMark, SameHash

\* A step that gives one coin of the working version a new value.
LEMMA ModifyStep ==
    ASSUME IInv, open, UNCHANGED <<marks, hashes, open>>, NEW t \in Txids,
           NEW new \in Coins, NEW d, coins' = [coins EXCEPT ![t] = d],
           CellOK(d), d.db = coins[t].db, TipCoins(d) = TipCoins(coins[t]),
           ViewCoins(d) = Canonical(new)
    PROVE  IInv' /\ \E w \in StateUpdates : StateView!Write(w)
  <1>1. IInv'
    BY DEF IInv, TypeOK, CellOK
  <1> DEFINE u == [k \in {Coin(t)} |-> Canonical(new)]
  <1>2. u \in StateUpdates
    <2>1. u \in [{Coin(t)} -> Coins]
      BY CanonicalFacts
    <2>2. u \in CoinUpdates
      BY <2>1 DEF CoinUpdates
    <2> QED
      BY <2>2 DEF StateUpdates
  <1>3. \A x : /\ Coin(x) \in DOMAIN u <=> x = t
               /\ MarkKey(x) \notin DOMAIN u /\ HashKey(x) \notin DOMAIN u
    BY DEF Coin, MarkKey, HashKey
  <1>4. u[Coin(t)] = Canonical(new)
    OBVIOUS
  <1> HIDE DEF u
  <1>5. \A x \in Txids :
           /\ coins'[x].db = coins[x].db /\ TipCoins(coins'[x]) = TipCoins(coins[x])
           /\ ViewCoins(coins'[x]) = IF Coin(x) \in DOMAIN u THEN u[Coin(x)]
                                     ELSE ViewCoins(coins[x])
    BY <1>3, <1>4 DEF IInv, TypeOK
  <1>6. \E w \in StateUpdates : StateView!Write(w)
    BY <1>2, <1>3, <1>5, WriteStep
  <1> QED
    BY <1>1, <1>6

\* Nullifiers and anchors: a look-up, and a new value in the working version.
LEMMA MarkStep ==
    ASSUME IInv, open, UNCHANGED <<coins, hashes, open>>, NEW k \in MarkKeys, NEW d,
           marks' = [marks EXCEPT ![k] = d], MarkOK(d), d.db = marks[k].db,
           TipHas(d) = TipHas(marks[k]), ViewHas(d) \in BOOLEAN
    PROVE  /\ IInv'
           /\ ViewHas(d) = ViewHas(marks[k]) => UNCHANGED StateView!vars
           /\ \E w \in StateUpdates : StateView!Write(w)
  <1>1. IInv'
    BY DEF IInv, TypeOK, MarkOK
  <1>2. ASSUME ViewHas(d) = ViewHas(marks[k])
        PROVE  UNCHANGED StateView!vars
    <2>1. \A x \in MarkKeys : SameMark(marks[x], marks'[x])
      BY <1>2 DEF IInv, TypeOK, SameMark
    <2> QED
      BY <2>1, QuietStep DEF Same, SameHash
  <1> DEFINE u == [x \in {MarkKey(k)} |-> ViewHas(d)]
  <1>3. u \in StateUpdates
    <2>1. u \in [{MarkKey(k)} -> BOOLEAN]
      OBVIOUS
    <2>2. u \in MarkUpdates
      BY <2>1 DEF MarkUpdates
    <2> QED
      BY <2>2 DEF StateUpdates
  <1>4. \A x : /\ MarkKey(x) \in DOMAIN u <=> x = k
               /\ Coin(x) \notin DOMAIN u /\ HashKey(x) \notin DOMAIN u
    BY DEF Coin, MarkKey, HashKey
  <1>5. u[MarkKey(k)] = ViewHas(d)
    OBVIOUS
  <1> HIDE DEF u
  <1>6. \A x \in MarkKeys :
           /\ marks'[x].db = marks[x].db /\ TipHas(marks'[x]) = TipHas(marks[x])
           /\ ViewHas(marks'[x]) = IF MarkKey(x) \in DOMAIN u THEN u[MarkKey(x)]
                                   ELSE ViewHas(marks[x])
    BY <1>4, <1>5 DEF IInv, TypeOK
  <1>7. \E w \in StateUpdates : StateView!Write(w)
    BY <1>3, <1>4, <1>6, WriteStep
  <1> QED
    BY <1>1, <1>2, <1>7

\* The best hashes: a look-up, and a new value in the working version.
LEMMA HashStep ==
    ASSUME IInv, open, UNCHANGED <<coins, marks, open>>, NEW k \in HashKeys,
           NEW d \in HashCells(k), hashes' = [hashes EXCEPT ![k] = d],
           d.db = hashes[k].db, TipHash(d) = TipHash(hashes[k])
    PROVE  /\ IInv'
           /\ ViewHash(d) = ViewHash(hashes[k]) => UNCHANGED StateView!vars
           /\ \E w \in StateUpdates : StateView!Write(w)
  <1>1. IInv'
    BY DEF IInv, TypeOK
  <1>2. ASSUME ViewHash(d) = ViewHash(hashes[k])
        PROVE  UNCHANGED StateView!vars
    <2>1. \A x \in HashKeys : SameHash(hashes[x], hashes'[x])
      BY <1>2 DEF IInv, TypeOK, SameHash
    <2> QED
      BY <2>1, QuietStep DEF Same, SameMark
  <1> DEFINE u == [x \in {HashKey(k)} |-> ViewHash(d)]
  <1>3. u \in StateUpdates
    <2>1. u \in [{HashKey(k)} -> Hashes(k)]
      BY HashShown
    <2>2. u \in HashUpdates
      BY <2>1 DEF HashUpdates
    <2> QED
      BY <2>2 DEF StateUpdates
  <1>4. \A x : /\ HashKey(x) \in DOMAIN u <=> x = k
               /\ Coin(x) \notin DOMAIN u /\ MarkKey(x) \notin DOMAIN u
    BY DEF Coin, MarkKey, HashKey
  <1>5. u[HashKey(k)] = ViewHash(d)
    OBVIOUS
  <1> HIDE DEF u
  <1>6. \A x \in HashKeys :
           /\ hashes'[x].db = hashes[x].db /\ TipHash(hashes'[x]) = TipHash(hashes[x])
           /\ ViewHash(hashes'[x]) = IF HashKey(x) \in DOMAIN u THEN u[HashKey(x)]
                                     ELSE ViewHash(hashes[x])
    BY <1>4, <1>5 DEF IInv, TypeOK
  <1>7. \E w \in StateUpdates : StateView!Write(w)
    BY <1>3, <1>4, <1>6, WriteStep
  <1> QED
    BY <1>1, <1>2, <1>7

\* PushAnchor and PopAnchor with a new root: one anchor is entered or taken
\* back and the best anchor changes with it.
LEMMA AnchorStep ==
    ASSUME IInv, open, UNCHANGED <<coins, open>>,
           NEW p \in Pools, NEW rt \in Roots, NEW best \in Roots,
           NEW entered \in BOOLEAN, NEW c, NEW d,
           marks' = [marks EXCEPT ![<<p, rt>>] = c],
           hashes' = [hashes EXCEPT ![p] = d],
           MarkOK(c), c.db = marks[<<p, rt>>].db,
           TipHas(c) = TipHas(marks[<<p, rt>>]), ViewHas(c) = entered,
           d \in HashCells(p), d.db = hashes[p].db,
           TipHash(d) = TipHash(hashes[p]), ViewHash(d) = best
    PROVE  IInv' /\ \E w \in StateUpdates : StateView!Write(w)
  <1>0. <<p, rt>> \in MarkKeys /\ p \in HashKeys
    BY DEF MarkKeys, Anchors, HashKeys
  <1>1. IInv'
    BY <1>0 DEF IInv, TypeOK, MarkOK
  <1> DEFINE u == AnchorUpdate(p, rt, entered, best)
  <1>2. u \in StateUpdates
    <2>1. u \in AnchorUpdates
      BY DEF AnchorUpdates
    <2> QED
      BY <2>1 DEF StateUpdates
  <1>3. \A x : /\ MarkKey(x) \in DOMAIN u <=> x = <<p, rt>>
               /\ HashKey(x) \in DOMAIN u <=> x = p
               /\ Coin(x) \notin DOMAIN u
    BY DEF Coin, MarkKey, HashKey, AnchorUpdate
  <1>4. u[MarkKey(<<p, rt>>)] = entered /\ u[HashKey(p)] = best
    BY DEF MarkKey, HashKey, AnchorUpdate
  <1> HIDE DEF u
  <1>5. \A x \in MarkKeys :
           /\ marks'[x].db = marks[x].db /\ TipHas(marks'[x]) = TipHas(marks[x])
           /\ ViewHas(marks'[x]) = IF MarkKey(x) \in DOMAIN u THEN u[MarkKey(x)]
                                   ELSE ViewHas(marks[x])
    BY <1>0, <1>3, <1>4 DEF IInv, TypeOK
  <1>6. \A x \in HashKeys :
           /\ hashes'[x].db = hashes[x].db /\ TipHash(hashes'[x]) = TipHash(hashes[x])
           /\ ViewHash(hashes'[x]) = IF HashKey(x) \in DOMAIN u THEN u[HashKey(x)]
                                     ELSE ViewHash(hashes[x])
    BY <1>0, <1>3, <1>4 DEF IInv, TypeOK
  <1>7. \E w \in StateUpdates : StateView!Write(w)
    BY <1>2, <1>3, <1>5, <1>6, WriteStep
  <1> QED
    BY <1>1, <1>7

\* PushAnchor: nothing shows if the root is the current one.
LEMMA PushAnchorStep ==
    ASSUME IInv, NEW p \in Pools, NEW rt \in Roots, PushAnchor(p, rt)
    PROVE  IInv' /\ [\E w \in StateUpdates : StateView!Write(w)]_(StateView!vars)
  <1>0. /\ open /\ p \in HashKeys /\ <<p, rt>> \in MarkKeys /\ Hashes(p) = Roots
        /\ hashes[p] \in HashCells(p) /\ MarkOK(marks[<<p, rt>>])
    BY HashAssumption DEF PushAnchor, IInv, TypeOK, HashKeys, MarkKeys, Anchors, Hashes
  <1>1. GetHash(hashes[p]) \in HashCells(p) /\ SameHash(hashes[p], GetHash(hashes[p]))
    BY <1>0, HashFacts
  <1>2. CASE ViewHash(hashes[p]) = rt
    <2>1. hashes' = [hashes EXCEPT ![p] = GetHash(@)] /\ UNCHANGED <<coins, marks, open>>
      BY <1>2 DEF PushAnchor
    <2>2. IInv' /\ UNCHANGED StateView!vars
      BY <1>0, <1>1, <2>1, HashStep DEF SameHash
    <2> QED
      BY <2>2
  <1>3. CASE ViewHash(hashes[p]) # rt
    <2> DEFINE d == SetHash(GetHash(hashes[p]), rt)
               c == SetMark(marks[<<p, rt>>], TRUE)
    <2>1. /\ hashes' = [hashes EXCEPT ![p] = d] /\ UNCHANGED <<coins, open>>
          /\ marks' = [marks EXCEPT ![<<p, rt>>] = c]
      BY <1>3 DEF PushAnchor
    <2>2. /\ d \in HashCells(p) /\ d.db = hashes[p].db
          /\ TipHash(d) = TipHash(hashes[p]) /\ ViewHash(d) = rt
      BY <1>0, <1>1, HashFacts DEF SameHash
    <2>3. /\ MarkOK(c) /\ c.db = marks[<<p, rt>>].db
          /\ TipHas(c) = TipHas(marks[<<p, rt>>]) /\ ViewHas(c) = TRUE
      BY <1>0, WriteMark
    <2> HIDE DEF c, d
    <2>4. IInv' /\ \E w \in StateUpdates : StateView!Write(w)
      BY <1>0, <2>1, <2>2, <2>3, AnchorStep
    <2> QED
      BY <2>4
  <1> QED
    BY <1>2, <1>3

\* PopAnchor: the current root is taken back.
LEMMA PopAnchorStep ==
    ASSUME IInv, NEW p \in Pools, NEW rt \in Roots, PopAnchor(p, rt)
    PROVE  IInv' /\ [\E w \in StateUpdates : StateView!Write(w)]_(StateView!vars)
  <1> DEFINE cur == ViewHash(hashes[p])
  <1>0. /\ open /\ p \in HashKeys /\ Hashes(p) = Roots /\ hashes[p] \in HashCells(p)
    BY HashAssumption DEF PopAnchor, IInv, TypeOK, HashKeys, Hashes
  <1>1. GetHash(hashes[p]) \in HashCells(p) /\ SameHash(hashes[p], GetHash(hashes[p]))
    BY <1>0, HashFacts
  <1>2. cur \in Roots
    BY <1>0, HashShown
  <1>3. <<p, cur>> \in MarkKeys /\ MarkOK(marks[<<p, cur>>])
    BY <1>2 DEF MarkKeys, Anchors, IInv
  <1>4. CASE cur = rt
    <2>1. hashes' = [hashes EXCEPT ![p] = GetHash(@)] /\ UNCHANGED <<coins, marks, open>>
      BY <1>4 DEF PopAnchor
    <2>2. IInv' /\ UNCHANGED StateView!vars
      BY <1>0, <1>1, <2>1, HashStep DEF SameHash
    <2> QED
      BY <2>2
  <1>5. CASE cur # rt
    <2> DEFINE d == SetHash(GetHash(hashes[p]), rt)
               c == SetMark(GetAnchorAt(marks[<<p, cur>>]), FALSE)
    <2>1. /\ hashes' = [hashes EXCEPT ![p] = d] /\ UNCHANGED <<coins, open>>
          /\ marks' = [marks EXCEPT ![<<p, cur>>] = c]
      BY <1>5 DEF PopAnchor
    <2>2. /\ d \in HashCells(p) /\ d.db = hashes[p].db
          /\ TipHash(d) = TipHash(hashes[p]) /\ ViewHash(d) = rt
      BY <1>0, <1>1, HashFacts DEF SameHash
    <2>3. /\ MarkOK(c) /\ c.db = marks[<<p, cur>>].db
          /\ TipHas(c) = TipHas(marks[<<p, cur>>]) /\ ViewHas(c) = FALSE
      BY <1>3, ReadMark, WriteMark DEF SameMark
    <2> HIDE DEF c, d, cur
    <2>4. IInv' /\ \E w \in StateUpdates : StateView!Write(w)
      BY <1>0, <1>2, <2>1, <2>2, <2>3, AnchorStep
    <2> QED
      BY <2>4
  <1> QED
    BY <1>4, <1>5

\* A mark that a layer shows is a Boolean.
LEMMA MarkShown ==
    ASSUME NEW c, MarkOK(c)
    PROVE  ViewHas(c) \in BOOLEAN
  BY DEF MarkOK, MarkCells, Marks, ViewHas, TipHas

\* Every step keeps the invariant and is a step of the abstract map.
LEMMA NextStep ==
    IInv /\ [Next]_vars => IInv' /\ [StateView!Next]_(StateView!vars)
  <1> SUFFICES ASSUME IInv, [Next]_vars
               PROVE  IInv' /\ [StateView!Next]_(StateView!vars)
    OBVIOUS
  <1> USE DEF StateView!Next
  <1>0. /\ \A t \in Txids : CellOK(coins[t])
        /\ \A k \in MarkKeys : MarkOK(marks[k]) /\ ViewHas(marks[k]) \in BOOLEAN
        /\ \A k \in HashKeys : hashes[k] \in HashCells(k)
    BY MarkShown DEF IInv, TypeOK
  <1>1. CASE OpenView
    <2>1. IInv'
      BY <1>1 DEF OpenView, IInv, TypeOK
    <2>2. StateView!Start
      BY <1>1 DEF OpenView, StateView!Start, Combined
    <2> QED
      BY <2>1, <2>2
  <1>2. CASE FlushView
    BY <1>2, FlushViewStep
  <1>3. CASE DiscardView
    BY <1>3, DiscardViewStep
  <1>4. CASE FlushTip
    BY <1>4, FlushTipStep
  <1>5. CASE Crash
    BY <1>5, CrashStep
  <1>6. ASSUME NEW t \in Txids, AccessCoins(t)
        PROVE  IInv' /\ UNCHANGED StateView!vars
    BY <1>0, <1>6, FetchCell, AccessStep DEF AccessCoins
  <1>7. ASSUME NEW t \in Txids, AccessTipCoins(t)
        PROVE  IInv' /\ UNCHANGED StateView!vars
    <2>1. /\ CellOK(TipFetchCoins(coins[t])) /\ Same(coins[t], TipFetchCoins(coins[t]))
          /\ TipFetchCoins(coins[t]).view = None
      BY <1>0, <1>7, TipFetchCell DEF AccessTipCoins, IInv
    <2> QED
      BY <1>7, <2>1, AccessStep DEF AccessTipCoins
  <1>8. ASSUME NEW t \in Txids, NEW new \in Coins, ModifyCoin(t, new)
        PROVE  IInv' /\ \E w \in StateUpdates : StateView!Write(w)
    BY <1>0, <1>8, ModifyCell, ModifyStep DEF ModifyCoin
  <1>9. ASSUME NEW t \in Txids, NEW new \in Coins, ModifyNewCoin(t, new)
        PROVE  IInv' /\ \E w \in StateUpdates : StateView!Write(w)
    BY <1>0, <1>9, ModifyNewCell, ModifyStep DEF ModifyNewCoin
  <1>10. ASSUME NEW n \in Nullifiers, AccessNullifier(n)
         PROVE  IInv' /\ UNCHANGED StateView!vars
    <2>1. n \in MarkKeys
      BY DEF MarkKeys
    <2> DEFINE d == GetNullifier(marks[n])
    <2>2. MarkOK(d) /\ SameMark(marks[n], d) /\ ViewHas(d) \in BOOLEAN
      BY <1>0, <2>1, ReadMark, MarkShown
    <2>3. /\ open /\ UNCHANGED <<coins, hashes, open>>
          /\ marks' = [marks EXCEPT ![n] = d]
      BY <1>10 DEF AccessNullifier
    <2> HIDE DEF d
    <2> QED
      BY <2>1, <2>2, <2>3, MarkStep DEF SameMark
  <1>11. ASSUME NEW a \in Anchors, AccessAnchor(a)
         PROVE  IInv' /\ UNCHANGED StateView!vars
    <2>1. a \in MarkKeys
      BY DEF MarkKeys
    <2> DEFINE d == GetAnchorAt(marks[a])
    <2>2. MarkOK(d) /\ SameMark(marks[a], d) /\ ViewHas(d) \in BOOLEAN
      BY <1>0, <2>1, ReadMark, MarkShown
    <2>3. /\ open /\ UNCHANGED <<coins, hashes, open>>
          /\ marks' = [marks EXCEPT ![a] = d]
      BY <1>11 DEF AccessAnchor
    <2> HIDE DEF d
    <2> QED
      BY <2>1, <2>2, <2>3, MarkStep DEF SameMark
  <1>12. ASSUME NEW n \in Nullifiers, NEW spent \in BOOLEAN, SetNullifier(n, spent)
         PROVE  IInv' /\ \E w \in StateUpdates : StateView!Write(w)
    <2>1. n \in MarkKeys
      BY DEF MarkKeys
    <2> QED
      BY <1>0, <1>12, <2>1, WriteMark, MarkStep DEF SetNullifier
  <1>13. ASSUME NEW p \in Pools, NEW rt \in Roots, PushAnchor(p, rt) \/ PopAnchor(p, rt)
         PROVE  IInv' /\ [\E w \in StateUpdates : StateView!Write(w)]_(StateView!vars)
    BY <1>13, PushAnchorStep, PopAnchorStep
  <1>14. ASSUME NEW k \in HashKeys, AccessHash(k)
         PROVE  IInv' /\ UNCHANGED StateView!vars
    <2> DEFINE d == GetHash(hashes[k])
    <2>1. d \in HashCells(k) /\ SameHash(hashes[k], d)
      BY <1>0, HashFacts
    <2>2. /\ open /\ UNCHANGED <<coins, marks, open>>
          /\ hashes' = [hashes EXCEPT ![k] = d]
      BY <1>14 DEF AccessHash
    <2> HIDE DEF d
    <2> QED
      BY <2>1, <2>2, HashStep DEF SameHash
  <1>15. ASSUME NEW b \in Blocks, SetBestBlock(b)
         PROVE  IInv' /\ \E w \in StateUpdates : StateView!Write(w)
    <2>1. BestBlock \in HashKeys /\ b \in Hashes(BestBlock)
      BY DEF HashKeys, Hashes
    <2> DEFINE d == SetHash(hashes[BestBlock], b)
    <2>2. /\ d \in HashCells(BestBlock) /\ d.db = hashes[BestBlock].db
          /\ TipHash(d) = TipHash(hashes[BestBlock])
      BY <1>0, <2>1, HashFacts
    <2>3. /\ open /\ UNCHANGED <<coins, marks, open>>
          /\ hashes' = [hashes EXCEPT ![BestBlock] = d]
      BY <1>15 DEF SetBestBlock
    <2> HIDE DEF d
    <2> QED
      BY <2>1, <2>2, <2>3, HashStep
  <1>16. CASE UNCHANGED vars
    <2>1. IInv'
      BY <1>16 DEF vars, IInv, TypeOK
    <2> QED
      BY <1>16, <2>1, QuietStep DEF vars, Same, SameMark, SameHash
  <1> QED
    BY <1>1, <1>2, <1>3, <1>4, <1>5, <1>6, <1>7, <1>8, <1>9, <1>10, <1>11, <1>12,
       <1>13, <1>14, <1>15, <1>16 DEF Next

\* Empty caches on an empty database are an initial three-version map.
LEMMA InitStep == Init => IInv /\ StateView!Init
  <1> SUFFICES ASSUME Init PROVE IInv /\ StateView!Init
    OBVIOUS
  <1>1. \A t \in Txids : /\ CellOK(coins[t]) /\ coins[t].db = Cleared
                         /\ coins[t].tip = None /\ coins[t].view = None
    <2>1. Cleared \in Coins /\ IsPruned(Cleared)
      BY NoneAssumption DEF Cleared, Coins, IsPruned
    <2> QED
      BY <2>1 DEF Init, CellOK, CoinCells, Canonical
  <1>2. \A k \in MarkKeys : /\ MarkOK(marks[k])
                            /\ marks[k].tip = None /\ marks[k].view = None
    BY DEF Init, MarkOK, MarkCells
  <1>3. \A k \in HashKeys : /\ hashes[k] \in HashCells(k)
                            /\ hashes[k].tip = None /\ hashes[k].view = None
    BY HashAssumption DEF Init, HashCells, Hashes
  <1>4. IInv
    BY <1>1, <1>2, <1>3 DEF Init, IInv, TypeOK, CellOK, MarkOK
  <1>5. \A t \in Txids : /\ TipCoins(coins[t]) = coins[t].db
                         /\ ViewCoins(coins[t]) = coins[t].db
    BY <1>1 DEF TipCoins, ViewCoins, Canonical
  <1>6. \A k \in MarkKeys : TipHas(marks[k]) = marks[k].db /\ ViewHas(marks[k]) = marks[k].db
    BY <1>2 DEF TipHas, ViewHas
  <1>7. \A k \in HashKeys : /\ TipHash(hashes[k]) = hashes[k].db
                            /\ ViewHash(hashes[k]) = hashes[k].db
    BY <1>3 DEF TipHash, ViewHash
  <1>8. ~ open
    BY DEF Init
  <1>9. StateView!Init
    BY <1>5, <1>6, <1>7, <1>8, KeyKinds DEF StateView!Init, Combined, InDb
  <1> QED
    BY <1>4, <1>9

-----------------------------------------------------------------------------
\* Every layer keeps its type; in particular the database never holds a null
\* hash, although pcoinsTip may be flushed before it has read one.
THEOREM TypeCorrect == Spec => []TypeOK
  <1>1. IInv => TypeOK
    BY DEF IInv
  <1> QED
    BY <1>1, InitStep, NextStep, PTL DEF Spec

\* The DIRTY and FRESH flags of coins.h mean what their comments say, and the
\* assertion of CCoinsViewCache::BatchWrite never fires.
THEOREM FlagsAlwaysSound == Spec => []FlagsSound
  <1>1. IInv => FlagsSound
    BY DEF IInv, CellOK, FlagsSound, ViewCoins
  <1> QED
    BY <1>1, InitStep, NextStep, PTL DEF Spec

\* The database, pcoinsTip and the view on it are a three-version map of coins,
\* nullifiers, anchors and best hashes, flushed and lost together.
THEOREM StateImplementsLayeredView == Spec => StateRefined
  <1>1. Spec => [][StateView!Next]_(StateView!vars)
    BY InitStep, NextStep, PTL DEF Spec
  <1> QED
    BY <1>1, InitStep, PTL DEF Spec, StateRefined, StateView!Spec

=============================================================================
