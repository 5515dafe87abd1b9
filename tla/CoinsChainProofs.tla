-------------------------- MODULE CoinsChainProofs --------------------------
(***************************************************************************)
(* Proofs about CoinsChain: pcoinsTip and the database show what replaying *)
(* their chains gives, no output is spent twice, and no assertion fails.   *)
(*                                                                         *)
(* The invariant Inv says what each layer shows (CoinsInv, MarksInv,       *)
(* HashInv) and that undo data, whenever it was written, undoes its block  *)
(* (ChainInv).  The argument follows the handlers: each operation on a     *)
(* view leaves what pcoinsTip and the database show alone (ViewOK) and     *)
(* changes what the view shows by one input, transaction or block          *)
(* (ShowsCoins, ShowsMarks, ShowsAnchors); the loops are inductions over   *)
(* their states.  The lemmas about cells restate those of CoinsCacheProofs,*)
(* whose specification declares the same names for other state.            *)
(***************************************************************************)
EXTENDS CoinsChain, TreeTheorems, SequenceTheorems

\* What the flags of one key's entries say about the layer below.
CellOK(c) ==
    /\ c \in CoinCells
    /\ Canonical(c.db) = c.db
    /\ c.tip # None => /\ c.tip.fresh => IsPruned(c.db)
                       /\ ~ c.tip.dirty => Canonical(c.tip.coins) = c.db
    /\ c.view # None => /\ c.view.fresh => IsPruned(TipCoins(c))
                        /\ ~ c.view.dirty => Canonical(c.view.coins) = TipCoins(c)
                        /\ c.tip = None => c.view.fresh
                        /\ c.view.dirty /\ c.view.fresh => ~ IsPruned(c.view.coins)

MarkOK(c) ==
    /\ c \in MarkCells
    /\ c.tip # None /\ ~ c.tip.dirty => c.tip.entered = c.db
    /\ c.view # None /\ ~ c.view.dirty => c.view.entered = TipHas(c)

(***************************************************************************)
(* What is known of a chain and of the undo data of its last block.        *)
(***************************************************************************)
Anchors == Seq(Txids)

\* A chain of blocks that miners offer.
IsChain(ch) ==
    /\ ch \in Seq(Seq(Txids))
    /\ Len(ch) <= MaxHeight
    /\ \A h \in 1..Len(ch) : ch[h] \in Blocks[h]

\* The transactions of ch, and of the first i of a block on it.
Upto(ch, block, i) == TxsOf(ch) \cup {block[k] : k \in 1..i}

HeightOn(ch, t) == IF t \in TxsOf(ch) THEN HeightIn(ch, t) ELSE Len(ch) + 1

\* tx can follow the transactions of T.
Fits(T, tx) ==
    /\ tx \notin T
    /\ \A in \in Range(Inputs[tx]) :
          /\ in[1] \in T
          /\ in \notin SpentBy(T)
          /\ in[2] \in Outputs[in[1]]
    /\ Spends[tx] \cap RevealedBy(T) = {}

NoConflict(T) ==
    /\ \A t, u \in T : t # u =>
          /\ Range(Inputs[t]) \cap Range(Inputs[u]) = {}
          /\ Spends[t] \cap Spends[u] = {}
    /\ \A t \in T : Prevs(t) \subseteq T

\* The outputs spent by T and by the first j inputs of tx.
SpentAt(T, tx, j) == SpentBy(T) \cup {Inputs[tx][k] : k \in 1..j}

\* The height of p if nothing of it is left when the outputs in X are spent.
HeightIfSpent(ch, p, X) == IF Unspent(p, X) = {} THEN HeightOn(ch, p) ELSE 0

\* The undo record of the j-th input of tx, which follows T.
UndoHeight(ch, T, tx, j) ==
    HeightIfSpent(ch, Inputs[tx][j][1], SpentAt(T, tx, j))

\* txs undoes tx, which follows T.
Undoes(txundo, ch, T, tx) ==
    \A j \in 1..Len(Inputs[tx]) : txundo[j] = UndoHeight(ch, T, tx, j)

BlockOK(ch, block, txs) ==
    \A i \in 1..Len(block) :
        /\ Fits(Upto(ch, block, i - 1), block[i])
        /\ Undoes(txs[i], ch, Upto(ch, block, i - 1), block[i])

UndoOK(u) ==
    \A p \in DOMAIN u :
        /\ IsChain(p) /\ p # << >>
        /\ NoConflict(TxsOf(p))
        /\ BlockOK(Front(p), Last(p), u[p].txs)
        /\ u[p].root = RootOf(Front(p))
        /\ RootOf(p) \in Roots /\ Range(RootOf(p)) \subseteq TxsOf(p)

(***************************************************************************)
(* The inductive invariant.                                                *)
(***************************************************************************)
CoinsInv ==
    /\ coins \in [Txids -> Closed(CoinCells)]
    /\ \A t \in Txids :
          /\ CellOK(coins[t]) /\ coins[t].view = None
          /\ TipCoins(coins[t]) = UtxoOf(chain, t)
          /\ coins[t].db = UtxoOf(dbChain, t)

MarksInv ==
    /\ marks \in [Nullifiers \cup Roots -> Closed(MarkCells)]
    /\ \A k \in DOMAIN marks : MarkOK(marks[k]) /\ marks[k].view = None
    /\ \A n \in Nullifiers :
          /\ TipHas(marks[n]) <=> n \in RevealedBy(TxsOf(chain))
          /\ marks[n].db <=> n \in RevealedBy(TxsOf(dbChain))
    /\ \A k \in Roots :
          /\ TipHas(marks[k]) <=> k \in RootsOf(chain)
          /\ marks[k].db <=> k \in RootsOf(dbChain)

HashInv ==
    /\ DOMAIN hash = {"block", "anchor"}
    /\ \A k \in {"block", "anchor"} :
          DOMAIN hash[k] = {"db", "tip", "view"} /\ hash[k].view = None
    /\ TipHash(hash["block"]) = chain
    /\ hash["block"].db = dbChain
    /\ TipHash(hash["anchor"]) = RootOf(chain)
    /\ hash["anchor"].db = RootOf(dbChain)
    /\ hash["anchor"].db \in Anchors
    /\ hash["anchor"].tip # None => hash["anchor"].tip \in Anchors

ChainInv ==
    /\ IsChain(chain) /\ IsChain(dbChain)
    /\ UndoAvailable
    /\ UndoOK(undo) /\ UndoOK(dbUndo)
    /\ DOMAIN dbUndo \subseteq DOMAIN undo

Inv == CoinsInv /\ MarksInv /\ HashInv /\ ChainInv /\ fault = FALSE

\* The layers d shows are those c shows.
Same(c, d) ==
    d.db = c.db /\ TipCoins(d) = TipCoins(c) /\ ViewCoins(d) = ViewCoins(c)
SameMark(c, d) ==
    d.db = c.db /\ TipHas(d) = TipHas(c) /\ ViewHas(d) = ViewHas(c)

-----------------------------------------------------------------------------
(***************************************************************************)
(* Lemmas about coins and cells.                                           *)
(***************************************************************************)
\* Canonical is idempotent and changes nothing but the height of a pruned coin
\* (CCoins::operator== and IsPruned of coins.h).
LEMMA CanonicalFacts ==
    ASSUME NEW x \in Coins
    PROVE  /\ Canonical(x) \in Coins
           /\ Canonical(Canonical(x)) = Canonical(x)
           /\ IsPruned(Canonical(x)) <=> IsPruned(x)
           /\ IsPruned(x) => Canonical(x) = Cleared
           /\ Cleared \in Coins /\ IsPruned(Cleared)
  <1>1. Cleared \in Coins /\ IsPruned(Cleared)
    BY NoneAssumption DEF Cleared, Coins, IsPruned
  <1> QED
    BY <1>1 DEF Canonical

\* A cache entry has the fields it was made of and is not "no entry".
LEMMA EntryFacts ==
    ASSUME NEW x \in Coins, NEW dirty \in BOOLEAN, NEW fresh \in BOOLEAN
    PROVE  /\ Entry(x, dirty, fresh) \in Entries
           /\ Entry(x, dirty, fresh) # None
           /\ Entry(x, dirty, fresh).coins = x
           /\ Entry(x, dirty, fresh).dirty = dirty
           /\ Entry(x, dirty, fresh).fresh = fresh
  <1>1. Entry(x, dirty, fresh) \in Entries
    BY Zenon DEF Entry, Entries
  <1> QED
    BY <1>1, NoneAssumption DEF Entry

\* The same for an entry of the nullifier and anchor maps.
LEMMA MarkFacts ==
    ASSUME NEW e \in BOOLEAN, NEW d \in BOOLEAN
    PROVE  /\ Mark(e, d) \in Marks /\ Mark(e, d) # None
           /\ Mark(e, d).entered = e /\ Mark(e, d).dirty = d
  <1>1. Mark(e, d) \in Marks
    BY Zenon DEF Mark, Marks
  <1> QED
    BY <1>1, NoneAssumption DEF Mark, Marks

\* FetchCoins of pcoinsTip: caching a coin of the database does not show.
LEMMA TipFetchCell ==
    ASSUME NEW c, CellOK(c)
    PROVE  /\ CellOK(TipFetchCoins(c))
           /\ Same(c, TipFetchCoins(c))
           /\ TipFetchCoins(c).view = c.view
           /\ TipFetchCoins(c).tip = None => c.tip = None /\ IsPruned(c.db)
  <1>1. CASE c.tip = None /\ ~ IsPruned(c.db)
    <2> DEFINE d == TipFetchCoins(c)
    <2>1. d = [c EXCEPT !.tip = Entry(c.db, FALSE, FALSE)]
      BY <1>1 DEF TipFetchCoins
    <2>2. Entry(c.db, FALSE, FALSE) \in Entries /\ Entry(c.db, FALSE, FALSE) # None
      <3>1. c.db \in Coins
        BY DEF CellOK, CoinCells
      <3> QED
        BY <3>1, EntryFacts
    <2>3. /\ d \in CoinCells /\ d.db = c.db /\ d.view = c.view
          /\ d.tip = Entry(c.db, FALSE, FALSE)
      BY <2>1, <2>2 DEF CellOK, CoinCells
    <2>4. TipCoins(d) = TipCoins(c)
      BY <1>1, <2>2, <2>3 DEF TipCoins, Entry
    <2> HIDE DEF d
    <2>5. CellOK(d)
      BY <1>1, <2>2, <2>3, <2>4 DEF CellOK, Entry
    <2> QED
      BY <2>2, <2>3, <2>4, <2>5 DEF Same, ViewCoins, d
  <1>2. CASE ~ (c.tip = None /\ ~ IsPruned(c.db))
    <2>1. TipFetchCoins(c) = c
      BY <1>2 DEF TipFetchCoins
    <2> QED
      BY <1>2, <2>1 DEF Same
  <1> QED
    BY <1>1, <1>2

\* FetchCoins of the view: caching a coin of pcoinsTip does not show.
LEMMA FetchCell ==
    ASSUME NEW c, CellOK(c)
    PROVE  CellOK(FetchCoins(c)) /\ Same(c, FetchCoins(c))
  <1> DEFINE d == TipFetchCoins(c)
             e == Entry(d.tip.coins, FALSE, IsPruned(d.tip.coins))
             f == FetchCoins(c)
  <1>0. /\ CellOK(d) /\ Same(c, d) /\ d.view = c.view
    BY TipFetchCell
  <1>1. CASE c.view # None \/ d.tip = None
    <2>1. f = c \/ f = d
      BY <1>1 DEF FetchCoins
    <2> QED
      BY <1>0, <2>1 DEF Same
  <1>2. CASE c.view = None /\ d.tip # None
    <2>1. f = [d EXCEPT !.view = e]
      BY <1>2 DEF FetchCoins
    <2> HIDE DEF d, f
    <2>2. /\ e \in Entries /\ e # None /\ d.tip.coins \in Coins
          /\ e.coins = d.tip.coins /\ e.dirty = FALSE
          /\ e.fresh = IsPruned(d.tip.coins)
      <3>1. d.tip.coins \in Coins
        BY <1>0, <1>2 DEF CellOK, CoinCells, Entries
      <3>2. IsPruned(d.tip.coins) \in BOOLEAN
        BY DEF IsPruned
      <3> QED
        BY <3>1, <3>2, EntryFacts
    <2>3. f \in CoinCells /\ f.db = d.db /\ f.tip = d.tip /\ f.view = e
      BY <1>0, <2>1, <2>2 DEF CellOK, CoinCells
    <2>4. TipCoins(f) = TipCoins(d) /\ TipCoins(d) = Canonical(d.tip.coins)
      BY <1>2, <2>3 DEF TipCoins
    <2>5. ViewCoins(f) = TipCoins(f) /\ ViewCoins(d) = TipCoins(d)
      BY <1>0, <1>2, <2>2, <2>3, <2>4 DEF ViewCoins
    <2>6. CellOK(f)
      <3> HIDE DEF e
      <3>1. e.fresh => IsPruned(TipCoins(f))
        BY <2>2, <2>4, CanonicalFacts
      <3>2. f.tip # None
        BY <1>2, <2>3
      <3> QED
        BY <1>0, <2>2, <2>3, <2>4, <3>1, <3>2 DEF CellOK
    <2> QED
      BY <1>0, <2>3, <2>4, <2>5, <2>6 DEF Same, f
  <1> QED
    BY <1>1, <1>2

\* What ~CCoinsModifier leaves of an entry with the given FRESH flag.
Stored(c, new, fresh) ==
    IF fresh /\ IsPruned(new) THEN [c EXCEPT !.view = None]
    ELSE [c EXCEPT !.view = Entry(new, TRUE, fresh)]

\* Giving the view's entry new contents, whatever the flags become.
LEMMA StoreCell ==
    ASSUME NEW c, CellOK(c), NEW new \in Coins, NEW fresh \in BOOLEAN,
           fresh => IsPruned(TipCoins(c)),
           c.tip = None => fresh
    PROVE  /\ CellOK(Stored(c, new, fresh)) /\ Stored(c, new, fresh).db = c.db
           /\ TipCoins(Stored(c, new, fresh)) = TipCoins(c)
           /\ ViewCoins(Stored(c, new, fresh)) = Canonical(new)
  <1> DEFINE e == Entry(new, TRUE, fresh)
             d == Stored(c, new, fresh)
  <1>0. /\ e \in Entries /\ e # None /\ e.coins = new
        /\ e.dirty = TRUE /\ e.fresh = fresh
    BY EntryFacts
  <1> HIDE DEF e
  <1>1. CASE fresh /\ IsPruned(new)
    <2>1. /\ d \in CoinCells /\ d.db = c.db /\ d.tip = c.tip /\ d.view = None
      BY <1>1 DEF CellOK, CoinCells, Stored
    <2>2. TipCoins(d) = TipCoins(c)
      BY <2>1 DEF TipCoins
    <2>3. TipCoins(c) = Cleared
      <3>1. PICK x \in Coins : TipCoins(c) = Canonical(x)
        BY DEF TipCoins, CellOK, CoinCells, Entries
      <3> QED
        BY <1>1, <3>1, CanonicalFacts
    <2>4. CellOK(d)
      BY <2>1 DEF CellOK
    <2> QED
      BY <1>1, <2>1, <2>2, <2>3, <2>4, CanonicalFacts DEF ViewCoins
  <1>2. CASE ~ (fresh /\ IsPruned(new))
    <2>1. d = [c EXCEPT !.view = e]
      BY <1>2 DEF e, Stored
    <2>2. /\ d \in CoinCells /\ d.db = c.db /\ d.tip = c.tip /\ d.view = e
      BY <1>0, <2>1 DEF CellOK, CoinCells
    <2>3. TipCoins(d) = TipCoins(c)
      BY <2>2 DEF TipCoins
    <2>4. CellOK(d)
      BY <1>0, <1>2, <2>2, <2>3 DEF CellOK
    <2> QED
      BY <1>0, <2>2, <2>3, <2>4 DEF ViewCoins
  <1> QED
    BY <1>1, <1>2

\* ModifyCoins and the modification write through to the view and nowhere else.
LEMMA ModifyCell ==
    ASSUME NEW c, CellOK(c), NEW new \in Coins
    PROVE  /\ CellOK(Modified(c, new)) /\ Modified(c, new).db = c.db
           /\ TipCoins(Modified(c, new)) = TipCoins(c)
           /\ ViewCoins(Modified(c, new)) = Canonical(new)
  <1> DEFINE d == TipFetchCoins(c)
             m == ModifyCoins(c)
             r == Modified(c, new)
  <1>0. /\ CellOK(d) /\ d.db = c.db /\ TipCoins(d) = TipCoins(c)
        /\ d.view = c.view
        /\ d.tip = None => IsPruned(TipCoins(c))
    <2>1. CellOK(d) /\ Same(c, d) /\ d.view = c.view
      BY TipFetchCell
    <2>2. d.tip = None => c.tip = None /\ IsPruned(c.db)
      BY TipFetchCell
    <2> QED
      BY <2>1, <2>2, CanonicalFacts DEF Same, TipCoins, CellOK, CoinCells
  <1>1. CASE c.view # None
    <2>1. m = [c EXCEPT !.view = Entry(c.view.coins, TRUE, c.view.fresh)]
      BY <1>1 DEF ModifyCoins
    <2>2. m.view = Entry(c.view.coins, TRUE, c.view.fresh)
      BY <2>1 DEF CellOK, CoinCells
    <2>3. c.view.fresh \in BOOLEAN /\ c.view.coins \in Coins
      BY <1>1 DEF CellOK, CoinCells, Entries
    <2>4. m.view.fresh = c.view.fresh
      BY <2>2 DEF Entry
    <2>5. r = Stored(c, new, c.view.fresh)
      BY <2>1, <2>4 DEF Modified, CellOK, CoinCells, Stored
    <2>6. /\ c.view.fresh => IsPruned(TipCoins(c))
          /\ c.tip = None => c.view.fresh
      BY <1>1 DEF CellOK
    <2> HIDE DEF d, m, r
    <2>7. /\ CellOK(r) /\ r.db = c.db /\ TipCoins(r) = TipCoins(c)
          /\ ViewCoins(r) = Canonical(new)
      BY <2>3, <2>5, <2>6, StoreCell
    <2> QED
      BY <2>7 DEF r
  <1>2. CASE c.view = None
    <2>1. PICK x \in Coins, fresh \in BOOLEAN :
             /\ m = [d EXCEPT !.view = Entry(x, TRUE, fresh)]
             /\ fresh => IsPruned(TipCoins(d))
             /\ d.tip = None => fresh
      <3>1. CASE d.tip = None
        <4>1. m = [d EXCEPT !.view = Entry(Cleared, TRUE, TRUE)]
          BY <1>2, <3>1 DEF ModifyCoins
        <4> QED
          BY <1>0, <3>1, <4>1, CanonicalFacts DEF CellOK, CoinCells
      <3>2. CASE d.tip # None
        <4>1. m = [d EXCEPT !.view = Entry(d.tip.coins, TRUE, IsPruned(d.tip.coins))]
          BY <1>2, <3>2 DEF ModifyCoins
        <4>2. d.tip.coins \in Coins /\ IsPruned(d.tip.coins) \in BOOLEAN
          BY <1>0, <3>2 DEF CellOK, CoinCells, Entries, IsPruned
        <4>3. TipCoins(d) = Canonical(d.tip.coins)
          BY <3>2 DEF TipCoins
        <4> QED
          BY <3>2, <4>1, <4>2, <4>3, CanonicalFacts
      <3> QED
        BY <3>1, <3>2
    <2> HIDE DEF d
    <2>2. m.view = Entry(x, TRUE, fresh)
      BY <1>0, <2>1 DEF CellOK, CoinCells
    <2>3. m.view.fresh = fresh
      BY <2>2 DEF Entry
    <2>4. r = Stored(d, new, fresh)
      BY <1>0, <2>1, <2>3 DEF Modified, CellOK, CoinCells, Stored
    <2> HIDE DEF m, r
    <2>5. /\ CellOK(r) /\ r.db = d.db /\ TipCoins(r) = TipCoins(d)
          /\ ViewCoins(r) = Canonical(new)
      BY <1>0, <2>1, <2>4, StoreCell
    <2> QED
      BY <1>0, <2>5 DEF r
  <1> QED
    BY <1>1, <1>2

\* ModifyNewCoins does so too, because the parent has no unspent outputs.
LEMMA ModifyNewCell ==
    ASSUME NEW c, CellOK(c), NEW new \in Coins, IsPruned(TipCoins(c))
    PROVE  /\ CellOK(ModifiedNew(c, new)) /\ ModifiedNew(c, new).db = c.db
           /\ TipCoins(ModifiedNew(c, new)) = TipCoins(c)
           /\ ViewCoins(ModifiedNew(c, new)) = Canonical(new)
  <1>1. ModifiedNew(c, new) = Stored(c, new, TRUE)
    BY DEF ModifiedNew, Stored
  <1> QED
    BY <1>1, StoreCell

\* A flush of the view makes pcoinsTip show what the view showed.
LEMMA BatchWriteCell ==
    ASSUME NEW c, CellOK(c)
    PROVE  /\ CellOK(BatchWriteCoins(c)) /\ BatchWriteCoins(c).view = None
           /\ BatchWriteCoins(c).db = c.db
           /\ TipCoins(BatchWriteCoins(c)) = ViewCoins(c)
           /\ ViewCoins(BatchWriteCoins(c)) = ViewCoins(c)
  <1> DEFINE d == BatchWriteCoins(c)
  <1>0. /\ c.db \in Coins /\ c.tip \in Entries \cup {None}
        /\ c.view \in Entries \cup {None}
        /\ DOMAIN c = {"db", "tip", "view"}
    BY DEF CellOK, CoinCells
  <1>1. CASE c.view = None \/ ~ c.view.dirty
    <2>1. d \in CoinCells /\ d.db = c.db /\ d.tip = c.tip /\ d.view = None
      BY <1>1 DEF BatchWriteCoins, CellOK, CoinCells
    <2>2. TipCoins(d) = TipCoins(c) /\ ViewCoins(d) = TipCoins(d)
      BY <2>1 DEF TipCoins, ViewCoins
    <2>3. TipCoins(c) = ViewCoins(c)
      BY <1>1 DEF CellOK, ViewCoins
    <2>4. CellOK(d)
      BY <2>1 DEF CellOK
    <2> QED
      BY <2>1, <2>2, <2>3, <2>4
  <1>2. CASE c.view # None /\ c.view.dirty
    <2>0. c.view.coins \in Coins /\ ViewCoins(c) = Canonical(c.view.coins)
      BY <1>0, <1>2 DEF Entries, ViewCoins
    <2>1. CASE c.tip = None
      <3> DEFINE e == Entry(c.view.coins, TRUE, TRUE)
      <3>1. c.view.fresh /\ ~ IsPruned(c.view.coins) /\ IsPruned(TipCoins(c))
        BY <1>2, <2>1 DEF CellOK
      <3>2. IsPruned(c.db)
        BY <1>0, <2>1, <3>1, CanonicalFacts DEF TipCoins
      <3>3. e \in Entries /\ e # None /\ e.coins = c.view.coins /\ e.dirty = TRUE
        BY <2>0, EntryFacts
      <3> HIDE DEF e
      <3>4. d = [c EXCEPT !.view = None, !.tip = e]
        BY <1>2, <2>1, <3>1 DEF BatchWriteCoins, e
      <3>5. d \in CoinCells /\ d.db = c.db /\ d.tip = e /\ d.view = None
        BY <3>3, <3>4 DEF CellOK, CoinCells
      <3>6. CellOK(d)
        BY <3>2, <3>3, <3>5 DEF CellOK
      <3> QED
        BY <2>0, <3>3, <3>5, <3>6 DEF TipCoins, ViewCoins
    <2>2. CASE c.tip # None /\ c.tip.fresh /\ IsPruned(c.view.coins)
      <3>1. d = [c EXCEPT !.view = None, !.tip = None]
        BY <1>2, <2>2 DEF BatchWriteCoins
      <3>2. d \in CoinCells /\ d.db = c.db /\ d.tip = None /\ d.view = None
        BY <3>1 DEF CellOK, CoinCells
      <3>3. CellOK(d)
        BY <3>2 DEF CellOK
      <3>4. Canonical(c.db) = Cleared /\ Canonical(c.view.coins) = Cleared
        BY <1>0, <2>0, <2>2, CanonicalFacts DEF CellOK
      <3> QED
        BY <2>0, <3>2, <3>3, <3>4 DEF TipCoins, ViewCoins
    <2>3. CASE c.tip # None /\ ~ (c.tip.fresh /\ IsPruned(c.view.coins))
      <3> DEFINE e == Entry(c.view.coins, TRUE, c.tip.fresh)
      <3>1. c.tip.fresh \in BOOLEAN
        BY <1>0, <2>3 DEF Entries
      <3>2. /\ e \in Entries /\ e # None /\ e.coins = c.view.coins
            /\ e.dirty = TRUE /\ e.fresh = c.tip.fresh
        BY <2>0, <3>1, EntryFacts
      <3> HIDE DEF e
      <3>3. d = [c EXCEPT !.view = None, !.tip = e]
        BY <1>2, <2>3 DEF BatchWriteCoins, e
      <3>4. d \in CoinCells /\ d.db = c.db /\ d.tip = e /\ d.view = None
        BY <3>2, <3>3 DEF CellOK, CoinCells
      <3>5. CellOK(d)
        BY <2>3, <3>2, <3>4 DEF CellOK
      <3> QED
        BY <2>0, <3>2, <3>4, <3>5 DEF TipCoins, ViewCoins
    <2> QED
      BY <2>1, <2>2, <2>3
  <1> QED
    BY <1>1, <1>2

\* A flush of pcoinsTip makes the database hold what pcoinsTip showed.
LEMMA DbWriteCell ==
    ASSUME NEW c, CellOK(c), c.view = None
    PROVE  /\ CellOK(DbWriteCoins(c)) /\ DbWriteCoins(c).view = None
           /\ DbWriteCoins(c).db = TipCoins(c)
           /\ TipCoins(DbWriteCoins(c)) = TipCoins(c)
           /\ ViewCoins(DbWriteCoins(c)) = TipCoins(c)
  <1> DEFINE d == DbWriteCoins(c)
  <1>0. TipCoins(c) \in Coins /\ Canonical(TipCoins(c)) = TipCoins(c)
    BY CanonicalFacts DEF TipCoins, CellOK, CoinCells, Entries
  <1>1. d.db = TipCoins(c) /\ d.tip = None /\ d.view = None /\ d \in CoinCells
    <2>1. d = [c EXCEPT !.tip = None, !.db = TipCoins(c)]
      BY DEF DbWriteCoins, TipCoins, CellOK, CoinCells
    <2> QED
      BY <1>0, <2>1 DEF CellOK, CoinCells
  <1>2. CellOK(d)
    BY <1>0, <1>1 DEF CellOK
  <1> QED
    BY <1>0, <1>1, <1>2 DEF TipCoins, ViewCoins

\* Dropping the view, or both caches, falls back to the layer below.
LEMMA DropCell ==
    ASSUME NEW c, CellOK(c)
    PROVE  /\ CellOK(DropView(c)) /\ DropView(c).view = None
           /\ DropView(c).db = c.db
           /\ TipCoins(DropView(c)) = TipCoins(c)
           /\ ViewCoins(DropView(c)) = TipCoins(c)
           /\ CellOK(DropCaches(c)) /\ DropCaches(c).view = None
           /\ DropCaches(c).db = c.db
           /\ TipCoins(DropCaches(c)) = c.db /\ ViewCoins(DropCaches(c)) = c.db
  <1>1. /\ DropView(c) \in CoinCells /\ DropView(c).db = c.db
        /\ DropView(c).tip = c.tip /\ DropView(c).view = None
    BY DEF DropView, CellOK, CoinCells
  <1>2. /\ DropCaches(c) \in CoinCells /\ DropCaches(c).db = c.db
        /\ DropCaches(c).tip = None /\ DropCaches(c).view = None
    BY DEF DropCaches, CellOK, CoinCells
  <1> QED
    BY <1>1, <1>2 DEF CellOK, TipCoins, ViewCoins

-----------------------------------------------------------------------------
(***************************************************************************)
(* Lemmas about marks and hashes.                                          *)
(***************************************************************************)
\* A look-up of a nullifier or an anchor does not show, a negative answer that
\* GetNullifier caches included.
LEMMA ReadMark ==
    ASSUME NEW c, MarkOK(c)
    PROVE  /\ MarkOK(GetNullifier(c)) /\ SameMark(c, GetNullifier(c))
           /\ MarkOK(GetAnchorAt(c)) /\ SameMark(c, GetAnchorAt(c))
  <1>1. \A e, d \in BOOLEAN : /\ Mark(e, d) \in Marks /\ Mark(e, d) # None
                              /\ Mark(e, d).entered = e /\ Mark(e, d).dirty = d
    BY MarkFacts
  <1>2. c.db \in BOOLEAN /\ TipHas(c) \in BOOLEAN
    BY DEF MarkOK, MarkCells, Marks, TipHas
  <1> DEFINE asked == [c EXCEPT !.tip = IF @ = None THEN Mark(c.db, FALSE) ELSE @,
                                !.view = Mark(TipHas(c), FALSE)]
  <1>3. c.view = None => MarkOK(asked) /\ SameMark(c, asked)
    BY <1>1, <1>2 DEF MarkOK, MarkCells, SameMark, TipHas, ViewHas
  <1>4. SameMark(c, c)
    BY DEF SameMark
  <1>5. GetNullifier(c) = c \/ (c.view = None /\ GetNullifier(c) = asked)
    BY DEF GetNullifier
  <1>6. GetAnchorAt(c) = c \/ (c.view = None /\ GetAnchorAt(c) = asked)
    BY <1>2 DEF GetAnchorAt, TipHas
  <1> QED
    BY <1>3, <1>4, <1>5, <1>6

\* Entering a mark in the view shows in the view and nowhere else.
LEMMA WriteMark ==
    ASSUME NEW c, MarkOK(c), NEW e \in BOOLEAN
    PROVE  /\ MarkOK(SetMark(c, e)) /\ SetMark(c, e).db = c.db
           /\ TipHas(SetMark(c, e)) = TipHas(c) /\ ViewHas(SetMark(c, e)) = e
  <1>1. /\ Mark(e, TRUE) \in Marks /\ Mark(e, TRUE) # None
        /\ Mark(e, TRUE).entered = e /\ Mark(e, TRUE).dirty = TRUE
    BY MarkFacts
  <1> QED
    BY <1>1 DEF SetMark, MarkOK, MarkCells, TipHas, ViewHas

\* A flush of the view, of pcoinsTip, a dropped view and a restart, for a mark.
LEMMA MoveMark ==
    ASSUME NEW c, MarkOK(c)
    PROVE  /\ /\ MarkOK(BatchWriteMark(c)) /\ BatchWriteMark(c).view = None
              /\ BatchWriteMark(c).db = c.db
              /\ TipHas(BatchWriteMark(c)) = ViewHas(c)
              /\ ViewHas(BatchWriteMark(c)) = ViewHas(c)
           /\ c.view = None =>
                 /\ MarkOK(DbWriteMark(c)) /\ DbWriteMark(c).view = None
                 /\ DbWriteMark(c).db = TipHas(c)
                 /\ TipHas(DbWriteMark(c)) = TipHas(c)
                 /\ ViewHas(DbWriteMark(c)) = TipHas(c)
           /\ /\ MarkOK(DropView(c)) /\ DropView(c).view = None
              /\ DropView(c).db = c.db
              /\ TipHas(DropView(c)) = TipHas(c) /\ ViewHas(DropView(c)) = TipHas(c)
           /\ /\ MarkOK(DropCaches(c)) /\ DropCaches(c).view = None
              /\ DropCaches(c).db = c.db
              /\ TipHas(DropCaches(c)) = c.db /\ ViewHas(DropCaches(c)) = c.db
  <1>1. \A e, d \in BOOLEAN : /\ Mark(e, d) \in Marks /\ Mark(e, d) # None
                              /\ Mark(e, d).entered = e /\ Mark(e, d).dirty = d
    BY MarkFacts
  <1>2. /\ MarkOK(BatchWriteMark(c)) /\ BatchWriteMark(c).view = None
        /\ BatchWriteMark(c).db = c.db
        /\ TipHas(BatchWriteMark(c)) = ViewHas(c)
        /\ ViewHas(BatchWriteMark(c)) = ViewHas(c)
    <2>1. CASE c.view = None \/ ~ c.view.dirty
      <3>1. BatchWriteMark(c) = [c EXCEPT !.view = None]
        BY <2>1 DEF BatchWriteMark, MarkOK, MarkCells
      <3> QED
        BY <2>1, <3>1 DEF MarkOK, MarkCells, TipHas, ViewHas
    <2>2. CASE c.view # None /\ c.view.dirty
      <3>0. c.view.entered \in BOOLEAN
        BY <2>2 DEF MarkOK, MarkCells, Marks
      <3>1. CASE c.tip = None \/ c.tip.entered # c.view.entered
        <4>1. BatchWriteMark(c) =
                 [c EXCEPT !.view = None, !.tip = Mark(c.view.entered, TRUE)]
          BY <2>2, <3>1 DEF BatchWriteMark, MarkOK, MarkCells
        <4> QED
          BY <1>1, <2>2, <3>0, <4>1 DEF MarkOK, MarkCells, TipHas, ViewHas
      <3>2. CASE c.tip # None /\ c.tip.entered = c.view.entered
        <4>1. BatchWriteMark(c) = [c EXCEPT !.view = None]
          BY <2>2, <3>2 DEF BatchWriteMark, MarkOK, MarkCells
        <4> QED
          BY <2>2, <3>2, <4>1 DEF MarkOK, MarkCells, TipHas, ViewHas
      <3> QED
        BY <3>1, <3>2
    <2> QED
      BY <2>1, <2>2
  <1>3. ASSUME c.view = None
        PROVE  /\ MarkOK(DbWriteMark(c)) /\ DbWriteMark(c).view = None
               /\ DbWriteMark(c).db = TipHas(c)
               /\ TipHas(DbWriteMark(c)) = TipHas(c)
               /\ ViewHas(DbWriteMark(c)) = TipHas(c)
    <2>1. DbWriteMark(c) = [c EXCEPT !.tip = None, !.db = TipHas(c)]
      BY DEF DbWriteMark, TipHas, MarkOK, MarkCells, Marks
    <2>2. TipHas(c) \in BOOLEAN
      BY DEF MarkOK, MarkCells, Marks, TipHas
    <2> QED
      BY <1>3, <2>1, <2>2 DEF MarkOK, MarkCells, TipHas, ViewHas
  <1>4. /\ /\ MarkOK(DropView(c)) /\ DropView(c).view = None
           /\ DropView(c).db = c.db
           /\ TipHas(DropView(c)) = TipHas(c) /\ ViewHas(DropView(c)) = TipHas(c)
        /\ /\ MarkOK(DropCaches(c)) /\ DropCaches(c).view = None
           /\ DropCaches(c).db = c.db
           /\ TipHas(DropCaches(c)) = c.db /\ ViewHas(DropCaches(c)) = c.db
    BY DEF DropView, DropCaches, MarkOK, MarkCells, TipHas, ViewHas
  <1> QED
    BY <1>2, <1>3, <1>4
-----------------------------------------------------------------------------
(***************************************************************************)
(* The loops: each defines a sequence of states, one from the other.       *)
(***************************************************************************)

\* The loop over the inputs in UpdateCoins.
LEMMA SpendingStates ==
    ASSUME NEW s, NEW tx \in Txids
    PROVE  /\ Spending(s, tx)[0] = [s EXCEPT !.undo = << >>]
           /\ \A k \in 1..Len(Inputs[tx]) :
                 Spending(s, tx)[k] =
                    SpendInput(Spending(s, tx)[k - 1], Inputs[tx][k])
<1> DEFINE n == Len(Inputs[tx])
           x0 == [s EXCEPT !.undo = << >>]
           Step(x, k) == SpendInput(x, Inputs[tx][k])
           Eq(f, m) == f = [k \in 0..m |-> IF k = 0 THEN x0 ELSE Step(f[k - 1], k)]
           E == {m \in Nat : \E f : Eq(f, m)}
<1>1. n \in Nat
    BY CoinsChainAssumption
<1>2. \E f : f = [k \in 0..n |-> IF k = 0 THEN [s EXCEPT !.undo = << >>]
                               ELSE SpendInput(f[k - 1], Inputs[tx][k])]
  <2> HIDE DEF x0, Step, n
  <2>1. 0 \in E
    <3>1. Eq([k \in 0..0 |-> x0], 0)
      OBVIOUS
    <3> QED
      BY <3>1
  <2>2. ASSUME NEW m \in Nat, m \in E
        PROVE  m + 1 \in E
    <3>1. PICK f : Eq(f, m)
      BY <2>2
    <3> DEFINE p == [k \in 0..(m + 1) |-> IF k = m + 1 THEN Step(f[m], m + 1) ELSE f[k]]
    <3>2. ASSUME NEW k \in 0..(m + 1)
          PROVE  p[k] = IF k = 0 THEN x0 ELSE Step(p[k - 1], k)
      <4>1. CASE k = m + 1
        <5>1. k # 0 /\ k - 1 = m /\ m \in 0..(m + 1) /\ m # m + 1
          BY <4>1
        <5>2. p[k - 1] = f[m] /\ p[k] = Step(f[m], k)
          BY <4>1, <5>1
        <5> QED
          BY ONLY <5>1, <5>2
      <4>2. CASE k # m + 1
        <5>1. k \in 0..m /\ p[k] = f[k]
          BY <4>2
        <5>2. k # 0 => k - 1 \in 0..(m + 1) /\ k - 1 # m + 1 /\ p[k - 1] = f[k - 1]
          BY <4>2
        <5>3. f[k] = IF k = 0 THEN x0 ELSE Step(f[k - 1], k)
          BY <3>1, <5>1
        <5> QED
          BY ONLY <5>1, <5>2, <5>3
      <4> QED
        BY <4>1, <4>2
    <3>3. p = [k \in 0..(m + 1) |-> p[k]]
      OBVIOUS
    <3> HIDE DEF p
    <3>4. Eq(p, m + 1)
      BY <3>2, <3>3
    <3> QED
      BY <3>4
  <2>3. n \in E
    <3>1. Nat \subseteq E
      <4> HIDE DEF E
      <4> QED
        BY <2>1, <2>2, NatSetInduction
    <3> QED
      BY <3>1, <1>1
  <2> QED
    BY <2>3 DEF x0, Step, n
<1> DEFINE g == Spending(s, tx)
<1>3. g = [k \in 0..n |-> IF k = 0 THEN [s EXCEPT !.undo = << >>]
                          ELSE SpendInput(g[k - 1], Inputs[tx][k])]
    BY <1>2 DEF Spending
<1> HIDE DEF g
<1>4. g[0] = x0 /\ \A k \in 1..n : g[k] = Step(g[k - 1], k)
  <2> HIDE DEF x0, Step, n
  <2>1. g = [k \in 0..n |-> IF k = 0 THEN x0 ELSE Step(g[k - 1], k)]
    BY <1>3 DEF x0, Step, n
  <2>2. 0 \in 0..n /\ \A k \in 1..n : k \in 0..n /\ k # 0
    BY <1>1
  <2> QED
    BY <2>1, <2>2
<1> QED
    BY <1>4 DEF g

\* The loop over the inputs in DisconnectBlock.
LEMMA RestoringStates ==
    ASSUME NEW s, NEW tx \in Txids, NEW txundo
    PROVE  /\ Restoring(s, tx, txundo)[0] = s
           /\ \A k \in 1..Len(Inputs[tx]) :
                 Restoring(s, tx, txundo)[k] =
                    ApplyTxInUndo(Restoring(s, tx, txundo)[k - 1], Inputs[tx][Len(Inputs[tx]) + 1 - k],
                                  txundo[Len(Inputs[tx]) + 1 - k])
<1> DEFINE n == Len(Inputs[tx])
           x0 == s
           Step(x, k) == ApplyTxInUndo(x, Inputs[tx][Len(Inputs[tx]) + 1 - k],
                                  txundo[Len(Inputs[tx]) + 1 - k])
           Eq(f, m) == f = [k \in 0..m |-> IF k = 0 THEN x0 ELSE Step(f[k - 1], k)]
           E == {m \in Nat : \E f : Eq(f, m)}
<1>1. n \in Nat
    BY CoinsChainAssumption
<1>2. \E f : f = [k \in 0..n |-> IF k = 0 THEN s
                               ELSE ApplyTxInUndo(f[k - 1], Inputs[tx][Len(Inputs[tx]) + 1 - k],
                                  txundo[Len(Inputs[tx]) + 1 - k])]
  <2> HIDE DEF x0, Step, n
  <2>1. 0 \in E
    <3>1. Eq([k \in 0..0 |-> x0], 0)
      OBVIOUS
    <3> QED
      BY <3>1
  <2>2. ASSUME NEW m \in Nat, m \in E
        PROVE  m + 1 \in E
    <3>1. PICK f : Eq(f, m)
      BY <2>2
    <3> DEFINE p == [k \in 0..(m + 1) |-> IF k = m + 1 THEN Step(f[m], m + 1) ELSE f[k]]
    <3>2. ASSUME NEW k \in 0..(m + 1)
          PROVE  p[k] = IF k = 0 THEN x0 ELSE Step(p[k - 1], k)
      <4>1. CASE k = m + 1
        <5>1. k # 0 /\ k - 1 = m /\ m \in 0..(m + 1) /\ m # m + 1
          BY <4>1
        <5>2. p[k - 1] = f[m] /\ p[k] = Step(f[m], k)
          BY <4>1, <5>1
        <5> QED
          BY ONLY <5>1, <5>2
      <4>2. CASE k # m + 1
        <5>1. k \in 0..m /\ p[k] = f[k]
          BY <4>2
        <5>2. k # 0 => k - 1 \in 0..(m + 1) /\ k - 1 # m + 1 /\ p[k - 1] = f[k - 1]
          BY <4>2
        <5>3. f[k] = IF k = 0 THEN x0 ELSE Step(f[k - 1], k)
          BY <3>1, <5>1
        <5> QED
          BY ONLY <5>1, <5>2, <5>3
      <4> QED
        BY <4>1, <4>2
    <3>3. p = [k \in 0..(m + 1) |-> p[k]]
      OBVIOUS
    <3> HIDE DEF p
    <3>4. Eq(p, m + 1)
      BY <3>2, <3>3
    <3> QED
      BY <3>4
  <2>3. n \in E
    <3>1. Nat \subseteq E
      <4> HIDE DEF E
      <4> QED
        BY <2>1, <2>2, NatSetInduction
    <3> QED
      BY <3>1, <1>1
  <2> QED
    BY <2>3 DEF x0, Step, n
<1> DEFINE g == Restoring(s, tx, txundo)
<1>3. g = [k \in 0..n |-> IF k = 0 THEN s
                          ELSE ApplyTxInUndo(g[k - 1], Inputs[tx][Len(Inputs[tx]) + 1 - k],
                                  txundo[Len(Inputs[tx]) + 1 - k])]
    BY <1>2 DEF Restoring
<1> HIDE DEF g
<1>4. g[0] = x0 /\ \A k \in 1..n : g[k] = Step(g[k - 1], k)
  <2> HIDE DEF x0, Step, n
  <2>1. g = [k \in 0..n |-> IF k = 0 THEN x0 ELSE Step(g[k - 1], k)]
    BY <1>3 DEF x0, Step, n
  <2>2. 0 \in 0..n /\ \A k \in 1..n : k \in 0..n /\ k # 0
    BY <1>1
  <2> QED
    BY <2>1, <2>2
<1> QED
    BY <1>4 DEF g

\* The loop over the transactions in ConnectBlock.
LEMMA ConnectingStates ==
    ASSUME NEW block \in Seq(Txids)
    PROVE  /\ Connecting(block)[0] = CheckDuplicates(BeginConnect, block)
           /\ \A k \in 1..Len(block) :
                 Connecting(block)[k] =
                    ConnectTx(Connecting(block)[k - 1], block[k], Len(chain) + 1)
<1> DEFINE n == Len(block)
           x0 == CheckDuplicates(BeginConnect, block)
           Step(x, k) == ConnectTx(x, block[k], Len(chain) + 1)
           Eq(f, m) == f = [k \in 0..m |-> IF k = 0 THEN x0 ELSE Step(f[k - 1], k)]
           E == {m \in Nat : \E f : Eq(f, m)}
<1>1. n \in Nat
    OBVIOUS
<1>2. \E f : f = [k \in 0..n |-> IF k = 0 THEN CheckDuplicates(BeginConnect, block)
                               ELSE ConnectTx(f[k - 1], block[k], Len(chain) + 1)]
  <2> HIDE DEF x0, Step, n
  <2>1. 0 \in E
    <3>1. Eq([k \in 0..0 |-> x0], 0)
      OBVIOUS
    <3> QED
      BY <3>1
  <2>2. ASSUME NEW m \in Nat, m \in E
        PROVE  m + 1 \in E
    <3>1. PICK f : Eq(f, m)
      BY <2>2
    <3> DEFINE p == [k \in 0..(m + 1) |-> IF k = m + 1 THEN Step(f[m], m + 1) ELSE f[k]]
    <3>2. ASSUME NEW k \in 0..(m + 1)
          PROVE  p[k] = IF k = 0 THEN x0 ELSE Step(p[k - 1], k)
      <4>1. CASE k = m + 1
        <5>1. k # 0 /\ k - 1 = m /\ m \in 0..(m + 1) /\ m # m + 1
          BY <4>1
        <5>2. p[k - 1] = f[m] /\ p[k] = Step(f[m], k)
          BY <4>1, <5>1
        <5> QED
          BY ONLY <5>1, <5>2
      <4>2. CASE k # m + 1
        <5>1. k \in 0..m /\ p[k] = f[k]
          BY <4>2
        <5>2. k # 0 => k - 1 \in 0..(m + 1) /\ k - 1 # m + 1 /\ p[k - 1] = f[k - 1]
          BY <4>2
        <5>3. f[k] = IF k = 0 THEN x0 ELSE Step(f[k - 1], k)
          BY <3>1, <5>1
        <5> QED
          BY ONLY <5>1, <5>2, <5>3
      <4> QED
        BY <4>1, <4>2
    <3>3. p = [k \in 0..(m + 1) |-> p[k]]
      OBVIOUS
    <3> HIDE DEF p
    <3>4. Eq(p, m + 1)
      BY <3>2, <3>3
    <3> QED
      BY <3>4
  <2>3. n \in E
    <3>1. Nat \subseteq E
      <4> HIDE DEF E
      <4> QED
        BY <2>1, <2>2, NatSetInduction
    <3> QED
      BY <3>1, <1>1
  <2> QED
    BY <2>3 DEF x0, Step, n
<1> DEFINE g == Connecting(block)
<1>3. g = [k \in 0..n |-> IF k = 0 THEN CheckDuplicates(BeginConnect, block)
                          ELSE ConnectTx(g[k - 1], block[k], Len(chain) + 1)]
    BY <1>2 DEF Connecting
<1> HIDE DEF g
<1>4. g[0] = x0 /\ \A k \in 1..n : g[k] = Step(g[k - 1], k)
  <2> HIDE DEF x0, Step, n
  <2>1. g = [k \in 0..n |-> IF k = 0 THEN x0 ELSE Step(g[k - 1], k)]
    BY <1>3 DEF x0, Step, n
  <2>2. 0 \in 0..n /\ \A k \in 1..n : k \in 0..n /\ k # 0
    BY <1>1
  <2> QED
    BY <2>1, <2>2
<1> QED
    BY <1>4 DEF g

\* The loop over the transactions in DisconnectBlock.
LEMMA DisconnectingStates ==
    ASSUME Last(chain) \in Seq(Txids)
    PROVE  /\ Disconnecting[0] = BeginDisconnect
           /\ \A k \in 1..Len(Last(chain)) :
                 Disconnecting[k] =
                    DisconnectTx(Disconnecting[k - 1], Last(chain)[Len(Last(chain)) + 1 - k],
                                 undo[chain].txs[Len(Last(chain)) + 1 - k],
                                 Len(chain))
<1> DEFINE n == Len(Last(chain))
           x0 == BeginDisconnect
           Step(x, k) == DisconnectTx(x, Last(chain)[Len(Last(chain)) + 1 - k],
                                 undo[chain].txs[Len(Last(chain)) + 1 - k],
                                 Len(chain))
           Eq(f, m) == f = [k \in 0..m |-> IF k = 0 THEN x0 ELSE Step(f[k - 1], k)]
           E == {m \in Nat : \E f : Eq(f, m)}
<1>1. n \in Nat
    OBVIOUS
<1>2. \E f : f = [k \in 0..n |-> IF k = 0 THEN BeginDisconnect
                               ELSE DisconnectTx(f[k - 1], Last(chain)[Len(Last(chain)) + 1 - k],
                                 undo[chain].txs[Len(Last(chain)) + 1 - k],
                                 Len(chain))]
  <2> HIDE DEF x0, Step, n
  <2>1. 0 \in E
    <3>1. Eq([k \in 0..0 |-> x0], 0)
      OBVIOUS
    <3> QED
      BY <3>1
  <2>2. ASSUME NEW m \in Nat, m \in E
        PROVE  m + 1 \in E
    <3>1. PICK f : Eq(f, m)
      BY <2>2
    <3> DEFINE p == [k \in 0..(m + 1) |-> IF k = m + 1 THEN Step(f[m], m + 1) ELSE f[k]]
    <3>2. ASSUME NEW k \in 0..(m + 1)
          PROVE  p[k] = IF k = 0 THEN x0 ELSE Step(p[k - 1], k)
      <4>1. CASE k = m + 1
        <5>1. k # 0 /\ k - 1 = m /\ m \in 0..(m + 1) /\ m # m + 1
          BY <4>1
        <5>2. p[k - 1] = f[m] /\ p[k] = Step(f[m], k)
          BY <4>1, <5>1
        <5> QED
          BY ONLY <5>1, <5>2
      <4>2. CASE k # m + 1
        <5>1. k \in 0..m /\ p[k] = f[k]
          BY <4>2
        <5>2. k # 0 => k - 1 \in 0..(m + 1) /\ k - 1 # m + 1 /\ p[k - 1] = f[k - 1]
          BY <4>2
        <5>3. f[k] = IF k = 0 THEN x0 ELSE Step(f[k - 1], k)
          BY <3>1, <5>1
        <5> QED
          BY ONLY <5>1, <5>2, <5>3
      <4> QED
        BY <4>1, <4>2
    <3>3. p = [k \in 0..(m + 1) |-> p[k]]
      OBVIOUS
    <3> HIDE DEF p
    <3>4. Eq(p, m + 1)
      BY <3>2, <3>3
    <3> QED
      BY <3>4
  <2>3. n \in E
    <3>1. Nat \subseteq E
      <4> HIDE DEF E
      <4> QED
        BY <2>1, <2>2, NatSetInduction
    <3> QED
      BY <3>1, <1>1
  <2> QED
    BY <2>3 DEF x0, Step, n
<1> DEFINE g == Disconnecting
<1>3. g = [k \in 0..n |-> IF k = 0 THEN BeginDisconnect
                          ELSE DisconnectTx(g[k - 1], Last(chain)[Len(Last(chain)) + 1 - k],
                                 undo[chain].txs[Len(Last(chain)) + 1 - k],
                                 Len(chain))]
    BY <1>2 DEF Disconnecting
<1> HIDE DEF g
<1>4. g[0] = x0 /\ \A k \in 1..n : g[k] = Step(g[k - 1], k)
  <2> HIDE DEF x0, Step, n
  <2>1. g = [k \in 0..n |-> IF k = 0 THEN x0 ELSE Step(g[k - 1], k)]
    BY <1>3 DEF x0, Step, n
  <2>2. 0 \in 0..n /\ \A k \in 1..n : k \in 0..n /\ k # 0
    BY <1>1
  <2> QED
    BY <2>1, <2>2
<1> QED
    BY <1>4 DEF g

-----------------------------------------------------------------------------
(***************************************************************************)
(* Lemmas about chains, and about what they spend and reveal.              *)
(***************************************************************************)

\* What a transaction adds to the outputs spent and the nullifiers revealed.
LEMMA SpentFacts ==
    ASSUME NEW T, NEW tx \in Txids
    PROVE  /\ SpentBy(T \cup {tx}) = SpentBy(T) \cup Range(Inputs[tx])
           /\ RevealedBy(T \cup {tx}) = RevealedBy(T) \cup Spends[tx]
           /\ SpentAt(T, tx, 0) = SpentBy(T)
           /\ SpentAt(T, tx, Len(Inputs[tx])) = SpentBy(T \cup {tx})
<1>1. Inputs[tx] \in Seq(Txids \X Outs)
    BY CoinsChainAssumption
<1>2. SpentBy(T \cup {tx}) = SpentBy(T) \cup Range(Inputs[tx])
    BY DEF SpentBy
<1>3. RevealedBy(T \cup {tx}) = RevealedBy(T) \cup Spends[tx]
    BY DEF RevealedBy
<1>4. SpentAt(T, tx, 0) = SpentBy(T)
    BY DEF SpentAt
<1>5. Range(Inputs[tx]) = {Inputs[tx][k] : k \in 1..Len(Inputs[tx])}
    BY <1>1 DEF Range
<1> QED
    BY <1>2, <1>3, <1>4, <1>5 DEF SpentAt

\* The j-th input of a transaction is one more output spent.
LEMMA SpentStep ==
    ASSUME NEW T, NEW tx \in Txids, NEW j \in Nat, j + 1 <= Len(Inputs[tx])
    PROVE  /\ SpentAt(T, tx, j + 1) = SpentAt(T, tx, j) \cup {Inputs[tx][j + 1]}
           /\ Inputs[tx][j + 1] \in Range(Inputs[tx])
           /\ Inputs[tx][j + 1] \in Txids \X Outs
           /\ \A k \in 1..j : Inputs[tx][k] # Inputs[tx][j + 1]
<1>1. Inputs[tx] \in Seq(Txids \X Outs)
    BY CoinsChainAssumption
<1>2. 1..(j + 1) = 1..j \cup {j + 1}
    OBVIOUS
<1>3. SpentAt(T, tx, j + 1) = SpentAt(T, tx, j) \cup {Inputs[tx][j + 1]}
    BY <1>2 DEF SpentAt
<1>4. j + 1 \in DOMAIN Inputs[tx]
    BY <1>1
<1>5. \A k \in 1..j : k \in DOMAIN Inputs[tx] /\ k # j + 1
    BY <1>1
<1> QED
    BY <1>1, <1>3, <1>4, <1>5, CoinsChainAssumption DEF Range

\* The transactions up to the i-th of a block.
LEMMA UptoFacts ==
    ASSUME NEW ch, NEW block \in Seq(Txids)
    PROVE  /\ Upto(ch, block, 0) = TxsOf(ch)
           /\ Upto(ch, block, Len(block)) = TxsOf(ch) \cup Range(block)
           /\ \A i \in 1..Len(block) :
                 Upto(ch, block, i) = Upto(ch, block, i - 1) \cup {block[i]}
<1>1. Range(block) = {block[k] : k \in 1..Len(block)}
    BY DEF Range
<1>2. \A i \in 1..Len(block) : 1..i = 1..(i - 1) \cup {i}
    OBVIOUS
<1> QED
    BY <1>1, <1>2 DEF Upto

\* A transaction that fits keeps the set free of conflicts.
LEMMA FitsFacts ==
    ASSUME NEW T \in SUBSET Txids, NEW tx \in Txids, NoConflict(T), Fits(T, tx)
    PROVE  NoConflict(T \cup {tx})
<1> DEFINE U == T \cup {tx}
<1>1. ASSUME NEW t \in T
      PROVE  /\ Range(Inputs[t]) \cap Range(Inputs[tx]) = {}
             /\ Spends[t] \cap Spends[tx] = {}
    BY DEF Fits, SpentBy, RevealedBy
<1>2. Inputs[tx] \in Seq(Txids \X Outs)
    BY CoinsChainAssumption
<1>3. Prevs(tx) \subseteq T
    BY <1>2 DEF Fits, Prevs, Range
<1>4. ASSUME NEW t \in U, NEW u \in U, t # u
      PROVE  /\ Range(Inputs[t]) \cap Range(Inputs[u]) = {}
             /\ Spends[t] \cap Spends[u] = {}
  <2>1. CASE t \in T /\ u \in T
    BY <2>1, <1>4 DEF NoConflict
  <2>2. CASE t = tx
    <3>1. u \in T
      BY <2>2, <1>4
    <3> QED
      BY <2>2, <1>1, <3>1
  <2>3. CASE u = tx
    <3>1. t \in T
      BY <2>3, <1>4
    <3> QED
      BY <2>3, <1>1, <3>1
  <2> QED
    BY <2>1, <2>2, <2>3
<1>5. \A t \in U : Prevs(t) \subseteq U
    BY <1>3 DEF NoConflict
<1> QED
    BY <1>4, <1>5 DEF NoConflict

\* The outputs of a transaction that is not in T are not spent by T.
LEMMA NewUnspent ==
    ASSUME NEW T \in SUBSET Txids, NEW tx \in Txids, NoConflict(T), tx \notin T,
           NEW x \in SpentBy(T)
    PROVE  x[1] # tx
<1>1. PICK u \in T : x \in Range(Inputs[u])
    BY DEF SpentBy
<1>2. Inputs[u] \in Seq(Txids \X Outs)
    BY CoinsChainAssumption
<1>3. x[1] \in Prevs(u)
    BY <1>1, <1>2 DEF Range, Prevs
<1> QED
    BY <1>3 DEF NoConflict

\* The last block of a chain, and the chain with one more block.
LEMMA ChainFacts ==
    ASSUME NEW ch, IsChain(ch)
    PROVE  /\ TxsOf(ch) \subseteq Txids
           /\ Len(ch) \in 0..MaxHeight
           /\ \A h \in 1..Len(ch) : ch[h] \in Seq(Txids) /\ h \in Heights
           /\ Len(ch) < MaxHeight =>
                 \A block \in Blocks[Len(ch) + 1] :
                     /\ IsChain(Append(ch, block)) /\ Append(ch, block) # << >>
                     /\ Front(Append(ch, block)) = ch
                     /\ Last(Append(ch, block)) = block
                     /\ block \in Seq(Txids)
                     /\ block # << >>
                     /\ TxsOf(Append(ch, block)) = TxsOf(ch) \cup Range(block)
           /\ ch # << >> => /\ IsChain(Front(ch))
                            /\ ch = Append(Front(ch), Last(ch))
                            /\ Last(ch) \in Blocks[Len(Front(ch)) + 1]
                            /\ Len(Front(ch)) < MaxHeight
                            /\ Len(Front(ch)) + 1 = Len(ch)
<1>1. MaxHeight \in Nat /\ ch \in Seq(Seq(Txids)) /\ Len(ch) <= MaxHeight
    BY NoneAssumption DEF IsChain
<1>2. Len(ch) \in 0..MaxHeight /\ DOMAIN ch = 1..Len(ch)
    BY <1>1
<1>3. \A h \in 1..Len(ch) : ch[h] \in Seq(Txids) /\ h \in Heights
    BY <1>1 DEF Heights
<1>4. TxsOf(ch) \subseteq Txids
    BY <1>2, <1>3 DEF TxsOf, Range
<1>5. ASSUME NEW block \in Blocks[Len(ch) + 1], Len(ch) < MaxHeight
      PROVE  /\ IsChain(Append(ch, block)) /\ Append(ch, block) # << >>
             /\ Front(Append(ch, block)) = ch
             /\ Last(Append(ch, block)) = block
             /\ block \in Seq(Txids)
             /\ block # << >>
             /\ TxsOf(Append(ch, block)) = TxsOf(ch) \cup Range(block)
  <2>1. block \in Seq(Txids) /\ block # << >>
    <3>1. Len(ch) + 1 \in Heights
      BY <1>1, <1>2, <1>5 DEF Heights
    <3> QED
      BY <3>1, <1>5, CoinsChainAssumption
  <2> DEFINE p == Append(ch, block)
  <2>2. /\ p \in Seq(Seq(Txids)) /\ Len(p) = Len(ch) + 1
        /\ DOMAIN p = 1..(Len(ch) + 1)
        /\ p[Len(ch) + 1] = block
        /\ \A h \in 1..Len(ch) : p[h] = ch[h]
    BY <1>1, <2>1
  <2>3. 1..(Len(ch) + 1) = 1..Len(ch) \cup {Len(ch) + 1}
    BY <1>1
  <2>4. Front(p) = ch
    BY <1>1, <2>1, <2>2 DEF Front
  <2>5. Last(p) = block
    BY <2>2 DEF Last
  <2>6. p # << >>
    BY <2>2, <1>1
  <2> HIDE DEF p
  <2>7. IsChain(p)
    <3>1. Len(p) <= MaxHeight
      BY <1>1, <1>2, <1>5, <2>2
    <3>2. \A h \in 1..Len(ch) : p[h] \in Blocks[h]
      BY <2>2 DEF IsChain
    <3>3. \A h \in 1..Len(p) : p[h] \in Blocks[h]
      BY <1>5, <2>2, <2>3, <3>2
    <3> QED
      BY <2>2, <3>1, <3>3 DEF IsChain
  <2>8. TxsOf(p) = TxsOf(ch) \cup Range(block)
    <3>1. {Range(p[h]) : h \in DOMAIN p} =
             {Range(ch[h]) : h \in DOMAIN ch} \cup {Range(block)}
      BY <2>2, <2>3, <1>2
    <3> QED
      BY <3>1 DEF TxsOf
  <2> QED
    BY <2>1, <2>4, <2>5, <2>6, <2>7, <2>8 DEF p
<1>6. ASSUME ch # << >>
      PROVE  /\ IsChain(Front(ch))
             /\ ch = Append(Front(ch), Last(ch))
             /\ Last(ch) \in Blocks[Len(Front(ch)) + 1]
             /\ Len(Front(ch)) < MaxHeight
             /\ Len(Front(ch)) + 1 = Len(ch)
  <2>1. Len(ch) \in Nat /\ Len(ch) >= 1
    BY <1>1, <1>6
  <2> DEFINE f == Front(ch)
  <2>2. /\ f \in Seq(Seq(Txids)) /\ Len(f) = Len(ch) - 1
        /\ \A h \in 1..(Len(ch) - 1) : f[h] = ch[h]
    <3>1. 1 \in Int /\ Len(ch) - 1 \in Int /\ \A h \in 1..(Len(ch) - 1) : ch[h] \in Seq(Txids)
      BY <1>1, <1>3, <2>1
    <3>2. /\ f \in Seq(Seq(Txids))
          /\ Len(f) = IF 1 <= Len(ch) - 1 THEN Len(ch) - 1 - 1 + 1 ELSE 0
          /\ \A h \in 1..(Len(ch) - 1 - 1 + 1) : f[h] = ch[1 + h - 1]
      BY ONLY <3>1, SubSeqProperties DEF Front
    <3>3. \A h \in 1..(Len(ch) - 1) : h \in 1..(Len(ch) - 1 - 1 + 1) /\ 1 + h - 1 = h
      BY <2>1
    <3>4. (1 <= Len(ch) - 1 => Len(ch) - 1 - 1 + 1 = Len(ch) - 1)
          /\ (~ 1 <= Len(ch) - 1 => Len(ch) - 1 = 0)
      BY <2>1
    <3> HIDE DEF f
    <3> QED
      BY <3>2, <3>3, <3>4
  <2>3. Last(ch) = ch[Len(ch)]
    BY DEF Last
  <2> HIDE DEF f
  <2>4. IsChain(f) /\ Last(ch) \in Blocks[Len(f) + 1] /\ Len(f) < MaxHeight
    BY <1>1, <2>1, <2>2, <2>3 DEF IsChain
  <2>5. Last(ch) \in Seq(Txids)
    BY <2>3, <1>3, <2>1
  <2>6. ch = Append(f, Last(ch))
    <3> DEFINE a == Append(f, Last(ch))
    <3>1. a \in Seq(Seq(Txids)) /\ Len(a) = Len(ch)
      BY <2>1, <2>2, <2>5
    <3>2. \A h \in 1..Len(ch) : a[h] = ch[h]
      BY <2>1, <2>2, <2>3, <2>5
    <3> HIDE DEF a
    <3>3. a = ch
      BY ONLY <3>1, <3>2, <1>1, SeqEqual
    <3> QED
      BY <3>3 DEF a
  <2> QED
    BY <2>1, <2>2, <2>4, <2>6 DEF f
<1> QED
    BY <1>2, <1>3, <1>4, <1>5, <1>6


-----------------------------------------------------------------------------
(***************************************************************************)
(* Lemmas about note commitment trees.                                     *)
(***************************************************************************)
\* What a transaction makes of the tree.
Extended(tree, tx) == IF tx \in Appends THEN Append(tree, tx) ELSE tree

\* The tree after each transaction of a block.
LEMMA TreesInStates ==
    ASSUME NEW root \in Seq(Appends), NEW block \in Seq(Txids)
    PROVE  /\ TreesIn(root, block)[0] = root
           /\ \A i \in 0..Len(block) : TreesIn(root, block)[i] \in Seq(Appends)
           /\ \A i \in 1..Len(block) :
                 TreesIn(root, block)[i] = Extended(TreesIn(root, block)[i - 1], block[i])
<1> DEFINE n == Len(block)
           X == Seq(Appends)
           F == [i \in 1..n |-> [t \in X |-> Extended(t, block[i])]]
           f == TreesIn(root, block)
<1>1. n \in Nat
    OBVIOUS
<1>2. F \in [1..n -> [X -> X]]
  <2>1. \A i \in 1..n : \A t \in X : Extended(t, block[i]) \in X
    BY DEF Extended
  <2> QED
    BY <2>1
<1>3. \A i \in 1..n : \A t \in X : F[i][t] = Extended(t, block[i])
    OBVIOUS
<1> HIDE DEF F
<1>4. PICK g : IsFold(n, X, root, F, g)
    BY <1>1, <1>2, FoldExists
<1>5. /\ g \in [0..n -> X] /\ g[0] = root
      /\ \A i \in 1..n : g[i] = Extended(g[i - 1], block[i])
  <2>1. /\ g \in [0..n -> X] /\ g[0] = root
        /\ \A i \in 1..n : g[i] = F[i][g[i - 1]]
    BY <1>4 DEF IsFold
  <2>2. \A i \in 1..n : i - 1 \in 0..n
    BY <1>1
  <2> QED
    BY <1>3, <2>1, <2>2
<1>6. g = [i \in 0..n |-> IF i = 0 THEN root
                          ELSE IF block[i] \in Appends THEN Append(g[i - 1], block[i])
                          ELSE g[i - 1]]
  <2>1. \A i \in 0..n : i = 0 \/ i \in 1..n
    BY <1>1
  <2>2. \A i \in 0..n : g[i] = IF i = 0 THEN root ELSE Extended(g[i - 1], block[i])
    BY <1>5, <2>1
  <2> QED
    BY <1>5, <2>2 DEF Extended
<1>7. f = [i \in 0..n |-> IF i = 0 THEN root
                          ELSE IF block[i] \in Appends THEN Append(f[i - 1], block[i])
                          ELSE f[i - 1]]
  <2>1. \E q : q = [i \in 0..n |-> IF i = 0 THEN root
                                   ELSE IF block[i] \in Appends
                                        THEN Append(q[i - 1], block[i])
                                   ELSE q[i - 1]]
    BY <1>6
  <2> QED
    BY <2>1 DEF TreesIn
<1> HIDE DEF f
<1>8. f[0] = root /\ \A i \in 1..n : f[i] = Extended(f[i - 1], block[i])
  <2>1. 0 \in 0..n /\ \A i \in 1..n : i \in 0..n /\ i # 0
    BY <1>1
  <2> QED
    BY <1>7, <2>1 DEF Extended
<1> DEFINE E == {i \in Nat : i <= n => f[i] \in X}
<1>9. 0 \in E
    BY <1>8
<1>10. ASSUME NEW i \in Nat, i \in E
       PROVE  i + 1 \in E
  <2> SUFFICES ASSUME i + 1 <= n
               PROVE  f[i + 1] \in X
    OBVIOUS
  <2>1. i + 1 \in 1..n /\ (i + 1) - 1 = i /\ i <= n
    BY <1>1
  <2>2. f[i + 1] = Extended(f[i], block[i + 1]) /\ f[i] \in X
    BY <1>8, <1>10, <2>1
  <2> QED
    BY <2>2 DEF Extended
<1>11. \A i \in 0..n : f[i] \in X
  <2>1. Nat \subseteq E
    <3> HIDE DEF E
    <3> QED
      BY <1>9, <1>10, NatSetInduction
  <2> QED
    BY <2>1, <1>1
<1> QED
    BY <1>8, <1>11 DEF f

\* A block leaves the tree as it is or makes it larger.
LEMMA TreesInGrow ==
    ASSUME NEW root \in Seq(Appends), NEW block \in Seq(Txids), NEW tree,
           tree = TreesIn(root, block)[Len(block)]
    PROVE  tree \in Seq(Appends) /\ (tree = root \/ Len(tree) > Len(root))
<1> DEFINE n == Len(block)
           f == TreesIn(root, block)
           E == {i \in Nat : i <= n => (f[i] = root \/ Len(f[i]) > Len(root))}
<1>1. n \in Nat
    OBVIOUS
<1>2. /\ f[0] = root
      /\ \A i \in 0..n : f[i] \in Seq(Appends)
      /\ \A i \in 1..n : f[i] = Extended(f[i - 1], block[i])
    BY TreesInStates
<1> HIDE DEF f
<1>3. 0 \in E
    BY <1>2
<1>4. ASSUME NEW i \in Nat, i \in E
      PROVE  i + 1 \in E
  <2> SUFFICES ASSUME i + 1 <= n
               PROVE  f[i + 1] = root \/ Len(f[i + 1]) > Len(root)
    OBVIOUS
  <2>1. i + 1 \in 1..n /\ (i + 1) - 1 = i /\ i <= n /\ i \in 0..n
    BY <1>1
  <2>2. /\ f[i + 1] = Extended(f[i], block[i + 1]) /\ f[i] \in Seq(Appends)
        /\ (f[i] = root \/ Len(f[i]) > Len(root))
    BY <1>2, <1>4, <2>1
  <2>3. CASE block[i + 1] \in Appends
    <3>1. Len(f[i + 1]) = Len(f[i]) + 1 /\ Len(f[i]) \in Nat /\ Len(root) \in Nat
      BY <2>2, <2>3 DEF Extended
    <3> QED
      BY <2>2, <3>1
  <2>4. CASE block[i + 1] \notin Appends
    BY <2>2, <2>4 DEF Extended
  <2> QED
    BY <2>3, <2>4
<1>5. f[n] = root \/ Len(f[n]) > Len(root)
  <2>1. Nat \subseteq E
    <3> HIDE DEF E
    <3> QED
      BY <1>3, <1>4, NatSetInduction
  <2> QED
    BY <2>1, <1>1
<1>6. f[n] \in Seq(Appends)
    BY <1>1, <1>2
<1> QED
    BY <1>5, <1>6 DEF f

\* No transaction appends to the tree twice, if those of the block are new.
LEMMA TreesInNew ==
    ASSUME NEW ch, NEW root \in Seq(Appends), NEW block \in Seq(Txids),
           IsInjective(root), Range(root) \subseteq TxsOf(ch),
           \A i \in 1..Len(block) : block[i] \notin Upto(ch, block, i - 1),
           NEW tree, tree = TreesIn(root, block)[Len(block)]
    PROVE  IsInjective(tree) /\ Range(tree) \subseteq TxsOf(ch) \cup Range(block)
<1> DEFINE n == Len(block)
           f == TreesIn(root, block)
           U(i) == Upto(ch, block, i)
           E == {i \in Nat : i <= n => IsInjective(f[i]) /\ Range(f[i]) \subseteq U(i)}
<1>1. n \in Nat
    OBVIOUS
<1>2. /\ f[0] = root
      /\ \A i \in 0..n : f[i] \in Seq(Appends)
      /\ \A i \in 1..n : f[i] = Extended(f[i - 1], block[i])
    BY TreesInStates
<1>3. /\ U(0) = TxsOf(ch)
      /\ U(n) = TxsOf(ch) \cup Range(block)
      /\ \A i \in 1..n : U(i) = U(i - 1) \cup {block[i]}
    BY UptoFacts
<1>4. \A i \in 1..n : block[i] \notin U(i - 1)
    OBVIOUS
<1> HIDE DEF f, U
<1>5. 0 \in E
    BY <1>2, <1>3
<1>6. ASSUME NEW i \in Nat, i \in E
      PROVE  i + 1 \in E
  <2> DEFINE tx == block[i + 1]
             a == f[i]
             b == f[i + 1]
             m == Len(a)
  <2> SUFFICES ASSUME i + 1 <= n
               PROVE  IsInjective(b) /\ Range(b) \subseteq U(i + 1)
    OBVIOUS
  <2>1. i + 1 \in 1..n /\ (i + 1) - 1 = i /\ i <= n /\ i \in 0..n
    BY <1>1
  <2>2. /\ b = Extended(a, tx) /\ a \in Seq(Appends)
        /\ IsInjective(a) /\ Range(a) \subseteq U(i)
        /\ U(i + 1) = U(i) \cup {tx} /\ tx \notin U(i)
    BY <1>2, <1>3, <1>4, <1>6, <2>1
  <2> HIDE DEF a, b, tx
  <2>3. CASE tx \in Appends
    <3>1. b = Append(a, tx)
      BY <2>2, <2>3 DEF Extended
    <3>2. /\ m \in Nat /\ DOMAIN a = 1..m /\ DOMAIN b = 1..(m + 1)
          /\ b[m + 1] = tx /\ \A j \in 1..m : b[j] = a[j]
      BY <2>2, <2>3, <3>1
    <3>3. \A j \in 1..m : a[j] \in U(i) /\ a[j] # tx
      BY <2>2, <3>2 DEF Range
    <3> HIDE DEF m
    <3>4. \A j \in 1..(m + 1) : j \in 1..m \/ j = m + 1
      BY <3>2
    <3>5. IsInjective(b)
      <4> SUFFICES ASSUME NEW j \in 1..(m + 1), NEW k \in 1..(m + 1), b[j] = b[k]
                   PROVE  j = k
        BY <3>2 DEF IsInjective
      <4>1. CASE j \in 1..m /\ k \in 1..m
        BY <2>2, <3>2, <4>1 DEF IsInjective
      <4>2. CASE j = m + 1 /\ k \in 1..m
        BY <3>2, <3>3, <4>2
      <4>3. CASE k = m + 1 /\ j \in 1..m
        BY <3>2, <3>3, <4>3
      <4> QED
        BY <3>4, <4>1, <4>2, <4>3
    <3>6. Range(b) \subseteq U(i + 1)
      BY <2>2, <3>2, <3>3, <3>4 DEF Range
    <3> QED
      BY <3>5, <3>6
  <2>4. CASE tx \notin Appends
    BY <2>2, <2>4 DEF Extended
  <2> QED
    BY <2>3, <2>4
<1>7. IsInjective(f[n]) /\ Range(f[n]) \subseteq U(n)
  <2>1. Nat \subseteq E
    <3> HIDE DEF E
    <3> QED
      BY <1>5, <1>6, NatSetInduction
  <2> QED
    BY <2>1, <1>1
<1> QED
    BY <1>3, <1>7 DEF f

\* A tree to which no transaction appends twice has a key among the marks.
LEMMA InjectiveRoot ==
    ASSUME NEW r \in Seq(Appends), IsInjective(r)
    PROVE  r \in Roots
<1> DEFINE n == Len(r)
<1>1. n \in Nat /\ r \in [1..n -> Appends] /\ IsFiniteSet(Appends)
    BY CoinsChainAssumption
<1>2. r \in Injection(1..n, Appends)
    BY <1>1 DEF Injection
<1>3. Cardinality(1..n) <= Cardinality(Appends)
    BY <1>1, <1>2, FS_Injection
<1>4. Cardinality(1..n) = n
  <2>1. Cardinality(1..n) = IF 1 > n THEN 0 ELSE n - 1 + 1
    BY <1>1, FS_Interval
  <2> QED
    BY <1>1, <2>1
<1>5. Cardinality(Appends) \in Nat
    BY <1>1, FS_CardinalityType
<1>6. n \in 0..Cardinality(Appends)
    BY <1>1, <1>3, <1>4, <1>5
<1> QED
    BY <1>1, <1>6 DEF Roots

\* The anchors among the marks are trees, and none is a nullifier.
LEMMA RootsFacts ==
    /\ Seq(Appends) \subseteq Anchors
    /\ \A r \in Roots : r \in Seq(Appends) /\ IsInjective(r) /\ r \notin Nullifiers
    /\ EmptyRoot \in Roots
<1>1. Seq(Appends) \subseteq Anchors
    BY CoinsChainAssumption DEF Anchors
<1>2. ASSUME NEW r \in Roots
      PROVE  r \in Seq(Appends) /\ IsInjective(r)
  <2>1. PICK n \in 0..Cardinality(Appends) : r \in [1..n -> Appends]
    BY DEF Roots
  <2>2. n \in Nat
    OBVIOUS
  <2> QED
    BY <2>1, <2>2 DEF Roots
<1>3. \A r \in Roots : r \notin Nullifiers
    BY <1>1, <1>2, CoinsChainAssumption DEF Anchors
<1>4. EmptyRoot \in Roots
  <2>1. EmptyRoot \in Seq(Appends) /\ IsInjective(EmptyRoot)
    BY DEF EmptyRoot, IsInjective
  <2> QED
    BY <2>1, InjectiveRoot
<1> QED
    BY <1>1, <1>2, <1>3, <1>4

\* The tree after each block of a chain.
LEMMA RootsAtStates ==
    ASSUME NEW ch \in Seq(Seq(Txids))
    PROVE  /\ RootsAt(ch)[0] = EmptyRoot
           /\ \A h \in 0..Len(ch) : RootsAt(ch)[h] \in Seq(Appends)
           /\ \A h \in 1..Len(ch) :
                 RootsAt(ch)[h] = TreesIn(RootsAt(ch)[h - 1], ch[h])[Len(ch[h])]
<1> DEFINE n == Len(ch)
           X == Seq(Appends)
           G(t, h) == TreesIn(t, ch[h])[Len(ch[h])]
           F == [h \in 1..n |-> [t \in X |-> G(t, h)]]
           f == RootsAt(ch)
<1>1. n \in Nat /\ EmptyRoot \in X
    BY DEF EmptyRoot
<1>2. \A h \in 1..n : \A t \in X : G(t, h) \in X
  <2>1. \A h \in 1..n : ch[h] \in Seq(Txids)
    OBVIOUS
  <2> QED
    BY <2>1, TreesInGrow
<1> HIDE DEF G
<1>3. F \in [1..n -> [X -> X]]
    BY <1>2
<1>4. \A h \in 1..n : \A t \in X : F[h][t] = G(t, h)
    OBVIOUS
<1> HIDE DEF F
<1>5. PICK g : IsFold(n, X, EmptyRoot, F, g)
    BY <1>1, <1>3, FoldExists
<1>6. /\ g \in [0..n -> X] /\ g[0] = EmptyRoot
      /\ \A h \in 1..n : g[h] = G(g[h - 1], h)
  <2>1. /\ g \in [0..n -> X] /\ g[0] = EmptyRoot
        /\ \A h \in 1..n : g[h] = F[h][g[h - 1]]
    BY <1>5 DEF IsFold
  <2>2. \A h \in 1..n : h - 1 \in 0..n
    BY <1>1
  <2> QED
    BY <1>4, <2>1, <2>2
<1>7. g = [h \in 0..n |-> IF h = 0 THEN EmptyRoot ELSE G(g[h - 1], h)]
  <2>1. \A h \in 0..n : h = 0 \/ h \in 1..n
    BY <1>1
  <2>2. \A h \in 0..n : g[h] = IF h = 0 THEN EmptyRoot ELSE G(g[h - 1], h)
    BY <1>6, <2>1
  <2> QED
    BY <1>6, <2>2
<1>8. f = [h \in 0..n |-> IF h = 0 THEN EmptyRoot ELSE TreesIn(f[h - 1], ch[h])[Len(ch[h])]]
  <2>1. \E q : q = [h \in 0..n |-> IF h = 0 THEN EmptyRoot
                                   ELSE TreesIn(q[h - 1], ch[h])[Len(ch[h])]]
    BY <1>7 DEF G
  <2> QED
    BY <2>1 DEF RootsAt
<1> HIDE DEF f
<1>9. f[0] = EmptyRoot /\ \A h \in 1..n : f[h] = G(f[h - 1], h)
  <2>1. 0 \in 0..n /\ \A h \in 1..n : h \in 0..n /\ h # 0
    BY <1>1
  <2> QED
    BY <1>8, <2>1 DEF G
<1> DEFINE E == {h \in Nat : h <= n => f[h] \in X}
<1>10. 0 \in E
    BY <1>1, <1>9
<1>11. ASSUME NEW h \in Nat, h \in E
       PROVE  h + 1 \in E
  <2> SUFFICES ASSUME h + 1 <= n
               PROVE  f[h + 1] \in X
    OBVIOUS
  <2>1. h + 1 \in 1..n /\ (h + 1) - 1 = h /\ h <= n
    BY <1>1
  <2> QED
    BY <1>2, <1>9, <1>11, <2>1
<1>12. \A h \in 0..n : f[h] \in X
  <2>1. Nat \subseteq E
    <3> HIDE DEF E
    <3> QED
      BY <1>10, <1>11, NatSetInduction
  <2> QED
    BY <2>1, <1>1
<1> QED
    BY <1>9, <1>12 DEF f, G

\* The tree of a chain is none of the earlier ones, or the one before the last
\* block.
LEMMA RootsGrow ==
    ASSUME NEW ch \in Seq(Seq(Txids))
    PROVE  /\ RootOf(ch) \in Seq(Appends) /\ RootOf(ch) \in RootsOf(ch)
           /\ \A r \in RootsOf(ch) : r \in Seq(Appends) /\ Len(r) <= Len(RootOf(ch))
<1> DEFINE n == Len(ch)
           f == RootsAt(ch)
           E == {h \in Nat : h <= n => \A g \in 0..h : Len(f[g]) <= Len(f[h])}
<1>1. n \in Nat /\ \A h \in 1..n : ch[h] \in Seq(Txids)
    OBVIOUS
<1>2. /\ f[0] = EmptyRoot
      /\ \A h \in 0..n : f[h] \in Seq(Appends)
      /\ \A h \in 1..n : f[h] = TreesIn(f[h - 1], ch[h])[Len(ch[h])]
    BY RootsAtStates
<1>3. RootOf(ch) = f[n] /\ RootsOf(ch) = {f[h] : h \in 0..n}
    BY DEF RootOf, RootsOf
<1> HIDE DEF f
<1>4. \A h \in 0..n : Len(f[h]) \in Nat
    BY <1>2
<1>5. 0 \in E
  <2>1. 0 \in 0..n /\ \A g \in 0..0 : g = 0
    BY <1>1
  <2> QED
    BY <1>4, <2>1
<1>6. ASSUME NEW h \in Nat, h \in E
      PROVE  h + 1 \in E
  <2> SUFFICES ASSUME h + 1 <= n, NEW g \in 0..(h + 1)
               PROVE  Len(f[g]) <= Len(f[h + 1])
    OBVIOUS
  <2>1. /\ h + 1 \in 1..n /\ (h + 1) - 1 = h /\ h <= n /\ h \in 0..n /\ h + 1 \in 0..n
        /\ g \in 0..h \/ g = h + 1
        /\ g \in 0..n
    BY <1>1
  <2>2. f[h + 1] = TreesIn(f[h], ch[h + 1])[Len(ch[h + 1])] /\ f[h] \in Seq(Appends)
    BY <1>2, <2>1
  <2>3. f[h + 1] = f[h] \/ Len(f[h + 1]) > Len(f[h])
    BY <1>1, <2>1, <2>2, TreesInGrow
  <2>4. Len(f[h + 1]) \in Nat /\ Len(f[h]) \in Nat /\ Len(f[g]) \in Nat
    BY <1>4, <2>1
  <2>5. CASE g \in 0..h
    <3>1. Len(f[g]) <= Len(f[h])
      BY <1>6, <2>1, <2>5
    <3>2. Len(f[h]) <= Len(f[h + 1])
      <4>1. CASE f[h + 1] = f[h]
        BY ONLY <2>4, <4>1
      <4>2. CASE Len(f[h + 1]) > Len(f[h])
        BY ONLY <2>4, <4>2
      <4> QED
        BY <2>3, <4>1, <4>2
    <3> QED
      BY ONLY <2>4, <3>1, <3>2
  <2>6. CASE g = h + 1
    BY <2>4, <2>6
  <2> QED
    BY <2>1, <2>5, <2>6
<1>7. \A g \in 0..n : Len(f[g]) <= Len(f[n])
  <2>1. Nat \subseteq E
    <3> HIDE DEF E
    <3> QED
      BY <1>5, <1>6, NatSetInduction
  <2> QED
    BY <2>1, <1>1
<1>8. n \in 0..n
    BY <1>1
<1> QED
    BY <1>2, <1>3, <1>7, <1>8

\* The trees of a chain with one more block: one more tree, which the chain did
\* not have unless the block left it as it was.
LEMMA RootsAppend ==
    ASSUME NEW ch \in Seq(Seq(Txids)), NEW block \in Seq(Txids), NEW p,
           p = Append(ch, block)
    PROVE  /\ RootOf(p) = TreesIn(RootOf(ch), block)[Len(block)]
           /\ RootsOf(p) = RootsOf(ch) \cup {RootOf(p)}
           /\ RootOf(p) # RootOf(ch) => RootOf(p) \notin RootsOf(ch)
<1> DEFINE n == Len(ch)
           f == RootsAt(ch)
           q == RootsAt(p)
           E == {h \in Nat : h <= n => q[h] = f[h]}
<1>1. /\ n \in Nat /\ p \in Seq(Seq(Txids)) /\ Len(p) = n + 1 /\ p[n + 1] = block
      /\ \A h \in 1..n : p[h] = ch[h]
    OBVIOUS
<1>2. /\ f[0] = EmptyRoot
      /\ \A h \in 1..n : f[h] = TreesIn(f[h - 1], ch[h])[Len(ch[h])]
    BY RootsAtStates
<1>3. /\ q[0] = EmptyRoot
      /\ \A h \in 1..(n + 1) : q[h] = TreesIn(q[h - 1], p[h])[Len(p[h])]
    BY <1>1, RootsAtStates
<1>4. /\ RootOf(ch) = f[n] /\ RootsOf(ch) = {f[h] : h \in 0..n}
      /\ RootOf(p) = q[n + 1] /\ RootsOf(p) = {q[h] : h \in 0..(n + 1)}
    BY <1>1 DEF RootOf, RootsOf
<1> HIDE DEF f, q
<1>5. 0 \in E
    BY <1>2, <1>3
<1>6. ASSUME NEW h \in Nat, h \in E
      PROVE  h + 1 \in E
  <2> SUFFICES ASSUME h + 1 <= n
               PROVE  q[h + 1] = f[h + 1]
    OBVIOUS
  <2>1. h + 1 \in 1..n /\ h + 1 \in 1..(n + 1) /\ (h + 1) - 1 = h /\ h <= n
    BY <1>1
  <2>2. q[h] = f[h] /\ p[h + 1] = ch[h + 1]
    BY <1>1, <1>6, <2>1
  <2>3. q[h + 1] = TreesIn(q[h], p[h + 1])[Len(p[h + 1])]
    BY <1>3, <2>1
  <2>4. f[h + 1] = TreesIn(f[h], ch[h + 1])[Len(ch[h + 1])]
    BY <1>2, <2>1
  <2> QED
    BY ONLY <2>2, <2>3, <2>4
<1>7. \A h \in 0..n : q[h] = f[h]
  <2>1. Nat \subseteq E
    <3> HIDE DEF E
    <3> QED
      BY <1>5, <1>6, NatSetInduction
  <2> QED
    BY <2>1, <1>1
<1>8. RootOf(p) = TreesIn(RootOf(ch), block)[Len(block)]
  <2>1. n + 1 \in 1..(n + 1) /\ (n + 1) - 1 = n /\ n \in 0..n
    BY <1>1
  <2>2. q[n + 1] = TreesIn(q[n], p[n + 1])[Len(p[n + 1])]
    BY <1>3, <2>1
  <2>3. q[n] = f[n]
    BY <1>7, <2>1
  <2> QED
    BY <1>1, <1>4, <2>2, <2>3
<1>9. RootsOf(p) = RootsOf(ch) \cup {RootOf(p)}
  <2>1. 0..(n + 1) = 0..n \cup {n + 1}
    BY <1>1
  <2>2. {q[h] : h \in 0..(n + 1)} = {q[h] : h \in 0..n} \cup {q[n + 1]}
    BY <2>1
  <2>3. {q[h] : h \in 0..n} = {f[h] : h \in 0..n}
    BY <1>7
  <2> QED
    BY <1>4, <2>2, <2>3
<1>10. RootOf(p) # RootOf(ch) => RootOf(p) \notin RootsOf(ch)
  <2>1. /\ RootOf(ch) \in Seq(Appends)
        /\ \A r \in RootsOf(ch) : r \in Seq(Appends) /\ Len(r) <= Len(RootOf(ch))
    BY RootsGrow
  <2>2. /\ RootOf(p) \in Seq(Appends)
        /\ RootOf(p) = RootOf(ch) \/ Len(RootOf(p)) > Len(RootOf(ch))
    BY <1>8, <2>1, TreesInGrow
  <2> QED
    BY <2>1, <2>2
<1> QED
    BY <1>8, <1>9, <1>10

\* The empty chain has the empty tree.
LEMMA RootsEmpty ==
    RootOf(<< >>) = EmptyRoot /\ RootsOf(<< >>) = {EmptyRoot}
<1>1. << >> \in Seq(Seq(Txids)) /\ Len(<< >>) = 0
    OBVIOUS
<1>2. RootsAt(<< >>)[0] = EmptyRoot
    BY <1>1, RootsAtStates
<1>3. 0..0 = {0}
    OBVIOUS
<1> QED
    BY <1>1, <1>2, <1>3 DEF RootOf, RootsOf

\* The tree of a block whose transactions are new has a key among the marks.
LEMMA BlockRoot ==
    ASSUME NEW ch, IsChain(ch), Len(ch) < MaxHeight,
           NEW block \in Blocks[Len(ch) + 1], NEW txs, BlockOK(ch, block, txs),
           RootOf(ch) \in Roots, Range(RootOf(ch)) \subseteq TxsOf(ch),
           NEW p, p = Append(ch, block)
    PROVE  RootOf(p) \in Roots /\ Range(RootOf(p)) \subseteq TxsOf(p)
<1>1. /\ ch \in Seq(Seq(Txids)) /\ block \in Seq(Txids)
      /\ TxsOf(p) = TxsOf(ch) \cup Range(block)
    BY ChainFacts DEF IsChain
<1>2. RootOf(p) = TreesIn(RootOf(ch), block)[Len(block)]
    BY <1>1, RootsAppend
<1>3. RootOf(ch) \in Seq(Appends) /\ IsInjective(RootOf(ch))
    BY RootsFacts
<1>4. \A i \in 1..Len(block) : block[i] \notin Upto(ch, block, i - 1)
    BY DEF BlockOK, Fits
<1>5. IsInjective(RootOf(p)) /\ Range(RootOf(p)) \subseteq TxsOf(p)
    BY <1>1, <1>2, <1>3, <1>4, TreesInNew
<1>6. RootOf(p) \in Seq(Appends)
    BY <1>1, <1>2, <1>3, TreesInGrow
<1> QED
    BY <1>5, <1>6, InjectiveRoot
\* What a view shows of t when the transactions of T are applied to ch, or a
\* block on it, and the outputs in X are spent.
Shown(ch, T, X, t) ==
    IF t \in T THEN CoinsLeft(t, X, HeightOn(ch, t)) ELSE Cleared

\* Heights are within their bounds and never 0, which means "none" in undo data.
LEMMA HeightOnFacts ==
    ASSUME NEW ch, IsChain(ch), Len(ch) < MaxHeight, NEW t
    PROVE  HeightOn(ch, t) \in 1..MaxHeight
<1>1. MaxHeight \in Nat /\ Len(ch) \in Nat /\ DOMAIN ch = 1..Len(ch)
    BY NoneAssumption DEF IsChain
<1>2. CASE t \in TxsOf(ch)
  <2> DEFINE S == {h \in DOMAIN ch : t \in Range(ch[h])}
  <2>1. \E h : h \in S
    BY <1>2 DEF TxsOf
  <2>2. HeightIn(ch, t) = CHOOSE h \in S : TRUE
    BY DEF HeightIn
  <2> HIDE DEF S
  <2>3. (CHOOSE h \in S : TRUE) \in S
    BY <2>1
  <2>4. HeightIn(ch, t) \in DOMAIN ch
    BY <2>2, <2>3 DEF S
  <2> QED
    BY <1>1, <1>2, <2>4 DEF HeightOn
<1>3. CASE t \notin TxsOf(ch)
    BY <1>1, <1>3 DEF HeightOn
<1> QED
    BY <1>2, <1>3

\* Coins that are left are coins, and stand for their class.
LEMMA CoinsLeftFacts ==
    ASSUME NEW t \in Txids, NEW X, NEW h \in 0..MaxHeight
    PROVE  /\ CoinsLeft(t, X, h) \in Coins
           /\ Canonical(CoinsLeft(t, X, h)) = CoinsLeft(t, X, h)
           /\ [outs |-> Unspent(t, X), nHeight |-> h] \in Coins
           /\ CoinsLeft(t, X, h).outs = Unspent(t, X)
           /\ Unspent(t, X) # {} => CoinsLeft(t, X, h).nHeight = h
<1>1. [outs |-> Unspent(t, X), nHeight |-> h] \in Coins
    BY CoinsChainAssumption DEF Coins, Unspent
<1>2. /\ CoinsLeft(t, X, h) \in Coins
      /\ Canonical(CoinsLeft(t, X, h)) = CoinsLeft(t, X, h)
    BY <1>1, CanonicalFacts DEF CoinsLeft
<1> QED
    BY <1>1, <1>2 DEF CoinsLeft, Canonical, IsPruned, Cleared

\* The coins of a chain, and of a chain with one more block.
LEMMA UtxoFacts ==
    ASSUME NEW ch, IsChain(ch), NEW t \in Txids
    PROVE  /\ UtxoOf(ch, t) = Shown(ch, TxsOf(ch), SpentBy(TxsOf(ch)), t)
           /\ Len(ch) < MaxHeight =>
                 \A block \in Blocks[Len(ch) + 1] :
                    LET T == TxsOf(ch) \cup Range(block)
                    IN Range(block) \cap TxsOf(ch) = {} =>
                          UtxoOf(Append(ch, block), t) = Shown(ch, T, SpentBy(T), t)
<1>1. UtxoOf(ch, t) = Shown(ch, TxsOf(ch), SpentBy(TxsOf(ch)), t)
    BY DEF UtxoOf, Shown, HeightOn
<1>2. ASSUME Len(ch) < MaxHeight, NEW block \in Blocks[Len(ch) + 1],
             Range(block) \cap TxsOf(ch) = {}
      PROVE  UtxoOf(Append(ch, block), t) =
                Shown(ch, TxsOf(ch) \cup Range(block),
                      SpentBy(TxsOf(ch) \cup Range(block)), t)
  <2> DEFINE p == Append(ch, block)
             T == TxsOf(ch) \cup Range(block)
             S == {h \in DOMAIN p : t \in Range(p[h])}
             S0 == {h \in DOMAIN ch : t \in Range(ch[h])}
  <2>1. TxsOf(p) = T /\ block \in Seq(Txids)
    BY <1>2, ChainFacts
  <2>2. ch \in Seq(Seq(Txids)) /\ Len(ch) \in Nat
    BY DEF IsChain
  <2>3. /\ DOMAIN p = DOMAIN ch \cup {Len(ch) + 1}
        /\ Len(ch) + 1 \notin DOMAIN ch
        /\ p[Len(ch) + 1] = block
        /\ \A h \in DOMAIN ch : p[h] = ch[h]
    BY <2>1, <2>2
  <2>4. HeightIn(p, t) = (CHOOSE h \in S : TRUE) /\ HeightIn(ch, t) = (CHOOSE h \in S0 : TRUE)
    BY DEF HeightIn
  <2> HIDE DEF p
  <2>5. CASE t \in TxsOf(ch)
    <3>1. S = S0
      BY <1>2, <2>3, <2>5
    <3>2. HeightIn(p, t) = HeightOn(ch, t)
      BY <2>4, <2>5, <3>1 DEF HeightOn
    <3> QED
      BY <2>1, <2>5, <3>2 DEF UtxoOf, Shown, p
  <2>6. CASE t \in Range(block)
    <3>1. t \notin TxsOf(ch)
      BY <1>2, <2>6
    <3>2. S0 = {}
      BY <3>1 DEF TxsOf
    <3>3. S = {Len(ch) + 1}
      BY <2>3, <2>6, <3>2
    <3>4. (CHOOSE h \in {Len(ch) + 1} : TRUE) = Len(ch) + 1
      <4>1. \A x : (CHOOSE h \in {x} : TRUE) = x
        OBVIOUS
      <4> QED
        BY <4>1
    <3>5. HeightIn(p, t) = HeightOn(ch, t)
      BY <2>4, <3>1, <3>3, <3>4 DEF HeightOn
    <3> QED
      BY <2>1, <2>6, <3>5 DEF UtxoOf, Shown, p
  <2>7. CASE t \notin T
    BY <2>1, <2>7 DEF UtxoOf, Shown, p
  <2> QED
    BY <2>5, <2>6, <2>7
<1> QED
    BY <1>1, <1>2

-----------------------------------------------------------------------------
(***************************************************************************)
(* Lemmas about the handlers' states: what an operation does to the view,  *)
(* and that it leaves what pcoinsTip and the database show alone.          *)
(***************************************************************************)
Fields == {"coins", "marks", "hash", "history", "undo", "tree", "valid", "bad"}

\* s holds the cells of a view on pcoinsTip as it is.
ViewOK(s) ==
    /\ DOMAIN s = Fields
    /\ DOMAIN s.coins = Txids
    /\ \A t \in Txids : /\ CellOK(s.coins[t])
                        /\ s.coins[t].db = coins[t].db
                        /\ TipCoins(s.coins[t]) = TipCoins(coins[t])
    /\ DOMAIN s.marks = DOMAIN marks
    /\ \A k \in DOMAIN marks : /\ MarkOK(s.marks[k])
                               /\ s.marks[k].db = marks[k].db
                               /\ TipHas(s.marks[k]) = TipHas(marks[k])

\* r shows what s shows, and has the same hashes, tree and undo data.
SameView(s, r) ==
    /\ \A t \in Txids : ViewCoins(r.coins[t]) = ViewCoins(s.coins[t])
    /\ \A k \in DOMAIN marks : ViewHas(r.marks[k]) = ViewHas(s.marks[k])
    /\ r.hash = s.hash /\ r.tree = s.tree /\ r.undo = s.undo /\ r.bad = s.bad

\* AccessCoins does not show.
LEMMA FetchAllView ==
    ASSUME NEW s, ViewOK(s), NEW S
    PROVE  /\ ViewOK(FetchAll(s, S)) /\ SameView(s, FetchAll(s, S))
           /\ FetchAll(s, S).valid = s.valid
<1> DEFINE r == FetchAll(s, S)
<1>1. /\ DOMAIN r = Fields /\ r.marks = s.marks /\ r.hash = s.hash
      /\ r.tree = s.tree /\ r.undo = s.undo /\ r.bad = s.bad /\ r.valid = s.valid
      /\ r.coins = [t \in Txids |-> IF t \in S THEN FetchCoins(s.coins[t])
                                    ELSE s.coins[t]]
    BY DEF ViewOK, FetchAll, Fields
<1> HIDE DEF r
<1>2. ASSUME NEW t \in Txids
      PROVE  CellOK(r.coins[t]) /\ Same(s.coins[t], r.coins[t])
  <2>1. CellOK(s.coins[t])
    BY DEF ViewOK
  <2>2. CellOK(FetchCoins(s.coins[t])) /\ Same(s.coins[t], FetchCoins(s.coins[t]))
    BY <2>1, FetchCell
  <2>3. r.coins[t] = FetchCoins(s.coins[t]) \/ r.coins[t] = s.coins[t]
    BY <1>1
  <2> QED
    BY <2>1, <2>2, <2>3 DEF Same
<1>3. ViewOK(r)
    BY <1>1, <1>2 DEF ViewOK, Same
<1>4. SameView(s, r)
    BY <1>1, <1>2 DEF SameView, Same
<1> QED
    BY <1>1, <1>3, <1>4 DEF r

\* The result of a check is stored without touching the views.
LEMMA ValidView ==
    ASSUME NEW s, ViewOK(s), NEW v
    PROVE  /\ ViewOK([s EXCEPT !.valid = v]) /\ SameView(s, [s EXCEPT !.valid = v])
           /\ [s EXCEPT !.valid = v].valid = v
<1> DEFINE r == [s EXCEPT !.valid = v]
<1>1. /\ DOMAIN r = Fields /\ r.coins = s.coins /\ r.marks = s.marks
      /\ r.hash = s.hash /\ r.tree = s.tree /\ r.undo = s.undo /\ r.bad = s.bad /\ r.valid = v
    BY DEF ViewOK, Fields
<1> HIDE DEF r
<1>2. ViewOK(r) /\ SameView(s, r)
    BY <1>1 DEF ViewOK, SameView
<1> QED
    BY <1>1, <1>2 DEF r

\* Neither does ConnectBlock's check for transactions with unspent outputs.
LEMMA CheckDuplicatesView ==
    ASSUME NEW s, ViewOK(s), NEW block
    PROVE  /\ ViewOK(CheckDuplicates(s, block)) /\ SameView(s, CheckDuplicates(s, block))
<1> DEFINE r == FetchAll(s, Range(block))
           v == r.valid /\ \A t \in Range(block) : IsPruned(ViewCoins(r.coins[t]))
<1>1. ViewOK(r) /\ SameView(s, r)
    BY FetchAllView
<1>2. CheckDuplicates(s, block) = [r EXCEPT !.valid = v]
    BY DEF CheckDuplicates
<1> HIDE DEF r, v
<1>3. ViewOK([r EXCEPT !.valid = v]) /\ SameView(r, [r EXCEPT !.valid = v])
    BY <1>1, ValidView
<1> QED
    BY <1>1, <1>2, <1>3 DEF SameView

\* HaveInputs finds every output that the transaction spends unspent.
LEMMA HaveInputsView ==
    ASSUME NEW s, ViewOK(s), NEW tx \in Txids
    PROVE  /\ ViewOK(HaveInputs(s, tx)) /\ SameView(s, HaveInputs(s, tx))
           /\ HaveInputs(s, tx).valid =>
                 /\ s.valid
                 /\ \A in \in Range(Inputs[tx]) :
                       in[2] \in ViewCoins(s.coins[in[1]]).outs
<1> DEFINE r == FetchAll(s, Prevs(tx))
           v == r.valid /\ \A j \in DOMAIN Inputs[tx] :
                    Inputs[tx][j][2] \in ViewCoins(r.coins[Inputs[tx][j][1]]).outs
<1>1. ViewOK(r) /\ SameView(s, r) /\ r.valid = s.valid
    BY FetchAllView
<1>2. HaveInputs(s, tx) = [r EXCEPT !.valid = v]
    BY DEF HaveInputs
<1>3. Inputs[tx] \in Seq(Txids \X Outs)
    BY CoinsChainAssumption
<1>4. ASSUME v, NEW in \in Range(Inputs[tx])
      PROVE  in[2] \in ViewCoins(s.coins[in[1]]).outs
  <2>1. PICK j \in DOMAIN Inputs[tx] : in = Inputs[tx][j]
    BY DEF Range
  <2>2. in[1] \in Txids
    BY <1>3, <2>1
  <2>3. in[2] \in ViewCoins(r.coins[in[1]]).outs
    BY <1>4, <2>1
  <2>4. ViewCoins(r.coins[in[1]]) = ViewCoins(s.coins[in[1]])
    BY <1>1, <2>2 DEF SameView
  <2> QED
    BY <2>3, <2>4
<1>5. v => s.valid
    BY <1>1
<1> HIDE DEF r, v
<1>6. /\ ViewOK([r EXCEPT !.valid = v]) /\ SameView(r, [r EXCEPT !.valid = v])
      /\ [r EXCEPT !.valid = v].valid = v
    BY <1>1, ValidView
<1> QED
    BY <1>1, <1>2, <1>4, <1>5, <1>6 DEF SameView

\* HaveShieldedRequirements finds no nullifier of the transaction revealed.
LEMMA HaveShieldedView ==
    ASSUME NEW s, ViewOK(s), NEW tx \in Txids
    PROVE  /\ ViewOK(HaveShieldedRequirements(s, tx))
           /\ SameView(s, HaveShieldedRequirements(s, tx))
           /\ HaveShieldedRequirements(s, tx).valid =>
                 /\ s.valid
                 /\ \A n \in Spends[tx] : ~ ViewHas(s.marks[n])
<1> DEFINE r == HaveShieldedRequirements(s, tx)
           v == /\ s.valid
                /\ \A n \in Spends[tx] : ~ ViewHas(s.marks[n])
                /\ AnchorOf[tx] # None => ViewHas(s.marks[AnchorOf[tx]])
<1>1. /\ DOMAIN r = Fields /\ r.coins = s.coins /\ r.hash = s.hash
      /\ r.tree = s.tree /\ r.undo = s.undo /\ r.bad = s.bad /\ r.valid = v
      /\ r.marks = [k \in DOMAIN s.marks |->
                      IF k \in Spends[tx] THEN GetNullifier(s.marks[k])
                      ELSE IF k = AnchorOf[tx] THEN GetAnchorAt(s.marks[k])
                      ELSE s.marks[k]]
    BY DEF ViewOK, HaveShieldedRequirements, Fields
<1>2. v => /\ s.valid
           /\ \A n \in Spends[tx] : ~ ViewHas(s.marks[n])
    OBVIOUS
<1> HIDE DEF r, v
<1>3. ASSUME NEW k \in DOMAIN marks
      PROVE  MarkOK(r.marks[k]) /\ SameMark(s.marks[k], r.marks[k])
  <2>1. MarkOK(s.marks[k]) /\ DOMAIN s.marks = DOMAIN marks
    BY DEF ViewOK
  <2>2. /\ MarkOK(GetNullifier(s.marks[k])) /\ SameMark(s.marks[k], GetNullifier(s.marks[k]))
        /\ MarkOK(GetAnchorAt(s.marks[k])) /\ SameMark(s.marks[k], GetAnchorAt(s.marks[k]))
    BY <2>1, ReadMark
  <2>3. \/ r.marks[k] = GetNullifier(s.marks[k])
        \/ r.marks[k] = GetAnchorAt(s.marks[k])
        \/ r.marks[k] = s.marks[k]
    BY <1>1, <2>1
  <2> QED
    BY <2>1, <2>2, <2>3 DEF SameMark
<1>4. ViewOK(r)
    BY <1>1, <1>3 DEF ViewOK, SameMark
<1>5. SameView(s, r)
    BY <1>1, <1>3 DEF SameView, SameMark
<1> QED
    BY <1>1, <1>2, <1>4, <1>5 DEF r

\* s shows the coins of T, of which the outputs in X are spent.
ShowsCoins(s, ch, T, X) ==
    \A t \in Txids : ViewCoins(s.coins[t]) = Shown(ch, T, X, t)

\* s shows the nullifiers in R as revealed.
ShowsMarks(s, R) == \A n \in Nullifiers : ViewHas(s.marks[n]) <=> n \in R

\* s shows the anchors of ch.
ShowsAnchors(s, ch) == \A k \in Roots : ViewHas(s.marks[k]) <=> k \in RootsOf(ch)

\* r shows the anchors that s shows.
SameAnchors(s, r) == \A k \in Roots : ViewHas(r.marks[k]) = ViewHas(s.marks[k])

\* No assertion failed and nothing was unclean so far, or on the way from s to r.
Clean(s) == s.bad = FALSE
StaysClean(s, r) == s.bad = FALSE => r.bad = FALSE

\* r and s have the same marks, hashes, tree and validity.
SameRest(s, r) ==
    /\ r.marks = s.marks /\ r.hash = s.hash
    /\ r.tree = s.tree /\ r.valid = s.valid
    /\ StaysClean(s, r)

\* The undo data v is u with one more record.
Grown(u, e, v) == v = Append(u, e)

\* What ModifyCoins hands out is the coin that the view shows.
LEMMA ModifyValue ==
    ASSUME NEW c, CellOK(c)
    PROVE  /\ ModifyCoins(c).view.coins \in Coins
           /\ Canonical(ModifyCoins(c).view.coins) = ViewCoins(c)
<1> DEFINE d == TipFetchCoins(c)
           m == ModifyCoins(c)
<1>1. CellOK(d) /\ Same(c, d) /\ d.view = c.view
    BY TipFetchCell
<1>2. CASE c.view # None
  <2>1. c.view.fresh \in BOOLEAN /\ c.view.coins \in Coins
    BY <1>2 DEF CellOK, CoinCells, Entries
  <2>2. m = [c EXCEPT !.view = Entry(c.view.coins, TRUE, c.view.fresh)]
    BY <1>2 DEF ModifyCoins
  <2>3. m.view = Entry(c.view.coins, TRUE, c.view.fresh)
    BY <2>2 DEF CellOK, CoinCells
  <2>4. m.view.coins = c.view.coins
    BY <2>3 DEF Entry
  <2> QED
    BY <1>2, <2>1, <2>4 DEF ViewCoins
<1>3. CASE c.view = None /\ d.tip = None
  <2>1. m = [d EXCEPT !.view = Entry(Cleared, TRUE, TRUE)]
    BY <1>3 DEF ModifyCoins
  <2>2. m.view = Entry(Cleared, TRUE, TRUE)
    BY <1>1, <2>1 DEF CellOK, CoinCells
  <2>3. c.db \in Coins
    BY DEF CellOK, CoinCells
  <2>4. Cleared \in Coins /\ Canonical(Cleared) = Cleared
    BY <2>3, CanonicalFacts
  <2>5. m.view.coins = Cleared
    BY <2>2 DEF Entry
  <2>6. c.tip = None /\ IsPruned(c.db)
    BY <1>3, TipFetchCell
  <2>7. ViewCoins(c) = Canonical(c.db)
    BY <1>3, <2>6 DEF ViewCoins, TipCoins
  <2>8. Canonical(c.db) = Cleared
    BY <2>3, <2>6, CanonicalFacts
  <2> QED
    BY <2>4, <2>5, <2>7, <2>8
<1>4. CASE c.view = None /\ d.tip # None
  <2>1. m = [d EXCEPT !.view = Entry(d.tip.coins, TRUE, IsPruned(d.tip.coins))]
    BY <1>4 DEF ModifyCoins
  <2>2. d.tip.coins \in Coins
    BY <1>1, <1>4 DEF CellOK, CoinCells, Entries
  <2>3. m.view.coins = d.tip.coins
    BY <1>1, <2>1 DEF CellOK, CoinCells, Entry
  <2>4. ViewCoins(c) = Canonical(d.tip.coins)
    BY <1>1, <1>4 DEF ViewCoins, TipCoins, Same
  <2> QED
    BY <2>2, <2>3, <2>4
<1> QED
    BY <1>2, <1>3, <1>4

\* Spending an output takes it from its transaction and from no other.
LEMMA UnspentFacts ==
    ASSUME NEW in \in Txids \X Outs, NEW X
    PROVE  /\ Unspent(in[1], X \cup {in}) = Unspent(in[1], X) \ {in[2]}
           /\ in \notin X /\ in[2] \in Outputs[in[1]] =>
                 Unspent(in[1], X) = Unspent(in[1], X \cup {in}) \cup {in[2]}
           /\ \A t : t # in[1] => Unspent(t, X \cup {in}) = Unspent(t, X)
<1>1. in = <<in[1], in[2]>>
    OBVIOUS
<1>2. \A t, n : <<t, n>> = in <=> t = in[1] /\ n = in[2]
    BY <1>1
<1> QED
    BY <1>2 DEF Unspent

\* One input of UpdateCoins: the output is spent, and the height remembered if
\* it was the last one of its transaction.
LEMMA SpendInputView ==
    ASSUME NEW s, ViewOK(s), NEW ch, IsChain(ch), Len(ch) < MaxHeight,
           NEW T, NEW X, ShowsCoins(s, ch, T, X), NEW in \in Txids \X Outs,
           in[1] \in T, in \notin X, in[2] \in Outputs[in[1]]
    PROVE  /\ ViewOK(SpendInput(s, in)) /\ SameRest(s, SpendInput(s, in))
           /\ ShowsCoins(SpendInput(s, in), ch, T, X \cup {in})
           /\ Grown(s.undo, HeightIfSpent(ch, in[1], X \cup {in}),
                    SpendInput(s, in).undo)
<1> DEFINE p == in[1]
           cur == ModifyCoins(s.coins[p]).view.coins
           new == [cur EXCEPT !.outs = @ \ {in[2]}]
           h == HeightOn(ch, p)
           r == SpendInput(s, in)
<1>0. /\ Unspent(in[1], X \cup {in}) = Unspent(in[1], X) \ {in[2]}
      /\ \A t : t # in[1] => Unspent(t, X \cup {in}) = Unspent(t, X)
    BY UnspentFacts
<1>1. p \in Txids /\ CellOK(s.coins[p]) /\ h \in 0..MaxHeight
    BY HeightOnFacts DEF ViewOK
<1>2. cur \in Coins /\ Canonical(cur) = CoinsLeft(p, X, h)
    BY <1>1, ModifyValue DEF ShowsCoins, Shown
<1>3. in[2] \in Unspent(p, X) /\ Unspent(p, X) # {}
  <2>1. in = <<p, in[2]>>
    OBVIOUS
  <2> QED
    BY <2>1 DEF Unspent
<1>4. cur = [outs |-> Unspent(p, X), nHeight |-> h]
  <2>1. CoinsLeft(p, X, h) = [outs |-> Unspent(p, X), nHeight |-> h]
    BY <1>3 DEF CoinsLeft, Canonical, IsPruned
  <2>2. ~ IsPruned(cur)
    BY <1>2, <1>3, <2>1 DEF Canonical, Cleared, IsPruned
  <2> QED
    BY <1>2, <2>1, <2>2 DEF Canonical
<1>5. new = [outs |-> Unspent(p, X \cup {in}), nHeight |-> h]
  <2>1. cur.outs = Unspent(p, X) /\ cur.nHeight = h
    BY <1>4
  <2> HIDE DEF cur, p, h
  <2>2. new \in Coins /\ new.outs = cur.outs \ {in[2]} /\ new.nHeight = cur.nHeight
    BY <1>2 DEF Coins
  <2>3. new.outs = Unspent(p, X \cup {in}) /\ new.nHeight = h
    BY <1>0, <2>1, <2>2 DEF p
  <2>4. [outs |-> Unspent(p, X \cup {in}), nHeight |-> h] \in Coins
    BY <1>1, CoinsLeftFacts
  <2> HIDE DEF new
  <2> QED
    BY <2>2, <2>3, <2>4 DEF Coins
<1>6. new \in Coins /\ Canonical(new) = CoinsLeft(p, X \cup {in}, h)
    BY <1>1, <1>5, CoinsLeftFacts DEF CoinsLeft
<1>7. /\ DOMAIN r = Fields /\ SameRest(s, r)
      /\ r.undo = Append(s.undo, IF IsPruned(new) THEN cur.nHeight ELSE 0)
      /\ r.coins = [s.coins EXCEPT ![p] = Modified(s.coins[p], new)]
  <2>1. /\ DOMAIN r = Fields /\ r.marks = s.marks /\ r.hash = s.hash
        /\ r.tree = s.tree /\ r.valid = s.valid
        /\ r.bad = (s.bad \/ in[2] \notin cur.outs)
        /\ r.undo = Append(s.undo, IF IsPruned(new) THEN cur.nHeight ELSE 0)
        /\ r.coins = [s.coins EXCEPT ![p] = Modified(s.coins[p], new)]
    BY DEF ViewOK, SpendInput, Fields
  <2>2. in[2] \in cur.outs
    BY <1>3, <1>4
  <2>3. StaysClean(s, r)
    BY <2>1, <2>2 DEF StaysClean
  <2> QED
    BY <2>1, <2>3 DEF SameRest
<1>8. Grown(s.undo, HeightIfSpent(ch, p, X \cup {in}), r.undo)
    BY <1>4, <1>5, <1>7 DEF IsPruned, HeightIfSpent, Grown
<1>9. /\ CellOK(Modified(s.coins[p], new))
      /\ Modified(s.coins[p], new).db = s.coins[p].db
      /\ TipCoins(Modified(s.coins[p], new)) = TipCoins(s.coins[p])
      /\ ViewCoins(Modified(s.coins[p], new)) = CoinsLeft(p, X \cup {in}, h)
  <2> HIDE DEF new
  <2> QED
    BY <1>1, <1>6, ModifyCell
<1> HIDE DEF r, new, cur
<1>10. DOMAIN s.coins = Txids
    BY DEF ViewOK
<1>11. ViewOK(r)
    BY <1>7, <1>9, <1>10 DEF ViewOK, SameRest
<1>12. ShowsCoins(r, ch, T, X \cup {in})
  <2> SUFFICES ASSUME NEW t \in Txids
               PROVE  ViewCoins(r.coins[t]) = Shown(ch, T, X \cup {in}, t)
    BY DEF ShowsCoins
  <2>1. CASE t = p
    BY <1>7, <1>9, <1>10, <2>1 DEF Shown
  <2>2. CASE t # p
    <3>1. r.coins[t] = s.coins[t]
      BY <1>7, <1>10, <2>2
    <3>2. Unspent(t, X \cup {in}) = Unspent(t, X)
      BY <1>0, <2>2
    <3> QED
      BY <3>1, <3>2 DEF ShowsCoins, Shown, CoinsLeft
  <2> QED
    BY <2>1, <2>2
<1> QED
    BY <1>7, <1>8, <1>11, <1>12 DEF r

\* The loop over the inputs: after j of them the view shows j outputs spent,
\* and j heights are recorded.
LEMMA SpendingView ==
    ASSUME NEW s, ViewOK(s), NEW ch, IsChain(ch), Len(ch) < MaxHeight,
           NEW T, ShowsCoins(s, ch, T, SpentBy(T)), NEW tx \in Txids, Fits(T, tx)
    PROVE  LET r == Spending(s, tx)[Len(Inputs[tx])]
           IN /\ ViewOK(r) /\ SameRest(s, r)
              /\ ShowsCoins(r, ch, T, SpentBy(T \cup {tx}))
              /\ r.undo \in Seq(Nat) /\ Undoes(r.undo, ch, T, tx)
<1> DEFINE n == Len(Inputs[tx])
           f == Spending(s, tx)
           P(j) == /\ ViewOK(f[j]) /\ SameRest(s, f[j])
                   /\ ShowsCoins(f[j], ch, T, SpentAt(T, tx, j))
                   /\ f[j].undo \in Seq(Nat) /\ Len(f[j].undo) = j
                   /\ \A k \in 1..j : f[j].undo[k] = UndoHeight(ch, T, tx, k)
           E == {j \in Nat : j <= n => P(j)}
<1>1. Inputs[tx] \in Seq(Txids \X Outs) /\ n \in Nat
    BY CoinsChainAssumption
<1>2. /\ f[0] = [s EXCEPT !.undo = << >>]
      /\ \A j \in 1..n : f[j] = SpendInput(f[j - 1], Inputs[tx][j])
    BY SpendingStates
<1>3. /\ SpentAt(T, tx, 0) = SpentBy(T)
      /\ SpentAt(T, tx, n) = SpentBy(T \cup {tx})
    BY SpentFacts
<1> HIDE DEF f
<1>4. 0 \in E
  <2>1. /\ DOMAIN f[0] = Fields /\ f[0].coins = s.coins /\ SameRest(s, f[0])
        /\ f[0].undo = << >>
    BY <1>2 DEF ViewOK, Fields, SameRest, StaysClean
  <2>2. ViewOK(f[0])
    BY <2>1 DEF ViewOK, SameRest
  <2>3. ShowsCoins(f[0], ch, T, SpentAt(T, tx, 0))
    BY <2>1, <1>3 DEF ShowsCoins
  <2>4. f[0].undo \in Seq(Nat) /\ Len(f[0].undo) = 0
    BY <2>1
  <2>5. \A k \in 1..0 : f[0].undo[k] = UndoHeight(ch, T, tx, k)
    OBVIOUS
  <2> QED
    BY <2>1, <2>2, <2>3, <2>4, <2>5
<1>5. ASSUME NEW j \in Nat, j \in E
      PROVE  j + 1 \in E
  <2> SUFFICES ASSUME j + 1 <= n
               PROVE  P(j + 1)
    OBVIOUS
  <2> DEFINE in == Inputs[tx][j + 1]
             X == SpentAt(T, tx, j)
             v == UndoHeight(ch, T, tx, j + 1)
  <2>1. P(j)
    BY <1>1, <1>5
  <2>2. j + 1 \in 1..n /\ (j + 1) - 1 = j
    BY <1>1
  <2>3. /\ f[j + 1] = SpendInput(f[j], in)
        /\ SpentAt(T, tx, j + 1) = X \cup {in}
        /\ in \in Range(Inputs[tx])
        /\ in \in Txids \X Outs
        /\ \A k \in 1..j : Inputs[tx][k] # in
    <3>1. f[j + 1] = SpendInput(f[(j + 1) - 1], Inputs[tx][j + 1])
      BY <1>2, <2>2
    <3>2. /\ SpentAt(T, tx, j + 1) = SpentAt(T, tx, j) \cup {Inputs[tx][j + 1]}
          /\ Inputs[tx][j + 1] \in Range(Inputs[tx])
          /\ Inputs[tx][j + 1] \in Txids \X Outs
      BY SpentStep
    <3>3. \A k \in 1..j : Inputs[tx][k] # Inputs[tx][j + 1]
      BY SpentStep
    <3> QED
      BY <2>2, <3>1, <3>2, <3>3
  <2>5. /\ in[1] \in T
        /\ in \notin SpentBy(T)
        /\ in[2] \in Outputs[in[1]]
    BY <2>3 DEF Fits
  <2>6. in \notin X
    BY <2>3, <2>5 DEF SpentAt
  <2>7. v = HeightIfSpent(ch, in[1], X \cup {in})
    BY <2>3 DEF UndoHeight
  <2> HIDE DEF in, X, v
  <2>8. /\ ViewOK(SpendInput(f[j], in)) /\ SameRest(f[j], SpendInput(f[j], in))
        /\ ShowsCoins(SpendInput(f[j], in), ch, T, X \cup {in})
        /\ Grown(f[j].undo, HeightIfSpent(ch, in[1], X \cup {in}),
                 SpendInput(f[j], in).undo)
    <3>1. ViewOK(f[j]) /\ ShowsCoins(f[j], ch, T, X)
      BY <2>1 DEF X
    <3>2. in \in Txids \X Outs
      BY <2>3
    <3> DEFINE x == f[j]
    <3> HIDE DEF x
    <3>3. ViewOK(x) /\ ShowsCoins(x, ch, T, X)
      BY <3>1 DEF x
    <3>4. /\ ViewOK(SpendInput(x, in)) /\ SameRest(x, SpendInput(x, in))
          /\ ShowsCoins(SpendInput(x, in), ch, T, X \cup {in})
      BY <2>5, <2>6, <3>2, <3>3, SpendInputView
    <3>5. Grown(x.undo, HeightIfSpent(ch, in[1], X \cup {in}), SpendInput(x, in).undo)
      BY <2>5, <2>6, <3>2, <3>3, SpendInputView
    <3> QED
      BY <3>4, <3>5 DEF x
  <2>9. /\ ViewOK(f[j + 1]) /\ SameRest(f[j], f[j + 1])
        /\ ShowsCoins(f[j + 1], ch, T, SpentAt(T, tx, j + 1))
        /\ f[j + 1].undo = Append(f[j].undo, v)
    BY <2>3, <2>7, <2>8 DEF Grown
  <2>10. v \in Nat
    <3>1. HeightOn(ch, in[1]) \in 1..MaxHeight
      BY HeightOnFacts
    <3>2. MaxHeight \in Nat
      BY NoneAssumption
    <3>3. HeightOn(ch, in[1]) \in Nat
      BY <3>1, <3>2
    <3> QED
      BY <2>7, <3>3 DEF HeightIfSpent
  <2>11. /\ f[j + 1].undo \in Seq(Nat) /\ Len(f[j + 1].undo) = j + 1
         /\ \A k \in 1..j : f[j + 1].undo[k] = f[j].undo[k]
         /\ f[j + 1].undo[j + 1] = v
    BY <2>1, <2>9, <2>10
  <2>12. \A k \in 1..(j + 1) : f[j + 1].undo[k] = UndoHeight(ch, T, tx, k)
    <3>1. \A k \in 1..(j + 1) : k \in 1..j \/ k = j + 1
      OBVIOUS
    <3> QED
      BY <2>1, <2>11, <3>1 DEF v
  <2>13. SameRest(s, f[j + 1])
    BY <2>1, <2>9 DEF SameRest, StaysClean
  <2> QED
    BY <2>9, <2>11, <2>12, <2>13
<1>6. P(n)
  <2>1. Nat \subseteq E
    <3> HIDE DEF E
    <3> QED
      BY <1>4, <1>5, NatSetInduction
  <2> QED
    BY <2>1, <1>1
<1>7. Undoes(f[n].undo, ch, T, tx)
    BY <1>6 DEF Undoes
<1> QED
    BY <1>3, <1>6, <1>7 DEF f

\* SetNullifiers sets the marks of the transaction's nullifiers and no other.
LEMMA SetNullifiersView ==
    ASSUME NEW s, ViewOK(s), NEW tx \in Txids, NEW e \in BOOLEAN
    PROVE  LET r == SetNullifiers(s, tx, e)
           IN /\ ViewOK(r) /\ r.coins = s.coins /\ r.hash = s.hash
              /\ r.tree = s.tree /\ r.valid = s.valid /\ r.undo = s.undo
              /\ r.bad = s.bad
              /\ \A k \in DOMAIN marks :
                    /\ k \in Spends[tx] => ViewHas(r.marks[k]) = e
                    /\ k \notin Spends[tx] => ViewHas(r.marks[k]) = ViewHas(s.marks[k])
<1> DEFINE r == SetNullifiers(s, tx, e)
<1>1. /\ DOMAIN r = Fields /\ r.coins = s.coins /\ r.hash = s.hash
      /\ r.tree = s.tree /\ r.valid = s.valid /\ r.undo = s.undo /\ r.bad = s.bad
      /\ r.marks = [k \in DOMAIN s.marks |-> IF k \in Spends[tx]
                                             THEN SetMark(s.marks[k], e)
                                             ELSE s.marks[k]]
    BY DEF ViewOK, SetNullifiers, Fields
<1> HIDE DEF r
<1>2. ASSUME NEW k \in DOMAIN marks
      PROVE  /\ MarkOK(r.marks[k]) /\ r.marks[k].db = s.marks[k].db
             /\ TipHas(r.marks[k]) = TipHas(s.marks[k])
             /\ k \in Spends[tx] => ViewHas(r.marks[k]) = e
             /\ k \notin Spends[tx] => ViewHas(r.marks[k]) = ViewHas(s.marks[k])
  <2>1. MarkOK(s.marks[k]) /\ DOMAIN s.marks = DOMAIN marks
    BY DEF ViewOK
  <2>2. /\ MarkOK(SetMark(s.marks[k], e)) /\ SetMark(s.marks[k], e).db = s.marks[k].db
        /\ TipHas(SetMark(s.marks[k], e)) = TipHas(s.marks[k])
        /\ ViewHas(SetMark(s.marks[k], e)) = e
    BY <2>1, WriteMark
  <2>3. r.marks[k] = IF k \in Spends[tx] THEN SetMark(s.marks[k], e) ELSE s.marks[k]
    BY <1>1, <2>1
  <2> QED
    BY <2>1, <2>2, <2>3
<1>3. ViewOK(r)
    BY <1>1, <1>2 DEF ViewOK
<1> QED
    BY <1>1, <1>2, <1>3 DEF r

\* UpdateCoins: the view shows one more transaction, and the undo data has one
\* more record, which undoes it.
LEMMA UpdateCoinsView ==
    ASSUME NEW s, ViewOK(s), NEW ch, IsChain(ch), Len(ch) < MaxHeight,
           NEW T \in SUBSET Txids, NoConflict(T), TxsOf(ch) \subseteq T,
           ShowsCoins(s, ch, T, SpentBy(T)), ShowsMarks(s, RevealedBy(T)),
           DOMAIN marks = Nullifiers \cup Roots,
           NEW tx \in Txids, Fits(T, tx), IsPruned(TipCoins(coins[tx]))
    PROVE  LET r == UpdateCoins(s, tx, Len(ch) + 1)
           IN /\ ViewOK(r)
              /\ r.hash = s.hash /\ r.tree = s.tree /\ r.valid = s.valid
              /\ SameAnchors(s, r) /\ StaysClean(s, r)
              /\ ShowsCoins(r, ch, T \cup {tx}, SpentBy(T \cup {tx}))
              /\ ShowsMarks(r, RevealedBy(T \cup {tx}))
              /\ \E u \in Seq(Nat) : Undoes(u, ch, T, tx) /\ Grown(s.undo, u, r.undo)
<1> DEFINE x == Spending(s, tx)[Len(Inputs[tx])]
           y == SetNullifiers(x, tx, TRUE)
           new == [outs |-> Outputs[tx], nHeight |-> Len(ch) + 1]
           X == SpentBy(T \cup {tx})
           r == UpdateCoins(s, tx, Len(ch) + 1)
<1>1. /\ ViewOK(x) /\ SameRest(s, x) /\ ShowsCoins(x, ch, T, X)
      /\ x.undo \in Seq(Nat) /\ Undoes(x.undo, ch, T, tx)
    BY SpendingView
<1>2. r = [y EXCEPT !.coins[tx] = ModifiedNew(@, new), !.undo = Append(s.undo, x.undo)]
    BY DEF UpdateCoins
<1> HIDE DEF x
<1>3. /\ ViewOK(y) /\ y.coins = x.coins /\ y.hash = x.hash
      /\ y.tree = x.tree /\ y.valid = x.valid /\ y.bad = x.bad
      /\ \A k \in DOMAIN marks :
            /\ k \in Spends[tx] => ViewHas(y.marks[k]) = TRUE
            /\ k \notin Spends[tx] => ViewHas(y.marks[k]) = ViewHas(x.marks[k])
  <2>1. ASSUME NEW e \in BOOLEAN
        PROVE  LET w == SetNullifiers(x, tx, e)
               IN /\ ViewOK(w) /\ w.coins = x.coins /\ w.hash = x.hash
                  /\ w.tree = x.tree /\ w.valid = x.valid /\ w.bad = x.bad
                  /\ \A k \in DOMAIN marks :
                        /\ k \in Spends[tx] => ViewHas(w.marks[k]) = e
                        /\ k \notin Spends[tx] => ViewHas(w.marks[k]) = ViewHas(x.marks[k])
    BY <1>1, SetNullifiersView
  <2> QED
    BY <2>1, Zenon
<1> HIDE DEF y
<1>4. DOMAIN y = Fields /\ DOMAIN y.coins = Txids
    BY <1>3 DEF ViewOK
<1>5. /\ DOMAIN r = Fields /\ r.marks = y.marks /\ r.hash = y.hash
      /\ r.tree = y.tree /\ r.valid = y.valid /\ r.bad = y.bad
      /\ r.undo = Append(s.undo, x.undo)
      /\ r.coins = [y.coins EXCEPT ![tx] = ModifiedNew(y.coins[tx], new)]
    BY <1>2, <1>4 DEF Fields
<1>6. tx \notin T /\ HeightOn(ch, tx) = Len(ch) + 1
    BY DEF Fits, HeightOn
<1>7. Unspent(tx, X) = Outputs[tx]
  <2>1. X = SpentBy(T) \cup Range(Inputs[tx])
    BY SpentFacts
  <2>2. \A z \in SpentBy(T) : z[1] # tx
    BY <1>6, NewUnspent
  <2>3. \A z \in Range(Inputs[tx]) : z[1] # tx
    BY <1>6 DEF Fits
  <2>4. \A n : <<tx, n>>[1] = tx
    OBVIOUS
  <2> QED
    BY <2>1, <2>2, <2>3, <2>4 DEF Unspent
<1>8. new \in Coins /\ Canonical(new) = CoinsLeft(tx, X, HeightOn(ch, tx))
  <2>1. HeightOn(ch, tx) \in 0..MaxHeight
    <3>1. HeightOn(ch, tx) \in 1..MaxHeight
      BY HeightOnFacts
    <3> QED
      BY <3>1
  <2>2. new = [outs |-> Unspent(tx, X), nHeight |-> HeightOn(ch, tx)]
    BY <1>6, <1>7
  <2> HIDE DEF new, X
  <2> QED
    BY <2>1, <2>2, CoinsLeftFacts DEF CoinsLeft
<1> HIDE DEF r, new, X
<1>9. /\ CellOK(r.coins[tx]) /\ r.coins[tx].db = y.coins[tx].db
      /\ TipCoins(r.coins[tx]) = TipCoins(y.coins[tx])
      /\ ViewCoins(r.coins[tx]) = CoinsLeft(tx, X, HeightOn(ch, tx))
  <2>1. CellOK(y.coins[tx]) /\ IsPruned(TipCoins(y.coins[tx]))
    BY <1>3 DEF ViewOK
  <2>2. /\ CellOK(ModifiedNew(y.coins[tx], new))
        /\ ModifiedNew(y.coins[tx], new).db = y.coins[tx].db
        /\ TipCoins(ModifiedNew(y.coins[tx], new)) = TipCoins(y.coins[tx])
        /\ ViewCoins(ModifiedNew(y.coins[tx], new)) = Canonical(new)
    BY <1>8, <2>1, ModifyNewCell
  <2> QED
    BY <1>4, <1>5, <1>8, <2>2
<1>10. \A t \in Txids \ {tx} : r.coins[t] = y.coins[t]
    BY <1>4, <1>5
<1>11. ViewOK(r)
    BY <1>3, <1>4, <1>5, <1>9, <1>10 DEF ViewOK
<1>12. ShowsCoins(r, ch, T \cup {tx}, X)
  <2> SUFFICES ASSUME NEW t \in Txids
               PROVE  ViewCoins(r.coins[t]) = Shown(ch, T \cup {tx}, X, t)
    BY DEF ShowsCoins
  <2>1. CASE t = tx
    BY <1>9, <2>1 DEF Shown
  <2>2. CASE t # tx
    BY <1>1, <1>3, <1>10, <2>2 DEF ShowsCoins, Shown
  <2> QED
    BY <2>1, <2>2
<1>13. ShowsMarks(r, RevealedBy(T \cup {tx}))
  <2>1. RevealedBy(T \cup {tx}) = RevealedBy(T) \cup Spends[tx]
    BY SpentFacts
  <2>2. x.marks = s.marks
    BY <1>1 DEF SameRest
  <2> SUFFICES ASSUME NEW n \in Nullifiers
               PROVE  ViewHas(r.marks[n]) <=> n \in RevealedBy(T \cup {tx})
    BY DEF ShowsMarks
  <2>3. n \in DOMAIN marks /\ r.marks[n] = y.marks[n]
    BY <1>5
  <2>4. CASE n \in Spends[tx]
    BY <1>3, <2>1, <2>3, <2>4
  <2>5. CASE n \notin Spends[tx]
    <3>1. ViewHas(s.marks[n]) <=> n \in RevealedBy(T)
      BY DEF ShowsMarks
    <3>2. n \in RevealedBy(T \cup {tx}) <=> n \in RevealedBy(T)
      BY <2>1, <2>5
    <3>3. ViewHas(r.marks[n]) = ViewHas(s.marks[n])
      BY <1>3, <2>2, <2>3, <2>5
    <3> QED
      BY ONLY <3>1, <3>2, <3>3
  <2> QED
    BY <2>4, <2>5
<1>14. x.undo \in Seq(Nat) /\ Undoes(x.undo, ch, T, tx) /\ Grown(s.undo, x.undo, r.undo)
    BY <1>1, <1>5 DEF Grown
<1>15. r.hash = s.hash /\ r.tree = s.tree /\ r.valid = s.valid
    BY <1>1, <1>3, <1>5 DEF SameRest
<1>16. SameAnchors(s, r)
  <2>1. \A k \in Roots : k \in DOMAIN marks /\ k \notin Spends[tx]
    BY RootsFacts DEF Nullifiers
  <2>2. \A k \in Roots : ViewHas(y.marks[k]) = ViewHas(x.marks[k])
    BY <1>3, <2>1
  <2> QED
    BY <1>1, <1>5, <2>2 DEF SameRest, SameAnchors
<1>17. StaysClean(s, r)
    BY <1>1, <1>3, <1>5 DEF SameRest, StaysClean
<1> QED
    BY <1>11, <1>12, <1>13, <1>14, <1>15, <1>16, <1>17 DEF r, X

\* A transaction that passes ConnectBlock's checks fits: an output is unspent
\* in the view if it exists and nothing spends it, and a transaction that was
\* applied before would find its inputs spent or its nullifiers revealed.
LEMMA ChecksFit ==
    ASSUME NEW s, ViewOK(s), NEW ch, IsChain(ch), Len(ch) < MaxHeight,
           NEW T \in SUBSET Txids,
           ShowsCoins(s, ch, T, SpentBy(T)), ShowsMarks(s, RevealedBy(T)),
           NEW tx \in Txids \ Coinbases,
           \A in \in Range(Inputs[tx]) : in[2] \in ViewCoins(s.coins[in[1]]).outs,
           \A n \in Spends[tx] : ~ ViewHas(s.marks[n])
    PROVE  Fits(T, tx)
<1>1. Inputs[tx] \in Seq(Txids \X Outs) /\ (Inputs[tx] # << >> \/ Spends[tx] # {})
    BY CoinsChainAssumption
<1>2. ASSUME NEW in \in Range(Inputs[tx])
      PROVE  in[1] \in T /\ in \notin SpentBy(T) /\ in[2] \in Outputs[in[1]]
  <2>1. in \in Txids \X Outs
    BY <1>1 DEF Range
  <2>2. in[1] \in Txids /\ in = <<in[1], in[2]>>
    BY <2>1
  <2>3. HeightOn(ch, in[1]) \in 0..MaxHeight
    <3>1. HeightOn(ch, in[1]) \in 1..MaxHeight
      BY HeightOnFacts
    <3> QED
      BY <3>1
  <2>4. in[2] \in Shown(ch, T, SpentBy(T), in[1]).outs
    BY <2>2 DEF ShowsCoins
  <2>5. in[1] \in T
    BY <2>4 DEF Shown, Cleared
  <2>6. in[2] \in Unspent(in[1], SpentBy(T))
    BY <2>2, <2>3, <2>4, <2>5, CoinsLeftFacts DEF Shown
  <2> QED
    BY <2>2, <2>5, <2>6 DEF Unspent
<1>3. Spends[tx] \cap RevealedBy(T) = {}
  <2>1. Spends[tx] \subseteq Nullifiers
    BY DEF Nullifiers
  <2> QED
    BY <2>1 DEF ShowsMarks
<1>4. tx \notin T
  <2> SUFFICES ASSUME tx \in T
               PROVE  FALSE
    OBVIOUS
  <2>1. CASE Inputs[tx] # << >>
    <3>1. Inputs[tx][1] \in Range(Inputs[tx])
      BY <1>1, <2>1 DEF Range
    <3> QED
      BY <1>2, <3>1 DEF SpentBy
  <2>2. CASE Spends[tx] # {}
    BY <1>3, <2>2 DEF RevealedBy
  <2> QED
    BY <1>1, <2>1, <2>2
<1> QED
    BY <1>2, <1>3, <1>4 DEF Fits

\* A coinbase is in no earlier block: its input encodes the height.
LEMMA CoinbaseNew ==
    ASSUME NEW ch, IsChain(ch), Len(ch) < MaxHeight,
           NEW block \in Blocks[Len(ch) + 1]
    PROVE  block[1] \notin TxsOf(ch)
<1> SUFFICES ASSUME block[1] \in TxsOf(ch)
             PROVE  FALSE
    OBVIOUS
<1>1. MaxHeight \in Nat /\ Len(ch) \in Nat /\ DOMAIN ch = 1..Len(ch)
    BY NoneAssumption DEF IsChain
<1>2. Len(ch) + 1 \in Heights
    BY <1>1 DEF Heights
<1>3. block[1] \in Coinbases
    BY <1>2 DEF Coinbases
<1>4. PICK h \in 1..Len(ch) : block[1] \in Range(ch[h])
    BY <1>1 DEF TxsOf
<1>5. h \in Heights /\ h # Len(ch) + 1 /\ ch[h] \in Blocks[h]
    BY <1>1 DEF Heights, IsChain
<1>6. ch[h] \in Seq(Txids)
    BY <1>5, CoinsChainAssumption
<1>7. PICK i \in 1..Len(ch[h]) : block[1] = ch[h][i]
    BY <1>4, <1>6 DEF Range
<1>8. CASE i = 1
  <2>1. h \in Heights \ {Len(ch) + 1}
    BY <1>5
  <2> QED
    BY <1>2, <1>5, <1>7, <1>8, <2>1, CoinsChainAssumption
<1>9. CASE i # 1
  <2>1. i \in 2..Len(ch[h])
    BY <1>6, <1>9
  <2>2. ch[h][i] \notin Coinbases
    BY <1>5, <2>1, CoinsChainAssumption
  <2> QED
    BY <1>3, <1>7, <2>2
<1> QED
    BY <1>8, <1>9

\* One transaction of ConnectBlock: if it passes, the view shows it too.
LEMMA ConnectTxView ==
    ASSUME NEW s, ViewOK(s), NEW ch, IsChain(ch), Len(ch) < MaxHeight,
           NEW T \in SUBSET Txids, TxsOf(ch) \subseteq T,
           DOMAIN marks = Nullifiers \cup Roots,
           \A t \in Txids \ TxsOf(ch) : IsPruned(TipCoins(coins[t])),
           s.tree \in Anchors,
           s.valid => /\ NoConflict(T)
                      /\ ShowsCoins(s, ch, T, SpentBy(T))
                      /\ ShowsMarks(s, RevealedBy(T)),
           NEW tx \in Txids, tx \in Coinbases => tx \notin T
    PROVE  LET r == ConnectTx(s, tx, Len(ch) + 1)
           IN /\ ViewOK(r) /\ r.hash = s.hash /\ r.tree \in Anchors
              /\ SameAnchors(s, r) /\ StaysClean(s, r)
              /\ r.valid => /\ s.valid
                            /\ Fits(T, tx)
                            /\ r.tree = Extended(s.tree, tx)
                            /\ ShowsCoins(r, ch, T \cup {tx}, SpentBy(T \cup {tx}))
                            /\ ShowsMarks(r, RevealedBy(T \cup {tx}))
                            /\ \E u \in Seq(Nat) : Undoes(u, ch, T, tx) /\ Grown(s.undo, u, r.undo)
<1> DEFINE a == HaveInputs(s, tx)
           b == HaveShieldedRequirements(a, tx)
           c == IF ~ s.valid \/ tx \in Coinbases THEN s ELSE b
           z == UpdateCoins(c, tx, Len(ch) + 1)
           r == ConnectTx(s, tx, Len(ch) + 1)
<1>1. r = IF ~ c.valid THEN c
          ELSE [z EXCEPT !.tree = IF tx \in Appends THEN Append(@, tx) ELSE @]
    BY DEF ConnectTx
<1>2. /\ ViewOK(a) /\ SameView(s, a)
      /\ a.valid => /\ s.valid
                    /\ \A in \in Range(Inputs[tx]) :
                          in[2] \in ViewCoins(s.coins[in[1]]).outs
    BY HaveInputsView
<1> HIDE DEF a
<1>3. /\ ViewOK(b) /\ SameView(a, b)
      /\ b.valid => /\ a.valid
                    /\ \A n \in Spends[tx] : ~ ViewHas(a.marks[n])
    BY <1>2, HaveShieldedView
<1> HIDE DEF b
<1>4. ViewOK(c) /\ SameView(s, c) /\ (c.valid => s.valid)
  <2>1. SameView(s, s) /\ SameView(s, b)
    BY <1>2, <1>3 DEF SameView
  <2> QED
    BY <1>2, <1>3, <2>1
<1>5. c.valid => Fits(T, tx)
  <2>1. CASE tx \in Coinbases
    <3>1. Inputs[tx] = << >> /\ Spends[tx] = {}
      BY <2>1, CoinsChainAssumption
    <3>2. Range(Inputs[tx]) = {}
      BY <3>1 DEF Range
    <3> QED
      BY <2>1, <3>1, <3>2 DEF Fits
  <2>2. CASE tx \notin Coinbases /\ c.valid
    <3>1. s.valid /\ c = b
      BY <1>4, <2>2
    <3>2. \A in \in Range(Inputs[tx]) : in[2] \in ViewCoins(s.coins[in[1]]).outs
      BY <1>2, <1>3, <2>2, <3>1
    <3>3. \A n \in Spends[tx] : ~ ViewHas(s.marks[n])
      <4>1. Spends[tx] \subseteq DOMAIN marks
        BY DEF Nullifiers
      <4> QED
        BY <1>2, <1>3, <2>2, <3>1, <4>1 DEF SameView
    <3>4. tx \in Txids \ Coinbases
      BY <2>2
    <3> QED
      BY <3>1, <3>2, <3>3, <3>4, ChecksFit
  <2> QED
    BY <2>1, <2>2
<1> HIDE DEF c
<1>6. CASE ~ c.valid
  <2>1. r = c
    BY <1>1, <1>6
  <2> QED
    BY <1>4, <1>6, <2>1 DEF SameView, SameAnchors, StaysClean, r
<1>7. CASE c.valid
  <2>1. s.valid /\ Fits(T, tx) /\ NoConflict(T)
    BY <1>4, <1>5, <1>7
  <2>2. ShowsCoins(c, ch, T, SpentBy(T)) /\ ShowsMarks(c, RevealedBy(T))
    BY <1>4, <2>1 DEF SameView, ShowsCoins, ShowsMarks
  <2>3. IsPruned(TipCoins(coins[tx]))
    BY <2>1 DEF Fits
  <2>4. /\ ViewOK(z)
        /\ z.hash = c.hash /\ z.tree = c.tree /\ z.valid = c.valid
        /\ SameAnchors(c, z) /\ StaysClean(c, z)
        /\ ShowsCoins(z, ch, T \cup {tx}, SpentBy(T \cup {tx}))
        /\ ShowsMarks(z, RevealedBy(T \cup {tx}))
        /\ \E u \in Seq(Nat) : Undoes(u, ch, T, tx) /\ Grown(c.undo, u, z.undo)
    BY <1>4, <2>1, <2>2, <2>3, UpdateCoinsView
  <2> HIDE DEF z
  <2> DEFINE v == IF tx \in Appends THEN Append(z.tree, tx) ELSE z.tree
  <2>5. r = [z EXCEPT !.tree = v]
    BY <1>1, <1>7
  <2>6. v \in Anchors
    BY <1>4, <2>4 DEF SameView, Anchors
  <2> HIDE DEF r, v
  <2>7. /\ DOMAIN r = Fields /\ r.coins = z.coins /\ r.marks = z.marks
        /\ r.hash = z.hash /\ r.tree = v /\ r.undo = z.undo /\ r.valid = z.valid
        /\ r.bad = z.bad
    BY <2>4, <2>5 DEF ViewOK, Fields
  <2>8. ViewOK(r)
    BY <2>4, <2>7 DEF ViewOK
  <2>9. ShowsCoins(r, ch, T \cup {tx}, SpentBy(T \cup {tx})) /\ ShowsMarks(r, RevealedBy(T \cup {tx}))
    BY <2>4, <2>7 DEF ShowsCoins, ShowsMarks
  <2>10. r.hash = s.hash /\ c.undo = s.undo
    BY <1>4, <2>4, <2>7 DEF SameView
  <2>11. \E u \in Seq(Nat) : Undoes(u, ch, T, tx) /\ Grown(s.undo, u, r.undo)
    BY <2>4, <2>7, <2>10
  <2>12. SameAnchors(s, r)
    <3>1. \A k \in Roots : ViewHas(c.marks[k]) = ViewHas(s.marks[k])
      BY <1>4 DEF SameView
    <3> QED
      BY <2>4, <2>7, <3>1 DEF SameAnchors
  <2>13. StaysClean(s, r)
    BY <1>4, <2>4, <2>7 DEF SameView, StaysClean
  <2>14. r.tree = Extended(s.tree, tx)
    BY <1>4, <2>4, <2>7 DEF SameView, Extended, v
  <2> QED
    BY <2>1, <2>6, <2>7, <2>8, <2>9, <2>10, <2>11, <2>12, <2>13, <2>14 DEF r
<1> QED
    BY <1>6, <1>7


-----------------------------------------------------------------------------
(***************************************************************************)
(* Connecting a block.                                                     *)
(***************************************************************************)
\* x holds the hashes of a view on pcoinsTip as it is, which has asked for them.
HashesOK(x) ==
    /\ DOMAIN x = {"block", "anchor"}
    /\ \A k \in {"block", "anchor"} :
          /\ DOMAIN x[k] = {"db", "tip", "view"}
          /\ x[k].db = hash[k].db
          /\ TipHash(x[k]) = TipHash(hash[k])
    /\ x["anchor"].tip # None => x["anchor"].tip \in Anchors

\* The transactions of the active chain do not conflict: the undo data of its
\* last block is there.
LEMMA ChainNoConflict ==
    ASSUME ChainInv
    PROVE  NoConflict(TxsOf(chain))
<1>1. chain \in Seq(Seq(Txids)) /\ Len(chain) \in Nat
    BY DEF ChainInv, IsChain
<1>2. CASE chain = << >>
  <2>1. TxsOf(chain) = {}
    BY <1>2 DEF TxsOf
  <2> QED
    BY <2>1 DEF NoConflict
<1>3. CASE chain # << >>
  <2>1. Len(chain) \in 1..Len(chain)
    BY <1>1, <1>3
  <2>2. SubSeq(chain, 1, Len(chain)) = chain
    BY <1>1
  <2>3. chain \in DOMAIN undo
    BY <2>1, <2>2 DEF ChainInv, UndoAvailable
  <2> QED
    BY <2>3 DEF ChainInv, UndoOK
<1> QED
    BY <1>2, <1>3

\* The tree of the active chain has a key among the marks.
LEMMA ChainRoot ==
    ASSUME ChainInv
    PROVE  /\ RootOf(chain) \in Roots /\ Range(RootOf(chain)) \subseteq TxsOf(chain)
           /\ RootOf(chain) \in RootsOf(chain)
<1>1. chain \in Seq(Seq(Txids)) /\ Len(chain) \in Nat
    BY DEF ChainInv, IsChain
<1>2. RootOf(chain) \in RootsOf(chain)
    BY <1>1, RootsGrow
<1>3. CASE chain = << >>
  <2>1. RootOf(chain) = EmptyRoot /\ EmptyRoot \in Roots
    BY <1>3, RootsEmpty, RootsFacts
  <2>2. Range(EmptyRoot) = {}
    BY DEF Range, EmptyRoot
  <2> QED
    BY <1>2, <2>1, <2>2
<1>4. CASE chain # << >>
  <2>1. Len(chain) \in 1..Len(chain)
    BY <1>1, <1>4
  <2>2. SubSeq(chain, 1, Len(chain)) = chain
    BY <1>1
  <2>3. chain \in DOMAIN undo
    BY <2>1, <2>2 DEF ChainInv, UndoAvailable
  <2> QED
    BY <1>2, <2>3 DEF ChainInv, UndoOK
<1> QED
    BY <1>3, <1>4

\* A view just opened shows what pcoinsTip shows.
LEMMA OpenedView ==
    ASSUME Inv
    PROVE  /\ ViewOK(Opened)
           /\ ShowsCoins(Opened, chain, TxsOf(chain), SpentBy(TxsOf(chain)))
           /\ ShowsMarks(Opened, RevealedBy(TxsOf(chain)))
           /\ ShowsAnchors(Opened, chain)
           /\ HashesOK(Opened.hash)
           /\ Opened.hash = hash /\ Opened.coins = coins /\ Opened.marks = marks
           /\ Opened.undo = << >>
<1> DEFINE s == Opened
<1>1. /\ DOMAIN s = Fields /\ s.coins = coins /\ s.marks = marks /\ s.hash = hash
      /\ s.undo = << >>
    BY DEF Opened, Fields
<1> HIDE DEF s
<1>2. ViewOK(s)
    BY <1>1 DEF ViewOK, Inv, CoinsInv, MarksInv
<1>3. ShowsCoins(s, chain, TxsOf(chain), SpentBy(TxsOf(chain)))
  <2> SUFFICES ASSUME NEW t \in Txids
               PROVE  ViewCoins(s.coins[t]) =
                         Shown(chain, TxsOf(chain), SpentBy(TxsOf(chain)), t)
    BY DEF ShowsCoins
  <2>1. ViewCoins(coins[t]) = UtxoOf(chain, t)
    BY DEF Inv, CoinsInv, ViewCoins
  <2>2. IsChain(chain)
    BY DEF Inv, ChainInv
  <2> QED
    BY <1>1, <2>1, <2>2, UtxoFacts
<1>4. ShowsMarks(s, RevealedBy(TxsOf(chain)))
  <2> SUFFICES ASSUME NEW n \in Nullifiers
               PROVE  ViewHas(s.marks[n]) <=> n \in RevealedBy(TxsOf(chain))
    BY DEF ShowsMarks
  <2>1. n \in DOMAIN marks /\ (TipHas(marks[n]) <=> n \in RevealedBy(TxsOf(chain)))
    BY DEF Inv, MarksInv
  <2>2. ViewHas(marks[n]) = TipHas(marks[n])
    BY <2>1 DEF Inv, MarksInv, ViewHas
  <2> QED
    BY <1>1, <2>1, <2>2
<1>5. HashesOK(s.hash)
    BY <1>1 DEF HashesOK, Inv, HashInv
<1>6. ShowsAnchors(s, chain)
  <2> SUFFICES ASSUME NEW k \in Roots
               PROVE  ViewHas(s.marks[k]) <=> k \in RootsOf(chain)
    BY DEF ShowsAnchors
  <2>1. k \in DOMAIN marks /\ (TipHas(marks[k]) <=> k \in RootsOf(chain))
    BY DEF Inv, MarksInv
  <2>2. ViewHas(marks[k]) = TipHas(marks[k])
    BY <2>1 DEF Inv, MarksInv, ViewHas
  <2> QED
    BY <1>1, <2>1, <2>2
<1> QED
    BY <1>1, <1>2, <1>3, <1>4, <1>5, <1>6 DEF s

\* Asking for a hash gives a hash, and does not show.
LEMMA GetHashFacts ==
    ASSUME NEW c, DOMAIN c = {"db", "tip", "view"}, c.view = None
    PROVE  /\ DOMAIN GetHash(c) = {"db", "tip", "view"}
           /\ GetHash(c).db = c.db /\ GetHash(c).tip = TipHash(c)
           /\ GetHash(c).view = TipHash(c)
           /\ TipHash(GetHash(c)) = TipHash(c)
<1>1. GetHash(c) = [c EXCEPT !.tip = TipHash(c), !.view = TipHash(c)]
    BY DEF GetHash
<1>2. /\ DOMAIN GetHash(c) = {"db", "tip", "view"}
      /\ GetHash(c).db = c.db /\ GetHash(c).tip = TipHash(c)
      /\ GetHash(c).view = TipHash(c)
    BY <1>1
<1>3. TipHash(GetHash(c)) = TipHash(c)
    BY <1>2 DEF TipHash
<1> QED
    BY <1>2, <1>3

\* The start of ConnectBlock does not show.
LEMMA BeginConnectView ==
    ASSUME Inv
    PROVE  /\ ViewOK(BeginConnect)
           /\ ShowsCoins(BeginConnect, chain, TxsOf(chain), SpentBy(TxsOf(chain)))
           /\ ShowsMarks(BeginConnect, RevealedBy(TxsOf(chain)))
           /\ ShowsAnchors(BeginConnect, chain)
           /\ HashesOK(BeginConnect.hash)
           /\ ViewHash(BeginConnect.hash["anchor"]) = RootOf(chain)
           /\ BeginConnect.hash["anchor"].view = RootOf(chain)
           /\ BeginConnect.tree = RootOf(chain)
           /\ RootOf(chain) \in Anchors
           /\ BeginConnect.undo = << >>
           /\ BeginConnect.bad = FALSE
<1> DEFINE o == Opened
           H == [k \in DOMAIN o.hash |-> GetHash(o.hash[k])]
           s == [o EXCEPT !.hash = H]
           best == ViewHash(s.hash["anchor"])
           r == BeginConnect
<1>1. /\ ViewOK(o)
      /\ ShowsCoins(o, chain, TxsOf(chain), SpentBy(TxsOf(chain)))
      /\ ShowsMarks(o, RevealedBy(TxsOf(chain)))
      /\ ShowsAnchors(o, chain)
      /\ o.hash = hash /\ o.marks = marks
      /\ o.undo = << >>
    BY OpenedView
<1>2. r = [s EXCEPT !.marks[best] = GetAnchorAt(@), !.tree = best,
                    !.bad = ViewHash(s.hash["block"]) # chain \/ ~ ViewHas(s.marks[best])]
    BY DEF BeginConnect
<1> HIDE DEF o
<1>3. /\ DOMAIN s = Fields /\ s.coins = o.coins /\ s.marks = o.marks
      /\ s.hash = H /\ s.undo = o.undo
    BY <1>1 DEF ViewOK, Fields
<1> HIDE DEF H, s, best
<1>4. /\ DOMAIN r = Fields /\ r.coins = o.coins
      /\ r.marks = [o.marks EXCEPT ![best] = GetAnchorAt(o.marks[best])]
      /\ r.hash = H /\ r.undo = << >> /\ r.tree = best
      /\ r.bad = (ViewHash(H["block"]) # chain \/ ~ ViewHas(o.marks[best]))
    BY <1>1, <1>2, <1>3 DEF Fields
<1>5. /\ DOMAIN hash = {"block", "anchor"}
      /\ \A k \in {"block", "anchor"} :
            DOMAIN hash[k] = {"db", "tip", "view"} /\ hash[k].view = None
      /\ TipHash(hash["anchor"]) = RootOf(chain)
      /\ TipHash(hash["anchor"]) \in Anchors
      /\ TipHash(hash["block"]) = chain
      /\ None \notin Anchors
    BY CoinsChainAssumption DEF Inv, HashInv, TipHash, Anchors
<1>6. \A k \in {"block", "anchor"} :
         /\ DOMAIN H[k] = {"db", "tip", "view"}
         /\ H[k].db = hash[k].db /\ H[k].tip = TipHash(hash[k])
         /\ H[k].view = TipHash(hash[k])
         /\ TipHash(H[k]) = TipHash(hash[k])
  <2>1. \A k \in {"block", "anchor"} : H[k] = GetHash(hash[k])
    BY <1>1, <1>5 DEF H
  <2> QED
    BY <1>5, <2>1, GetHashFacts
<1>7. HashesOK(H)
  <2>1. DOMAIN H = {"block", "anchor"}
    BY <1>1, <1>5 DEF H
  <2> QED
    BY <1>5, <1>6, <2>1 DEF HashesOK
<1>8. /\ H["anchor"].view = RootOf(chain) /\ ViewHash(H["anchor"]) = RootOf(chain)
      /\ ViewHash(H["block"]) = chain
    BY <1>5, <1>6 DEF ViewHash
<1>9. best = RootOf(chain) /\ RootOf(chain) \in Anchors
    BY <1>3, <1>5, <1>8 DEF best
<1> HIDE DEF r
<1>10. ASSUME NEW k \in DOMAIN marks
       PROVE  MarkOK(r.marks[k]) /\ SameMark(o.marks[k], r.marks[k])
  <2>1. MarkOK(o.marks[k]) /\ DOMAIN o.marks = DOMAIN marks
    BY <1>1 DEF ViewOK
  <2>2. MarkOK(GetAnchorAt(o.marks[k])) /\ SameMark(o.marks[k], GetAnchorAt(o.marks[k]))
    BY <2>1, ReadMark
  <2>3. r.marks[k] = GetAnchorAt(o.marks[k]) \/ r.marks[k] = o.marks[k]
    BY <1>4, <2>1
  <2> QED
    BY <2>1, <2>2, <2>3 DEF SameMark
<1>11. ViewOK(r)
    BY <1>1, <1>4, <1>10 DEF ViewOK, SameMark
<1>12. ShowsCoins(r, chain, TxsOf(chain), SpentBy(TxsOf(chain)))
    BY <1>1, <1>4 DEF ShowsCoins
<1>13. ShowsMarks(r, RevealedBy(TxsOf(chain)))
  <2> SUFFICES ASSUME NEW n \in Nullifiers
               PROVE  ViewHas(r.marks[n]) <=> n \in RevealedBy(TxsOf(chain))
    BY DEF ShowsMarks
  <2>1. n \in DOMAIN marks
    BY DEF Inv, MarksInv
  <2>2. ViewHas(r.marks[n]) = ViewHas(o.marks[n])
    BY <1>10, <2>1 DEF SameMark
  <2>3. ViewHas(o.marks[n]) <=> n \in RevealedBy(TxsOf(chain))
    BY <1>1 DEF ShowsMarks
  <2> QED
    BY <2>2, <2>3
<1>14. ShowsAnchors(r, chain)
  <2> SUFFICES ASSUME NEW k \in Roots
               PROVE  ViewHas(r.marks[k]) <=> k \in RootsOf(chain)
    BY DEF ShowsAnchors
  <2>1. k \in DOMAIN marks
    BY DEF Inv, MarksInv
  <2>2. ViewHas(r.marks[k]) = ViewHas(o.marks[k])
    BY <1>10, <2>1 DEF SameMark
  <2>3. ViewHas(o.marks[k]) <=> k \in RootsOf(chain)
    BY <1>1 DEF ShowsAnchors
  <2> QED
    BY <2>2, <2>3
<1>15. r.bad = FALSE
  <2>1. RootOf(chain) \in Roots /\ RootOf(chain) \in RootsOf(chain)
    BY ChainRoot DEF Inv
  <2>2. ViewHas(o.marks[best])
    BY <1>1, <1>9, <2>1 DEF ShowsAnchors
  <2> QED
    BY <1>4, <1>8, <2>2
<1> QED
    BY <1>4, <1>7, <1>8, <1>9, <1>11, <1>12, <1>13, <1>14, <1>15 DEF r

\* The loop of ConnectBlock: after i transactions, if none was refused, the view
\* shows them, they fit, and i undo records undo them.
LEMMA ConnectingView ==
    ASSUME Inv, Len(chain) < MaxHeight, NEW block \in Blocks[Len(chain) + 1]
    PROVE  LET r == Connecting(block)[Len(block)]
               T == TxsOf(chain) \cup Range(block)
           IN /\ ViewOK(r) /\ r.hash = BeginConnect.hash
              /\ ShowsAnchors(r, chain) /\ r.bad = FALSE
              /\ r.valid => /\ NoConflict(T)
                            /\ r.tree = RootOf(Append(chain, block))
                            /\ ShowsCoins(r, chain, T, SpentBy(T))
                            /\ ShowsMarks(r, RevealedBy(T))
                            /\ BlockOK(chain, block, r.undo)
                            /\ Range(block) \cap TxsOf(chain) = {}
<1> DEFINE n == Len(block)
           f == Connecting(block)
           U(i) == Upto(chain, block, i)
           D(i) == /\ f[i].undo \in Seq(Seq(Nat)) /\ Len(f[i].undo) = i
                   /\ \A k \in 1..i : /\ Fits(U(k - 1), block[k])
                                      /\ Undoes(f[i].undo[k], chain, U(k - 1), block[k])
           V(i) == /\ NoConflict(U(i))
                   /\ ShowsCoins(f[i], chain, U(i), SpentBy(U(i)))
                   /\ ShowsMarks(f[i], RevealedBy(U(i)))
                   /\ f[i].tree = TreesIn(RootOf(chain), block)[i]
           P(i) == /\ ViewOK(f[i]) /\ f[i].hash = BeginConnect.hash
                   /\ f[i].tree \in Anchors
                   /\ ShowsAnchors(f[i], chain) /\ f[i].bad = FALSE
                   /\ f[i].valid => V(i) /\ D(i)
           E == {i \in Nat : i <= n => P(i)}
<1>1. IsChain(chain) /\ DOMAIN marks = Nullifiers \cup Roots
    BY DEF Inv, ChainInv, MarksInv
<1>2. block \in Seq(Txids) /\ n \in Nat /\ TxsOf(chain) \subseteq Txids
    BY <1>1, ChainFacts
<1>3. /\ U(0) = TxsOf(chain)
      /\ U(n) = TxsOf(chain) \cup Range(block)
      /\ \A i \in 1..n : U(i) = U(i - 1) \cup {block[i]}
    BY <1>2, UptoFacts
<1>4. \A i \in 0..n : U(i) \subseteq Txids /\ TxsOf(chain) \subseteq U(i)
    BY <1>2 DEF Upto
<1>5. /\ f[0] = CheckDuplicates(BeginConnect, block)
      /\ \A k \in 1..n : f[k] = ConnectTx(f[k - 1], block[k], Len(chain) + 1)
    BY <1>2, ConnectingStates
<1>6. \A t \in Txids \ TxsOf(chain) : IsPruned(TipCoins(coins[t]))
    BY DEF Inv, CoinsInv, UtxoOf, IsPruned, Cleared
<1>7. \A i \in 1..n : block[i] \in Coinbases => block[i] \notin U(i - 1)
  <2> SUFFICES ASSUME NEW i \in 1..n, block[i] \in Coinbases
               PROVE  block[i] \notin U(i - 1)
    OBVIOUS
  <2>1. block[1] \notin TxsOf(chain)
    BY <1>1, CoinbaseNew
  <2>2. Len(chain) + 1 \in Heights
    <3>1. MaxHeight \in Nat /\ Len(chain) \in Nat
      BY <1>1, NoneAssumption DEF IsChain
    <3> QED
      BY <3>1 DEF Heights
  <2>3. \A j \in 2..n : block[j] \notin Coinbases
    BY <2>2, CoinsChainAssumption
  <2>4. i = 1
    BY <1>2, <2>3
  <2> QED
    BY <1>3, <2>1, <2>4
<1> DEFINE g == TreesIn(RootOf(chain), block)
<1>12. g[0] = RootOf(chain) /\ \A i \in 1..n : g[i] = Extended(g[i - 1], block[i])
  <2>1. RootOf(chain) \in Seq(Appends)
    BY ChainRoot, RootsFacts DEF Inv
  <2> QED
    BY <1>2, <2>1, TreesInStates
<1> HIDE DEF f, U, g
<1>8. 0 \in E
  <2>1. /\ ViewOK(BeginConnect)
        /\ ShowsCoins(BeginConnect, chain, TxsOf(chain), SpentBy(TxsOf(chain)))
        /\ ShowsMarks(BeginConnect, RevealedBy(TxsOf(chain)))
        /\ ShowsAnchors(BeginConnect, chain)
        /\ BeginConnect.tree = RootOf(chain) /\ RootOf(chain) \in Anchors
        /\ BeginConnect.undo = << >> /\ BeginConnect.bad = FALSE
    BY BeginConnectView
  <2>2. ViewOK(f[0]) /\ SameView(BeginConnect, f[0])
    BY <1>5, <2>1, CheckDuplicatesView
  <2>3. NoConflict(U(0))
    BY <1>3, ChainNoConflict DEF Inv
  <2>4. ShowsCoins(f[0], chain, U(0), SpentBy(U(0)))
    BY <1>3, <2>1, <2>2 DEF ShowsCoins, SameView
  <2>5. ShowsMarks(f[0], RevealedBy(U(0)))
    <3> SUFFICES ASSUME NEW x \in Nullifiers
                 PROVE  ViewHas(f[0].marks[x]) <=> x \in RevealedBy(U(0))
      BY DEF ShowsMarks
    <3>1. ViewHas(f[0].marks[x]) = ViewHas(BeginConnect.marks[x])
      BY <1>1, <2>2 DEF SameView
    <3>2. ViewHas(BeginConnect.marks[x]) <=> x \in RevealedBy(U(0))
      BY <1>3, <2>1 DEF ShowsMarks
    <3> QED
      BY <3>1, <3>2
  <2>6. /\ f[0].hash = BeginConnect.hash /\ f[0].undo = << >> /\ f[0].bad = FALSE
        /\ f[0].tree \in Anchors /\ f[0].tree = g[0]
    BY <1>12, <2>1, <2>2 DEF SameView
  <2>7. D(0)
    BY <2>6
  <2>8. ShowsAnchors(f[0], chain)
    BY <1>1, <2>1, <2>2 DEF SameView, ShowsAnchors
  <2> QED
    BY <2>2, <2>3, <2>4, <2>5, <2>6, <2>7, <2>8 DEF g
<1>9. ASSUME NEW i \in Nat, i \in E
      PROVE  i + 1 \in E
  <2> HIDE DEF P
  <2> SUFFICES ASSUME i + 1 <= n
               PROVE  P(i + 1)
    OBVIOUS
  <2> USE DEF P
  <2> DEFINE tx == block[i + 1]
             s == f[i]
             r == f[i + 1]
             T == U(i)
  <2>1. P(i)
    BY <1>2, <1>9
  <2>2. i + 1 \in 1..n /\ (i + 1) - 1 = i /\ i \in 0..n
    BY <1>2
  <2>3. r = ConnectTx(s, tx, Len(chain) + 1)
    BY <1>5, <2>2
  <2>4. U(i + 1) = T \cup {tx}
    BY <1>3, <2>2
  <2>5. T \in SUBSET Txids /\ TxsOf(chain) \subseteq T
    BY <1>4, <2>2
  <2>6. tx \in Txids /\ (tx \in Coinbases => tx \notin T)
    BY <1>2, <1>7, <2>2
  <2>7. /\ ViewOK(s) /\ s.tree \in Anchors /\ s.hash = BeginConnect.hash
        /\ ShowsAnchors(s, chain) /\ s.bad = FALSE
    BY <2>1
  <2>8. s.valid => /\ NoConflict(T)
                   /\ ShowsCoins(s, chain, T, SpentBy(T))
                   /\ ShowsMarks(s, RevealedBy(T))
                   /\ s.tree = g[i]
    BY <2>1 DEF g
  <2>9. s.valid => D(i)
    BY <2>1
  <2> HIDE DEF s, T, tx, D
  <2>10. /\ ViewOK(r) /\ r.hash = s.hash /\ r.tree \in Anchors
         /\ SameAnchors(s, r) /\ StaysClean(s, r)
         /\ r.valid => /\ s.valid
                       /\ Fits(T, tx)
                       /\ r.tree = Extended(s.tree, tx)
                       /\ ShowsCoins(r, chain, T \cup {tx}, SpentBy(T \cup {tx}))
                       /\ ShowsMarks(r, RevealedBy(T \cup {tx}))
                       /\ \E u \in Seq(Nat) : Undoes(u, chain, T, tx) /\ Grown(s.undo, u, r.undo)
    <3> DEFINE y == ConnectTx(s, tx, Len(chain) + 1)
    <3>1. /\ ViewOK(y) /\ y.hash = s.hash /\ y.tree \in Anchors
          /\ SameAnchors(s, y) /\ StaysClean(s, y)
          /\ y.valid => /\ s.valid
                        /\ Fits(T, tx)
                        /\ y.tree = Extended(s.tree, tx)
                        /\ ShowsCoins(y, chain, T \cup {tx}, SpentBy(T \cup {tx}))
                        /\ ShowsMarks(y, RevealedBy(T \cup {tx}))
                        /\ \E u \in Seq(Nat) : Undoes(u, chain, T, tx) /\ Grown(s.undo, u, y.undo)
      BY <1>1, <1>6, <2>5, <2>6, <2>7, <2>8, ConnectTxView
    <3>2. y = r
      BY <2>3
    <3> HIDE DEF y, r
    <3>3. ASSUME NEW q, q = y
          PROVE  /\ ViewOK(q) /\ q.hash = s.hash /\ q.tree \in Anchors
                 /\ SameAnchors(s, q) /\ StaysClean(s, q)
                 /\ q.valid => /\ s.valid
                               /\ Fits(T, tx)
                               /\ q.tree = Extended(s.tree, tx)
                               /\ ShowsCoins(q, chain, T \cup {tx}, SpentBy(T \cup {tx}))
                               /\ ShowsMarks(q, RevealedBy(T \cup {tx}))
                               /\ \E u \in Seq(Nat) : Undoes(u, chain, T, tx) /\ Grown(s.undo, u, q.undo)
      BY <3>1, <3>3
    <3> QED
      BY <3>2, <3>3, Zenon
  <2>11. ASSUME r.valid
         PROVE  D(i + 1)
    <3>1. s.valid /\ Fits(T, tx)
      BY <2>10, <2>11
    <3>2. PICK u \in Seq(Nat) : Undoes(u, chain, T, tx) /\ r.undo = Append(s.undo, u)
      BY <2>10, <2>11 DEF Grown
    <3>3. /\ s.undo \in Seq(Seq(Nat)) /\ Len(s.undo) = i
          /\ \A k \in 1..i : /\ Fits(U(k - 1), block[k])
                             /\ Undoes(s.undo[k], chain, U(k - 1), block[k])
      BY <2>9, <3>1 DEF D, s
    <3>4. /\ r.undo \in Seq(Seq(Nat)) /\ Len(r.undo) = i + 1
          /\ \A k \in 1..i : r.undo[k] = s.undo[k]
          /\ r.undo[i + 1] = u
      BY <3>2, <3>3
    <3>5. \A k \in 1..(i + 1) : k \in 1..i \/ k = i + 1
      OBVIOUS
    <3>6. \A k \in 1..(i + 1) : /\ Fits(U(k - 1), block[k])
                                /\ Undoes(r.undo[k], chain, U(k - 1), block[k])
      <4> SUFFICES ASSUME NEW k \in 1..(i + 1)
                   PROVE  /\ Fits(U(k - 1), block[k])
                          /\ Undoes(r.undo[k], chain, U(k - 1), block[k])
        OBVIOUS
      <4>1. CASE k \in 1..i
        BY <3>3, <3>4, <4>1
      <4>2. CASE k = i + 1
        BY <3>1, <3>2, <3>4, <4>2, <2>2 DEF T, tx
      <4> QED
        BY <3>5, <4>1, <4>2
    <3> QED
      BY <3>4, <3>6 DEF D
  <2>12. ASSUME r.valid
         PROVE  V(i + 1)
    <3>1. NoConflict(T \cup {tx})
      BY <2>5, <2>6, <2>8, <2>10, <2>12, FitsFacts
    <3>2. r.tree = g[i + 1]
      <4>1. g[i + 1] = Extended(g[i], tx)
        BY <1>12, <2>2 DEF tx
      <4> QED
        BY <2>8, <2>10, <2>12, <4>1
    <3> QED
      BY <2>4, <2>10, <2>12, <3>1, <3>2 DEF g
  <2>13. ShowsAnchors(r, chain) /\ r.bad = FALSE
    BY <2>7, <2>10 DEF SameAnchors, ShowsAnchors, StaysClean
  <2> QED
    BY <2>7, <2>10, <2>11, <2>12, <2>13 DEF r
<1>10. P(n)
  <2>1. Nat \subseteq E
    <3> HIDE DEF E
    <3> QED
      BY <1>8, <1>9, NatSetInduction
  <2> QED
    BY <2>1, <1>2
<1>11. ASSUME f[n].valid
       PROVE  BlockOK(chain, block, f[n].undo) /\ Range(block) \cap TxsOf(chain) = {}
  <2>1. D(n)
    BY <1>10, <1>11
  <2>2. BlockOK(chain, block, f[n].undo)
    BY <2>1 DEF BlockOK, U
  <2>3. ASSUME NEW t \in Range(block)
        PROVE  t \notin TxsOf(chain)
    <3>1. PICK k \in 1..n : t = block[k]
      BY <1>2, <2>3 DEF Range
    <3>2. Fits(U(k - 1), t) /\ k - 1 \in 0..n
      BY <2>1, <3>1, <1>2
    <3> QED
      BY <1>4, <3>2 DEF Fits
  <2> QED
    BY <2>2, <2>3
<1> QED
  <2>1. U(n) = TxsOf(chain) \cup Range(block)
    BY <1>3
  <2>2. g[n] = RootOf(Append(chain, block))
    BY <1>1, <1>2, RootsAppend DEF IsChain, g
  <2> QED
    BY <1>10, <1>11, <2>1, <2>2 DEF f, g

\* Setting the hash of the view.
LEMMA SetHashView ==
    ASSUME NEW x, HashesOK(x), NEW k \in {"block", "anchor"}, NEW h, NEW c,
           DOMAIN c = {"db", "tip", "view"}, c.db = x[k].db,
           TipHash(c) = TipHash(x[k]),
           k = "anchor" => (c.tip # None => c.tip \in Anchors)
    PROVE  /\ HashesOK([x EXCEPT ![k] = SetHash(c, h)])
           /\ [x EXCEPT ![k] = SetHash(c, h)][k].view = h
           /\ \A j \in {"block", "anchor"} \ {k} : [x EXCEPT ![k] = SetHash(c, h)][j] = x[j]
<1> DEFINE d == SetHash(c, h)
           y == [x EXCEPT ![k] = d]
<1>1. /\ DOMAIN d = {"db", "tip", "view"} /\ d.db = c.db /\ d.tip = c.tip /\ d.view = h
    BY DEF SetHash
<1>2. TipHash(d) = TipHash(c)
    BY <1>1 DEF TipHash
<1> HIDE DEF d
<1>3. DOMAIN x = {"block", "anchor"}
    BY DEF HashesOK
<1>4. /\ DOMAIN y = {"block", "anchor"} /\ y[k] = d
      /\ \A j \in {"block", "anchor"} \ {k} : y[j] = x[j]
    BY <1>3
<1> HIDE DEF y
<1>5. \A j \in {"block", "anchor"} :
         /\ DOMAIN y[j] = {"db", "tip", "view"}
         /\ y[j].db = hash[j].db
         /\ TipHash(y[j]) = TipHash(hash[j])
  <2> SUFFICES ASSUME NEW j \in {"block", "anchor"}
               PROVE  /\ DOMAIN y[j] = {"db", "tip", "view"}
                      /\ y[j].db = hash[j].db
                      /\ TipHash(y[j]) = TipHash(hash[j])
    OBVIOUS
  <2>1. /\ DOMAIN x[j] = {"db", "tip", "view"}
        /\ x[j].db = hash[j].db
        /\ TipHash(x[j]) = TipHash(hash[j])
    BY DEF HashesOK
  <2>2. CASE j = k
    BY <1>1, <1>2, <1>4, <2>1, <2>2
  <2>3. CASE j # k
    BY <1>4, <2>1, <2>3
  <2> QED
    BY <2>2, <2>3
<1>6. y["anchor"].tip # None => y["anchor"].tip \in Anchors
  <2>1. CASE k = "anchor"
    BY <1>1, <1>4, <2>1
  <2>2. CASE k # "anchor"
    BY <1>4, <2>2 DEF HashesOK
  <2> QED
    BY <2>1, <2>2
<1>7. HashesOK(y)
    BY <1>4, <1>5, <1>6 DEF HashesOK
<1> QED
    BY <1>1, <1>4, <1>7 DEF y, d

\* Writing an anchor's mark, whichever way, leaves the other marks alone.
LEMMA AnchorMarkView ==
    ASSUME Inv, NEW s, ViewOK(s), NEW a \in Anchors, NEW m,
           a \in DOMAIN marks => /\ MarkOK(m) /\ m.db = marks[a].db
                                 /\ TipHas(m) = TipHas(marks[a]),
           NEW r, DOMAIN r = Fields, r.coins = s.coins,
           DOMAIN r.marks = DOMAIN marks,
           \A k \in DOMAIN marks \ {a} : r.marks[k] = s.marks[k],
           a \in DOMAIN marks => r.marks[a] = m
    PROVE  /\ ViewOK(r)
           /\ \A n \in Nullifiers : r.marks[n] = s.marks[n]
<1>1. a \notin Nullifiers
    BY CoinsChainAssumption DEF Anchors
<1>2. DOMAIN s.marks = DOMAIN marks /\ DOMAIN marks = Nullifiers \cup Roots
    BY DEF ViewOK, Inv, MarksInv
<1>3. \A n \in Nullifiers : r.marks[n] = s.marks[n]
    BY <1>1, <1>2
<1>4. ASSUME NEW k \in DOMAIN marks
      PROVE  /\ MarkOK(r.marks[k])
             /\ r.marks[k].db = marks[k].db
             /\ TipHas(r.marks[k]) = TipHas(marks[k])
  <2>1. CASE k = a
    <3>1. r.marks[k] = m
      BY <1>2, <2>1
    <3> QED
      BY <2>1, <3>1
  <2>2. CASE k # a
    <3>1. r.marks[k] = s.marks[k]
      BY <1>2, <2>2
    <3> QED
      BY <3>1 DEF ViewOK
  <2> QED
    BY <2>1, <2>2
<1>5. ViewOK(r)
    BY <1>4 DEF ViewOK
<1> QED
    BY <1>3, <1>5

\* PushAnchor: the view shows the anchors of a chain whose tree is the view's.
LEMMA PushAnchorView ==
    ASSUME Inv, NEW s, ViewOK(s), HashesOK(s.hash), ShowsAnchors(s, chain),
           s.hash["anchor"].view = RootOf(chain), RootOf(chain) \in RootsOf(chain),
           NEW path, s.tree = RootOf(path), RootOf(path) \in Roots,
           RootsOf(path) = RootsOf(chain) \cup {RootOf(path)}
    PROVE  LET r == PushAnchor(s)
           IN /\ ViewOK(r) /\ HashesOK(r.hash)
              /\ r.hash["anchor"].view = RootOf(path) /\ ShowsAnchors(r, path)
              /\ r.coins = s.coins /\ r.undo = s.undo /\ r.valid = s.valid
              /\ r.bad = s.bad
              /\ \A n \in Nullifiers : r.marks[n] = s.marks[n]
<1> DEFINE r == PushAnchor(s)
           m == SetMark(s.marks[s.tree], TRUE)
           H == [s.hash EXCEPT !["anchor"] = SetHash(s.hash["anchor"], s.tree)]
<1>0. /\ ViewHash(s.hash["anchor"]) = RootOf(chain)
      /\ s.tree \in Roots /\ s.tree \in Anchors
  <2>1. s.tree \in Roots /\ s.tree \in Anchors
    BY RootsFacts
  <2>2. RootOf(chain) # None
    <3>1. chain \in Seq(Seq(Txids))
      BY DEF Inv, ChainInv, IsChain
    <3>2. RootOf(chain) \in Anchors
      BY <3>1, RootsGrow, RootsFacts
    <3> QED
      BY <3>2, CoinsChainAssumption DEF Anchors
  <2> QED
    BY <2>1, <2>2 DEF ViewHash
<1>1. CASE ViewHash(s.hash["anchor"]) = s.tree
  <2>1. r = s
    BY <1>1 DEF PushAnchor
  <2>2. RootOf(path) = RootOf(chain) /\ RootsOf(path) = RootsOf(chain)
    BY <1>0, <1>1
  <2>3. ShowsAnchors(s, path)
    BY <2>2 DEF ShowsAnchors
  <2> QED
    BY <2>1, <2>2, <2>3
<1>2. CASE ViewHash(s.hash["anchor"]) # s.tree
  <2>1. DOMAIN s = Fields
    BY DEF ViewOK
  <2>2. /\ DOMAIN r = Fields /\ r.coins = s.coins /\ r.undo = s.undo
        /\ r.valid = s.valid /\ r.bad = s.bad /\ r.hash = H
        /\ r.marks = [s.marks EXCEPT ![s.tree] = m]
    BY <1>2, <2>1 DEF PushAnchor, Fields
  <2> HIDE DEF r
  <2>3. HashesOK(H) /\ H["anchor"].view = s.tree
    <3> DEFINE c == s.hash["anchor"]
               x == s.hash
    <3>1. /\ DOMAIN c = {"db", "tip", "view"} /\ c.db = x["anchor"].db
          /\ TipHash(c) = TipHash(x["anchor"])
          /\ (c.tip # None => c.tip \in Anchors)
      BY DEF HashesOK
    <3> HIDE DEF c, x
    <3>2. HashesOK(x)
      BY DEF x
    <3>3. /\ HashesOK([x EXCEPT !["anchor"] = SetHash(c, s.tree)])
          /\ [x EXCEPT !["anchor"] = SetHash(c, s.tree)]["anchor"].view = s.tree
      BY <3>1, <3>2, SetHashView
    <3> QED
      BY <3>3 DEF x, c
  <2>4. s.tree \in DOMAIN marks => /\ MarkOK(m) /\ m.db = marks[s.tree].db
                                   /\ TipHas(m) = TipHas(marks[s.tree])
    <3> SUFFICES ASSUME s.tree \in DOMAIN marks
                 PROVE  /\ MarkOK(m) /\ m.db = marks[s.tree].db
                        /\ TipHas(m) = TipHas(marks[s.tree])
      OBVIOUS
    <3>1. /\ MarkOK(s.marks[s.tree]) /\ s.marks[s.tree].db = marks[s.tree].db
          /\ TipHas(s.marks[s.tree]) = TipHas(marks[s.tree])
      BY DEF ViewOK
    <3>2. MarkOK(m) /\ m.db = s.marks[s.tree].db /\ TipHas(m) = TipHas(s.marks[s.tree])
      BY <3>1, WriteMark
    <3> QED
      BY <3>1, <3>2
  <2>5. ViewHas(m)
    <3>1. s.tree \in DOMAIN marks
      BY <1>0 DEF Inv, MarksInv
    <3>2. MarkOK(s.marks[s.tree])
      BY <3>1 DEF ViewOK
    <3>3. ViewHas(m) = TRUE
      BY <3>2, WriteMark
    <3> QED
      BY <3>3
  <2> HIDE DEF m, H
  <2>6. /\ ViewOK(r)
        /\ \A n \in Nullifiers : r.marks[n] = s.marks[n]
        /\ \A k \in Roots \ {s.tree} : r.marks[k] = s.marks[k]
        /\ s.tree \in Roots => r.marks[s.tree] = m
    <3> DEFINE a == s.tree
    <3>1. DOMAIN s.marks = DOMAIN marks /\ DOMAIN marks = Nullifiers \cup Roots
      BY DEF ViewOK, Inv, MarksInv
    <3>2. /\ a \in Anchors /\ DOMAIN r = Fields /\ r.coins = s.coins
          /\ DOMAIN r.marks = DOMAIN marks
          /\ \A k \in DOMAIN marks \ {a} : r.marks[k] = s.marks[k]
          /\ a \in DOMAIN marks => r.marks[a] = m
          /\ a \in DOMAIN marks => /\ MarkOK(m) /\ m.db = marks[a].db
                                   /\ TipHas(m) = TipHas(marks[a])
      BY <1>0, <2>2, <2>4, <3>1
    <3> HIDE DEF a
    <3>3. /\ ViewOK(r)
          /\ \A n \in Nullifiers : r.marks[n] = s.marks[n]
      BY <3>2, AnchorMarkView
    <3> QED
      BY <3>1, <3>2, <3>3 DEF a
  <2>7. ShowsAnchors(r, path)
    <3> SUFFICES ASSUME NEW k \in Roots
                 PROVE  ViewHas(r.marks[k]) <=> k \in RootsOf(path)
      BY DEF ShowsAnchors
    <3>1. CASE k = s.tree
      BY <2>5, <2>6, <3>1
    <3>2. CASE k # s.tree
      <4>1. ViewHas(s.marks[k]) <=> k \in RootsOf(chain)
        BY DEF ShowsAnchors
      <4>2. k \in RootsOf(path) <=> k \in RootsOf(chain)
        BY <3>2
      <4>3. r.marks[k] = s.marks[k]
        BY <2>6, <3>2
      <4> QED
        BY <4>1, <4>2, <4>3
    <3> QED
      BY <3>1, <3>2
  <2> QED
    BY <2>2, <2>3, <2>6, <2>7 DEF r
<1> QED
    BY <1>1, <1>2

\* ConnectBlock: the view is sound, and if the block is accepted it shows the
\* chain with the block, and the undo data is the block's.
LEMMA ConnectBlockView ==
    ASSUME Inv, Len(chain) < MaxHeight, NEW block \in Blocks[Len(chain) + 1]
    PROVE  LET s == ConnectBlock(block)
               path == Append(chain, block)
           IN /\ ViewOK(s) /\ HashesOK(s.hash) /\ s.bad = FALSE
              /\ s.valid => /\ IsChain(path) /\ path # << >>
                            /\ s.hash["block"].view = path
                            /\ s.hash["anchor"].view = RootOf(path)
                            /\ RootOf(path) \in Roots
                            /\ Range(RootOf(path)) \subseteq TxsOf(path)
                            /\ ShowsAnchors(s, path)
                            /\ \A t \in Txids : ViewCoins(s.coins[t]) = UtxoOf(path, t)
                            /\ ShowsMarks(s, RevealedBy(TxsOf(path)))
                            /\ NoConflict(TxsOf(path))
                            /\ BlockOK(Front(path), Last(path), s.undo)
<1> DEFINE r == Connecting(block)[Len(block)]
           T == TxsOf(chain) \cup Range(block)
           path == Append(chain, block)
           a == PushAnchor(r)
           b == PushHistory(a, path)
           s == ConnectBlock(block)
<1>1. /\ ViewOK(r) /\ r.hash = BeginConnect.hash
      /\ ShowsAnchors(r, chain) /\ r.bad = FALSE
      /\ r.valid => /\ NoConflict(T)
                    /\ r.tree = RootOf(path)
                    /\ ShowsCoins(r, chain, T, SpentBy(T))
                    /\ ShowsMarks(r, RevealedBy(T))
                    /\ BlockOK(chain, block, r.undo)
                    /\ Range(block) \cap TxsOf(chain) = {}
    BY ConnectingView
<1>2. s = IF ~ r.valid THEN r
          ELSE [b EXCEPT !.hash["block"] = SetHash(@, path)]
    BY DEF ConnectBlock
<1>3. HashesOK(r.hash) /\ r.hash["anchor"].view = RootOf(chain)
    BY <1>1, BeginConnectView
<1> HIDE DEF r
<1>4. CASE ~ r.valid
  <2>1. s = r
    BY <1>2, <1>4
  <2> QED
    BY <1>1, <1>3, <1>4, <2>1
<1>5. CASE r.valid
  <2>0. /\ RootOf(path) \in Roots /\ Range(RootOf(path)) \subseteq TxsOf(path)
        /\ RootsOf(path) = RootsOf(chain) \cup {RootOf(path)}
        /\ RootOf(chain) \in RootsOf(chain)
    <3>1. IsChain(chain) /\ chain \in Seq(Seq(Txids)) /\ block \in Seq(Txids)
      BY ChainFacts DEF Inv, ChainInv, IsChain
    <3>2. /\ RootOf(chain) \in Roots /\ Range(RootOf(chain)) \subseteq TxsOf(chain)
          /\ RootOf(chain) \in RootsOf(chain)
      BY ChainRoot DEF Inv
    <3>3. RootOf(path) \in Roots /\ Range(RootOf(path)) \subseteq TxsOf(path)
      BY <1>1, <1>5, <3>1, <3>2, BlockRoot
    <3>4. RootsOf(path) = RootsOf(chain) \cup {RootOf(path)}
      BY <3>1, RootsAppend
    <3> QED
      BY <3>2, <3>3, <3>4
  <2>1. /\ ViewOK(a) /\ HashesOK(a.hash) /\ a.hash["anchor"].view = RootOf(path)
        /\ ShowsAnchors(a, path)
        /\ a.coins = r.coins /\ a.undo = r.undo /\ a.bad = FALSE
        /\ \A n \in Nullifiers : a.marks[n] = r.marks[n]
    <3> HIDE DEF path
    <3>1. /\ ViewOK(a) /\ HashesOK(a.hash) /\ a.hash["anchor"].view = RootOf(path)
          /\ ShowsAnchors(a, path)
          /\ a.coins = r.coins /\ a.undo = r.undo /\ a.bad = r.bad
          /\ \A n \in Nullifiers : a.marks[n] = r.marks[n]
      BY <1>1, <1>3, <1>5, <2>0, PushAnchorView
    <3> HIDE DEF a
    <3> QED
      BY <1>1, <3>1
  <2> HIDE DEF a
  <2>2. /\ DOMAIN b = Fields /\ b.coins = a.coins /\ b.marks = a.marks
        /\ b.hash = a.hash /\ b.undo = a.undo /\ b.bad = a.bad
    BY <2>1 DEF PushHistory, ViewOK, Fields
  <2> HIDE DEF b
  <2> DEFINE H == [b.hash EXCEPT !["block"] = SetHash(b.hash["block"], path)]
  <2>3. s = [b EXCEPT !.hash["block"] = SetHash(@, path)]
    BY <1>2, <1>5
  <2>4. /\ DOMAIN s = Fields /\ s.coins = b.coins /\ s.marks = b.marks
        /\ s.undo = b.undo /\ s.hash = H /\ s.bad = b.bad
    BY <2>2, <2>3 DEF Fields
  <2> HIDE DEF s
  <2>5. HashesOK(H) /\ H["block"].view = path /\ H["anchor"] = b.hash["anchor"]
    <3> DEFINE x == b.hash
               c == b.hash["block"]
    <3>1. /\ DOMAIN c = {"db", "tip", "view"} /\ c.db = x["block"].db
          /\ TipHash(c) = TipHash(x["block"]) /\ HashesOK(x)
      BY <2>1, <2>2 DEF HashesOK
    <3> HIDE DEF x, c, path
    <3>2. "block" = "anchor" => (c.tip # None => c.tip \in Anchors)
      OBVIOUS
    <3>3. ASSUME NEW k \in {"block", "anchor"}, k = "block"
          PROVE  /\ HashesOK([x EXCEPT ![k] = SetHash(c, path)])
                 /\ [x EXCEPT ![k] = SetHash(c, path)][k].view = path
      <4>1. /\ DOMAIN c = {"db", "tip", "view"} /\ c.db = x[k].db
            /\ TipHash(c) = TipHash(x[k]) /\ HashesOK(x)
            /\ (k = "anchor" => (c.tip # None => c.tip \in Anchors))
        BY <3>1, <3>3
      <4> QED
        BY ONLY <4>1, <3>3, SetHashView
    <3>4. [x EXCEPT !["block"] = SetHash(c, path)]["anchor"] = x["anchor"]
      BY <3>1 DEF HashesOK
    <3> QED
      BY <3>3, <3>4 DEF x, c
  <2>6. ViewOK(s)
    BY <2>1, <2>2, <2>4 DEF ViewOK
  <2>7. IsChain(chain)
    BY DEF Inv, ChainInv
  <2>8. /\ IsChain(path) /\ path # << >> /\ TxsOf(path) = T
        /\ Front(path) = chain /\ Last(path) = block
    BY <2>7, ChainFacts
  <2>9. ASSUME NEW t \in Txids
        PROVE  ViewCoins(s.coins[t]) = UtxoOf(path, t)
    <3>1. UtxoOf(path, t) = Shown(chain, T, SpentBy(T), t)
      BY <1>1, <1>5, <2>7, UtxoFacts
    <3>2. ViewCoins(r.coins[t]) = Shown(chain, T, SpentBy(T), t)
      BY <1>1, <1>5 DEF ShowsCoins
    <3> QED
      BY <2>1, <2>2, <2>4, <3>1, <3>2
  <2>10. ShowsMarks(s, RevealedBy(TxsOf(path)))
    <3>1. ShowsMarks(r, RevealedBy(T)) /\ \A n \in Nullifiers : s.marks[n] = r.marks[n]
      BY <1>1, <1>5, <2>1, <2>2, <2>4
    <3>2. ShowsMarks(s, RevealedBy(T))
      BY <3>1 DEF ShowsMarks
    <3> QED
      BY <2>8, <3>2
  <2>11. NoConflict(TxsOf(path)) /\ BlockOK(Front(path), Last(path), s.undo)
    BY <1>1, <1>5, <2>1, <2>2, <2>4, <2>8
  <2>12. /\ HashesOK(s.hash) /\ s.hash["block"].view = path
         /\ s.hash["anchor"].view = RootOf(path) /\ s.bad = FALSE
    BY <2>1, <2>2, <2>4, <2>5
  <2>13. ShowsAnchors(s, path)
    BY <2>1, <2>2, <2>4 DEF ShowsAnchors
  <2> QED
    BY <2>0, <2>6, <2>8, <2>9, <2>10, <2>11, <2>12, <2>13 DEF s
<1> QED
    BY <1>4, <1>5

-----------------------------------------------------------------------------
(***************************************************************************)
(* The end of a handler.                                                   *)
(***************************************************************************)

\* A view that is flushed becomes what pcoinsTip shows.
LEMMA FlushedStep ==
    ASSUME Inv, NEW s, ViewOK(s), HashesOK(s.hash), Flushed(s),
           NEW ch, IsChain(ch), chain' = ch, dbChain' = dbChain,
           s.hash["block"].view = ch, s.hash["anchor"].view = RootOf(ch),
           \A t \in Txids : ViewCoins(s.coins[t]) = UtxoOf(ch, t),
           ShowsMarks(s, RevealedBy(TxsOf(ch))), ShowsAnchors(s, ch), s.bad = FALSE
    PROVE  CoinsInv' /\ MarksInv' /\ HashInv' /\ fault' = FALSE
<1>0. fault' = FALSE
  <2>1. fault' = (fault \/ s.bad \/ ~ BatchWriteAsserts(s))
    BY DEF Flushed
  <2>2. \A t \in Txids : s.coins[t].view # None /\ s.coins[t].tip = None
                              => s.coins[t].view.fresh
    BY DEF ViewOK, CellOK
  <2>3. BatchWriteAsserts(s)
    BY <2>2 DEF BatchWriteAsserts
  <2> QED
    BY <2>1, <2>3 DEF Inv
<1>1. CoinsInv'
  <2>1. coins' = [t \in Txids |-> BatchWriteCoins(s.coins[t])]
    BY DEF Flushed
  <2>2. ASSUME NEW t \in Txids
        PROVE  /\ CellOK(coins'[t]) /\ coins'[t].view = None
               /\ TipCoins(coins'[t]) = UtxoOf(ch, t)
               /\ coins'[t].db = UtxoOf(dbChain, t)
    <3>1. CellOK(s.coins[t]) /\ s.coins[t].db = coins[t].db
      BY DEF ViewOK
    <3>2. /\ CellOK(BatchWriteCoins(s.coins[t])) /\ BatchWriteCoins(s.coins[t]).view = None
          /\ BatchWriteCoins(s.coins[t]).db = s.coins[t].db
          /\ TipCoins(BatchWriteCoins(s.coins[t])) = ViewCoins(s.coins[t])
      BY <3>1, BatchWriteCell
    <3>3. coins'[t] = BatchWriteCoins(s.coins[t])
      BY <2>1
    <3>4. coins[t].db = UtxoOf(dbChain, t)
      BY DEF Inv, CoinsInv
    <3> QED
      BY <3>1, <3>2, <3>3, <3>4
  <2>3. coins' \in [Txids -> Closed(CoinCells)]
    BY <2>1, <2>2 DEF Closed, CellOK
  <2> QED
    BY <2>2, <2>3 DEF CoinsInv
<1>2. MarksInv'
  <2>1. marks' = [k \in DOMAIN marks |-> BatchWriteMark(s.marks[k])]
    BY DEF Flushed
  <2>2. ASSUME NEW k \in DOMAIN marks
        PROVE  /\ MarkOK(marks'[k]) /\ marks'[k].view = None
               /\ marks'[k].db = marks[k].db
               /\ TipHas(marks'[k]) = ViewHas(s.marks[k])
    <3>1. MarkOK(s.marks[k]) /\ s.marks[k].db = marks[k].db
      BY DEF ViewOK
    <3>2. /\ MarkOK(BatchWriteMark(s.marks[k])) /\ BatchWriteMark(s.marks[k]).view = None
          /\ BatchWriteMark(s.marks[k]).db = s.marks[k].db
          /\ TipHas(BatchWriteMark(s.marks[k])) = ViewHas(s.marks[k])
      BY <3>1, MoveMark
    <3>3. marks'[k] = BatchWriteMark(s.marks[k])
      BY <2>1
    <3> QED
      BY <3>1, <3>2, <3>3
  <2>3. /\ DOMAIN marks = Nullifiers \cup Roots
        /\ \A n \in Nullifiers : marks[n].db <=> n \in RevealedBy(TxsOf(dbChain))
    BY DEF Inv, MarksInv
  <2>4. ASSUME NEW n \in Nullifiers
        PROVE  /\ TipHas(marks'[n]) <=> n \in RevealedBy(TxsOf(ch))
               /\ marks'[n].db <=> n \in RevealedBy(TxsOf(dbChain))
    <3>1. n \in DOMAIN marks
      BY <2>3
    <3>2. ViewHas(s.marks[n]) <=> n \in RevealedBy(TxsOf(ch))
      BY DEF ShowsMarks
    <3> QED
      BY <2>2, <2>3, <3>1, <3>2
  <2>5. DOMAIN marks' = Nullifiers \cup Roots
    BY <2>1, <2>3
  <2>6. \A k \in DOMAIN marks' : MarkOK(marks'[k]) /\ marks'[k].view = None
    BY <2>2, <2>3, <2>5
  <2>7. marks' \in [Nullifiers \cup Roots -> Closed(MarkCells)]
    BY <2>1, <2>3, <2>5, <2>6 DEF Closed, MarkOK
  <2>8. ASSUME NEW k \in Roots
        PROVE  /\ TipHas(marks'[k]) <=> k \in RootsOf(ch)
               /\ marks'[k].db <=> k \in RootsOf(dbChain)
    <3>1. k \in DOMAIN marks
      BY <2>3
    <3>2. ViewHas(s.marks[k]) <=> k \in RootsOf(ch)
      BY DEF ShowsAnchors
    <3>3. marks[k].db <=> k \in RootsOf(dbChain)
      BY DEF Inv, MarksInv
    <3> QED
      BY <2>2, <3>1, <3>2, <3>3
  <2> QED
    BY <2>4, <2>6, <2>7, <2>8 DEF MarksInv
<1>3. HashInv'
  <2>1. hash' = [k \in DOMAIN hash |-> BatchWriteHash(s.hash[k])]
    BY DEF Flushed
  <2>2. /\ DOMAIN hash = {"block", "anchor"} /\ hash["block"].db = dbChain
        /\ hash["anchor"].db = RootOf(dbChain) /\ hash["anchor"].db \in Anchors
    BY DEF Inv, HashInv
  <2>3. ASSUME NEW k \in {"block", "anchor"}
        PROVE  /\ DOMAIN hash'[k] = {"db", "tip", "view"} /\ hash'[k].view = None
               /\ hash'[k].tip = s.hash[k].view /\ hash'[k].db = hash[k].db
    <3>1. DOMAIN s.hash[k] = {"db", "tip", "view"} /\ s.hash[k].db = hash[k].db
      BY DEF HashesOK
    <3>2. hash'[k] = BatchWriteHash(s.hash[k])
      BY <2>1, <2>2
    <3> QED
      BY <3>1, <3>2 DEF BatchWriteHash
  <2>4. ch # None /\ RootOf(ch) \in Anchors /\ RootOf(ch) # None
    <3>1. ch \in Seq(Seq(Txids)) /\ ch # None
      BY CoinsChainAssumption DEF IsChain
    <3>2. RootOf(ch) \in Anchors
      BY <3>1, RootsGrow, RootsFacts
    <3> QED
      BY <3>1, <3>2, CoinsChainAssumption DEF Anchors
  <2>5. TipHash(hash'["block"]) = ch /\ TipHash(hash'["anchor"]) = RootOf(ch)
    BY <2>3, <2>4 DEF TipHash
  <2>6. DOMAIN hash' = {"block", "anchor"}
    BY <2>1, <2>2
  <2> QED
    BY <2>2, <2>3, <2>4, <2>5, <2>6 DEF HashInv
<1> QED
    BY <1>0, <1>1, <1>2, <1>3

\* A view that is dropped leaves no trace.
LEMMA DroppedStep ==
    ASSUME Inv, NEW s, ViewOK(s), HashesOK(s.hash), Dropped(s),
           s.bad = FALSE, chain' = chain, dbChain' = dbChain
    PROVE  CoinsInv' /\ MarksInv' /\ HashInv' /\ fault' = FALSE
<1>0. fault' = FALSE
    BY DEF Dropped, Inv
<1>1. CoinsInv'
  <2>1. coins' = [t \in Txids |-> DropView(s.coins[t])]
    BY DEF Dropped
  <2>2. ASSUME NEW t \in Txids
        PROVE  /\ CellOK(coins'[t]) /\ coins'[t].view = None
               /\ TipCoins(coins'[t]) = UtxoOf(chain, t)
               /\ coins'[t].db = UtxoOf(dbChain, t)
    <3>1. /\ CellOK(s.coins[t]) /\ s.coins[t].db = coins[t].db
          /\ TipCoins(s.coins[t]) = TipCoins(coins[t])
      BY DEF ViewOK
    <3>2. /\ CellOK(DropView(s.coins[t])) /\ DropView(s.coins[t]).view = None
          /\ DropView(s.coins[t]).db = s.coins[t].db
          /\ TipCoins(DropView(s.coins[t])) = TipCoins(s.coins[t])
      BY <3>1, DropCell
    <3>3. coins'[t] = DropView(s.coins[t])
      BY <2>1
    <3>4. coins[t].db = UtxoOf(dbChain, t) /\ TipCoins(coins[t]) = UtxoOf(chain, t)
      BY DEF Inv, CoinsInv
    <3> QED
      BY <3>1, <3>2, <3>3, <3>4
  <2>3. coins' \in [Txids -> Closed(CoinCells)]
    BY <2>1, <2>2 DEF Closed, CellOK
  <2> QED
    BY <2>2, <2>3 DEF CoinsInv
<1>2. MarksInv'
  <2>1. marks' = [k \in DOMAIN marks |-> DropView(s.marks[k])]
    BY DEF Dropped
  <2>2. ASSUME NEW k \in DOMAIN marks
        PROVE  /\ MarkOK(marks'[k]) /\ marks'[k].view = None
               /\ marks'[k].db = marks[k].db
               /\ TipHas(marks'[k]) = TipHas(marks[k])
    <3>1. /\ MarkOK(s.marks[k]) /\ s.marks[k].db = marks[k].db
          /\ TipHas(s.marks[k]) = TipHas(marks[k])
      BY DEF ViewOK
    <3>2. /\ MarkOK(DropView(s.marks[k])) /\ DropView(s.marks[k]).view = None
          /\ DropView(s.marks[k]).db = s.marks[k].db
          /\ TipHas(DropView(s.marks[k])) = TipHas(s.marks[k])
      BY <3>1, MoveMark
    <3>3. marks'[k] = DropView(s.marks[k])
      BY <2>1
    <3> QED
      BY <3>1, <3>2, <3>3
  <2>3. /\ DOMAIN marks = Nullifiers \cup Roots
        /\ \A n \in Nullifiers :
              /\ TipHas(marks[n]) <=> n \in RevealedBy(TxsOf(chain))
              /\ marks[n].db <=> n \in RevealedBy(TxsOf(dbChain))
    BY DEF Inv, MarksInv
  <2>4. ASSUME NEW n \in Nullifiers
        PROVE  /\ TipHas(marks'[n]) <=> n \in RevealedBy(TxsOf(chain))
               /\ marks'[n].db <=> n \in RevealedBy(TxsOf(dbChain))
    <3>1. n \in DOMAIN marks
      BY <2>3
    <3> QED
      BY <2>2, <2>3, <3>1
  <2>5. DOMAIN marks' = Nullifiers \cup Roots
    BY <2>1, <2>3
  <2>6. \A k \in DOMAIN marks' : MarkOK(marks'[k]) /\ marks'[k].view = None
    BY <2>2, <2>3, <2>5
  <2>7. marks' \in [Nullifiers \cup Roots -> Closed(MarkCells)]
    BY <2>1, <2>3, <2>5, <2>6 DEF Closed, MarkOK
  <2>8. ASSUME NEW k \in Roots
        PROVE  /\ TipHas(marks'[k]) <=> k \in RootsOf(chain)
               /\ marks'[k].db <=> k \in RootsOf(dbChain)
    <3>1. k \in DOMAIN marks
      BY <2>3
    <3>2. /\ TipHas(marks[k]) <=> k \in RootsOf(chain)
          /\ marks[k].db <=> k \in RootsOf(dbChain)
      BY DEF Inv, MarksInv
    <3> QED
      BY <2>2, <3>1, <3>2
  <2> QED
    BY <2>4, <2>6, <2>7, <2>8 DEF MarksInv
<1>3. HashInv'
  <2>1. hash' = [k \in DOMAIN hash |-> DropView(s.hash[k])]
    BY DEF Dropped
  <2>2. /\ DOMAIN hash = {"block", "anchor"} /\ hash["block"].db = dbChain
        /\ hash["anchor"].db = RootOf(dbChain) /\ hash["anchor"].db \in Anchors
        /\ TipHash(hash["block"]) = chain /\ TipHash(hash["anchor"]) = RootOf(chain)
    BY DEF Inv, HashInv
  <2>3. ASSUME NEW k \in {"block", "anchor"}
        PROVE  /\ DOMAIN hash'[k] = {"db", "tip", "view"} /\ hash'[k].view = None
               /\ hash'[k].tip = s.hash[k].tip /\ hash'[k].db = s.hash[k].db
               /\ s.hash[k].db = hash[k].db
               /\ TipHash(s.hash[k]) = TipHash(hash[k])
    <3>1. /\ DOMAIN s.hash[k] = {"db", "tip", "view"} /\ s.hash[k].db = hash[k].db
          /\ TipHash(s.hash[k]) = TipHash(hash[k])
      BY DEF HashesOK
    <3>2. hash'[k] = DropView(s.hash[k])
      BY <2>1, <2>2
    <3> QED
      BY <3>1, <3>2 DEF DropView
  <2>4. TipHash(hash'["block"]) = chain /\ TipHash(hash'["anchor"]) = RootOf(chain)
    BY <2>2, <2>3 DEF TipHash
  <2>5. s.hash["anchor"].tip # None => s.hash["anchor"].tip \in Anchors
    BY DEF HashesOK
  <2>6. DOMAIN hash' = {"block", "anchor"}
    BY <2>1, <2>2
  <2> QED
    BY <2>2, <2>3, <2>4, <2>5, <2>6 DEF HashInv
<1> QED
    BY <1>0, <1>1, <1>2, <1>3

\* The prefixes of a chain with one more block.
LEMMA PrefixFacts ==
    ASSUME NEW ch \in Seq(Seq(Txids)), NEW block \in Seq(Txids)
    PROVE  /\ \A h \in 1..Len(ch) : SubSeq(Append(ch, block), 1, h) = SubSeq(ch, 1, h)
           /\ SubSeq(Append(ch, block), 1, Len(ch) + 1) = Append(ch, block)
           /\ Len(Append(ch, block)) = Len(ch) + 1
           /\ \A h \in 1..(Len(ch) + 1) : h \in 1..Len(ch) \/ h = Len(ch) + 1
<1> DEFINE p == Append(ch, block)
<1>1. p \in Seq(Seq(Txids)) /\ Len(p) = Len(ch) + 1 /\ Len(ch) \in Nat
    OBVIOUS
<1>2. \A h \in 1..Len(ch) : p[h] = ch[h]
    OBVIOUS
<1> HIDE DEF p
<1>3. ASSUME NEW h \in 1..Len(ch)
      PROVE  SubSeq(p, 1, h) = SubSeq(ch, 1, h)
  <2>1. \A q \in Seq(Seq(Txids)) : h <= Len(q) =>
           /\ SubSeq(q, 1, h) \in Seq(Seq(Txids)) /\ Len(SubSeq(q, 1, h)) = h
           /\ \A i \in 1..h : SubSeq(q, 1, h)[i] = q[i]
    OBVIOUS
  <2>2. /\ SubSeq(p, 1, h) \in Seq(Seq(Txids)) /\ Len(SubSeq(p, 1, h)) = h
        /\ \A i \in 1..h : SubSeq(p, 1, h)[i] = p[i]
        /\ SubSeq(ch, 1, h) \in Seq(Seq(Txids)) /\ Len(SubSeq(ch, 1, h)) = h
        /\ \A i \in 1..h : SubSeq(ch, 1, h)[i] = ch[i]
    BY <1>1, <2>1
  <2>3. \A i \in 1..h : i \in 1..Len(ch)
    BY <1>1
  <2>4. \A i \in 1..h : SubSeq(p, 1, h)[i] = SubSeq(ch, 1, h)[i]
    BY <1>2, <2>2, <2>3
  <2> QED
    BY <2>2, <2>4, SeqEqual
<1>4. SubSeq(p, 1, Len(p)) = p
    BY <1>1
<1>5. \A h \in 1..(Len(ch) + 1) : h \in 1..Len(ch) \/ h = Len(ch) + 1
    BY <1>1
<1> QED
    BY <1>1, <1>3, <1>4, <1>5 DEF p

\* The undo data of a block that was connected is the block's, the first time
\* or again.
LEMMA ConnectTipInv ==
    ASSUME Inv, Len(chain) < MaxHeight, NEW block \in Blocks[Len(chain) + 1],
           ConnectTip(block)
    PROVE  Inv'
<1> DEFINE s == ConnectBlock(block)
           path == Append(chain, block)
           root == ViewHash(BeginConnect.hash["anchor"])
           data == [txs |-> s.undo, root |-> root]
<1>1. /\ s.valid /\ Flushed(s) /\ chain' = path
      /\ undo' = IF path \in DOMAIN undo THEN undo
                 ELSE [p \in DOMAIN undo \cup {path} |->
                          IF p = path THEN data ELSE undo[p]]
      /\ dbChain' = dbChain /\ dbUndo' = dbUndo
    BY DEF ConnectTip
<1>2. /\ ViewOK(s) /\ HashesOK(s.hash) /\ s.bad = FALSE
      /\ s.valid => /\ IsChain(path) /\ path # << >>
                    /\ s.hash["block"].view = path
                    /\ s.hash["anchor"].view = RootOf(path)
                    /\ RootOf(path) \in Roots
                    /\ Range(RootOf(path)) \subseteq TxsOf(path)
                    /\ ShowsAnchors(s, path)
                    /\ \A t \in Txids : ViewCoins(s.coins[t]) = UtxoOf(path, t)
                    /\ ShowsMarks(s, RevealedBy(TxsOf(path)))
                    /\ NoConflict(TxsOf(path))
                    /\ BlockOK(Front(path), Last(path), s.undo)
    BY ConnectBlockView
<1>3. root = RootOf(chain)
    BY BeginConnectView
<1>4. data.txs = s.undo /\ data.root = root
    OBVIOUS
<1>5. chain \in Seq(Seq(Txids)) /\ block \in Seq(Txids) /\ Front(path) = chain
  <2>1. IsChain(chain)
    BY DEF Inv, ChainInv
  <2> QED
    BY <2>1, ChainFacts DEF IsChain
<1>6. /\ \A h \in 1..Len(chain) : SubSeq(path, 1, h) = SubSeq(chain, 1, h)
      /\ SubSeq(path, 1, Len(chain) + 1) = path
      /\ Len(path) = Len(chain) + 1
      /\ \A h \in 1..(Len(chain) + 1) : h \in 1..Len(chain) \/ h = Len(chain) + 1
    BY <1>5, PrefixFacts
<1> HIDE DEF s, path, root, data
<1>7. CoinsInv' /\ MarksInv' /\ HashInv' /\ fault' = FALSE
    BY <1>1, <1>2, FlushedStep
<1>8. /\ DOMAIN undo' = DOMAIN undo \cup {path}
      /\ \A p \in DOMAIN undo : p \in DOMAIN undo' /\ undo'[p] = undo[p]
      /\ path \notin DOMAIN undo => undo'[path] = data
  <2>1. CASE path \in DOMAIN undo
    BY <1>1, <2>1
  <2>2. CASE path \notin DOMAIN undo
    BY <1>1, <2>2
  <2> QED
    BY <2>1, <2>2
<1>9. UndoOK(undo')
  <2> SUFFICES ASSUME NEW p \in DOMAIN undo'
               PROVE  /\ IsChain(p) /\ p # << >>
                      /\ NoConflict(TxsOf(p))
                      /\ BlockOK(Front(p), Last(p), undo'[p].txs)
                      /\ undo'[p].root = RootOf(Front(p))
                      /\ RootOf(p) \in Roots /\ Range(RootOf(p)) \subseteq TxsOf(p)
    BY DEF UndoOK
  <2>1. CASE p \in DOMAIN undo
    <3>1. undo'[p] = undo[p]
      BY <1>8, <2>1
    <3> QED
      BY <2>1, <3>1 DEF Inv, ChainInv, UndoOK
  <2>2. CASE p \notin DOMAIN undo
    <3>1. p = path /\ undo'[p] = data
      BY <1>8, <2>2
    <3> QED
      BY <1>1, <1>2, <1>3, <1>4, <1>5, <3>1
  <2> QED
    BY <2>1, <2>2
<1>10. UndoAvailable'
  <2>1. \A h \in 1..Len(path) : SubSeq(path, 1, h) \in DOMAIN undo'
    <3> SUFFICES ASSUME NEW h \in 1..Len(path)
                 PROVE  SubSeq(path, 1, h) \in DOMAIN undo'
      OBVIOUS
    <3>1. CASE h \in 1..Len(chain)
      BY <1>6, <1>8, <3>1 DEF Inv, ChainInv, UndoAvailable
    <3>2. CASE h = Len(chain) + 1
      BY <1>6, <1>8, <3>2
    <3> QED
      BY <1>6, <3>1, <3>2
  <2> QED
    BY <1>1, <2>1 DEF UndoAvailable, Inv, ChainInv
<1>11. ChainInv'
    BY <1>1, <1>2, <1>8, <1>9, <1>10 DEF ChainInv, Inv, UndoOK
<1> QED
    BY <1>7, <1>11 DEF Inv

\* A block that is refused leaves no trace.
LEMMA RejectBlockInv ==
    ASSUME Inv, Len(chain) < MaxHeight, NEW block \in Blocks[Len(chain) + 1],
           RejectBlock(block)
    PROVE  Inv'
<1> DEFINE s == ConnectBlock(block)
<1>1. Dropped(s) /\ UNCHANGED <<chain, dbChain, undo, dbUndo>>
    BY DEF RejectBlock
<1>2. ViewOK(s) /\ HashesOK(s.hash) /\ s.bad = FALSE
    BY ConnectBlockView
<1> HIDE DEF s
<1>3. CoinsInv' /\ MarksInv' /\ HashInv' /\ fault' = FALSE
    BY <1>1, <1>2, DroppedStep
<1>4. ChainInv'
    BY <1>1 DEF ChainInv, Inv, UndoAvailable, UndoOK
<1> QED
    BY <1>3, <1>4 DEF Inv

-----------------------------------------------------------------------------
(***************************************************************************)
(* Disconnecting a block.                                                  *)
(***************************************************************************)
\* ApplyTxInUndo takes back one spent output; the undo record has the height
\* exactly if nothing of the transaction is left.
LEMMA ApplyTxInUndoView ==
    ASSUME NEW s, ViewOK(s), NEW ch, IsChain(ch), Len(ch) < MaxHeight,
           NEW T, NEW X, NEW in \in Txids \X Outs,
           in[1] \in T, in \notin X, in[2] \in Outputs[in[1]],
           ShowsCoins(s, ch, T, X \cup {in}),
           NEW u, u = HeightIfSpent(ch, in[1], X \cup {in})
    PROVE  /\ ViewOK(ApplyTxInUndo(s, in, u)) /\ SameRest(s, ApplyTxInUndo(s, in, u))
           /\ ShowsCoins(ApplyTxInUndo(s, in, u), ch, T, X)
<1> DEFINE p == in[1]
           Y == X \cup {in}
           cur == ModifyCoins(s.coins[p]).view.coins
           base == IF u # 0 THEN [outs |-> {}, nHeight |-> u] ELSE cur
           new == [base EXCEPT !.outs = @ \cup {in[2]}]
           h == HeightOn(ch, p)
           r == ApplyTxInUndo(s, in, u)
<1>0. /\ Unspent(p, X) = Unspent(p, Y) \cup {in[2]}
      /\ \A t : t # p => Unspent(t, Y) = Unspent(t, X)
    BY UnspentFacts
<1>1. p \in Txids /\ CellOK(s.coins[p]) /\ h \in 1..MaxHeight /\ in[2] \in Outs
    BY HeightOnFacts DEF ViewOK
<1>2. cur \in Coins /\ Canonical(cur) = CoinsLeft(p, Y, h)
    BY <1>1, ModifyValue DEF ShowsCoins, Shown
<1>3. h \in 0..MaxHeight /\ h # 0 /\ MaxHeight \in Nat
    BY <1>1, NoneAssumption
<1>4. base \in Coins /\ base.outs = Unspent(p, Y) /\ base.nHeight = h
  <2>1. CASE Unspent(p, Y) = {}
    <3>1. u = h
      BY <2>1 DEF HeightIfSpent
    <3>2. base = [outs |-> {}, nHeight |-> h]
      BY <1>3, <3>1
    <3>3. [outs |-> {}, nHeight |-> h] \in Coins
      BY <1>3 DEF Coins
    <3> HIDE DEF base, h
    <3> QED
      BY <2>1, <3>2, <3>3
  <2>2. CASE Unspent(p, Y) # {}
    <3>1. u = 0
      BY <2>2 DEF HeightIfSpent
    <3>2. base = cur
      BY <3>1
    <3>3. CoinsLeft(p, Y, h) = [outs |-> Unspent(p, Y), nHeight |-> h]
      BY <2>2 DEF CoinsLeft, Canonical, IsPruned
    <3>4. ~ IsPruned(cur)
      <4> HIDE DEF cur, h, p, Y
      <4>1. CoinsLeft(p, Y, h).outs # {}
        BY <2>2, <3>3
      <4>2. Canonical(cur).outs # {}
        BY <1>2, <4>1
      <4> QED
        BY <4>2 DEF Canonical, Cleared, IsPruned
    <3>5. cur = [outs |-> Unspent(p, Y), nHeight |-> h]
      BY <1>2, <3>3, <3>4 DEF Canonical
    <3> HIDE DEF base, cur
    <3> QED
      BY <1>2, <3>2, <3>5
  <2> QED
    BY <2>1, <2>2
<1>5. new \in Coins /\ new = [outs |-> Unspent(p, X), nHeight |-> h]
  <2> HIDE DEF base, h
  <2>1. new \in Coins /\ new.outs = base.outs \cup {in[2]} /\ new.nHeight = base.nHeight
    BY <1>1, <1>4 DEF Coins
  <2>2. [outs |-> Unspent(p, X), nHeight |-> h] \in Coins
    BY <1>1, <1>3, CoinsLeftFacts
  <2>3. new.outs = Unspent(p, X) /\ new.nHeight = h
    BY <1>0, <1>4, <2>1
  <2> HIDE DEF new
  <2> QED
    BY <2>1, <2>2, <2>3 DEF Coins
<1>6. Canonical(new) = CoinsLeft(p, X, h)
    BY <1>5 DEF CoinsLeft
<1>7. /\ DOMAIN r = Fields /\ SameRest(s, r)
      /\ r.coins = [s.coins EXCEPT ![p] = Modified(s.coins[p], new)]
  <2>1. /\ DOMAIN r = Fields /\ r.marks = s.marks /\ r.hash = s.hash
        /\ r.tree = s.tree /\ r.valid = s.valid
        /\ r.bad = (s.bad \/ (u # 0) # IsPruned(cur) \/ in[2] \in base.outs)
        /\ r.coins = [s.coins EXCEPT ![p] = Modified(s.coins[p], new)]
    BY DEF ViewOK, ApplyTxInUndo, Fields
  <2>2. in[2] \notin base.outs
    <3>1. in = <<p, in[2]>> /\ in \in Y
      OBVIOUS
    <3> QED
      BY <1>4, <3>1 DEF Unspent
  <2>3. (u # 0) = IsPruned(cur)
    <3>1. IsPruned(cur) <=> Unspent(p, Y) = {}
      <4> HIDE DEF cur, Y, p, h
      <4>1. IsPruned(cur) <=> IsPruned(CoinsLeft(p, Y, h))
        BY <1>2, CanonicalFacts
      <4>2. CoinsLeft(p, Y, h).outs = Unspent(p, Y)
        BY <1>1, <1>3, CoinsLeftFacts
      <4> QED
        BY <4>1, <4>2 DEF IsPruned
    <3>2. u # 0 <=> Unspent(p, Y) = {}
      BY <1>3 DEF HeightIfSpent
    <3>3. IsPruned(cur) \in BOOLEAN
      BY DEF IsPruned
    <3> HIDE DEF cur, Y, p
    <3> QED
      BY <3>1, <3>2, <3>3
  <2> HIDE DEF r, new, cur, base
  <2>4. StaysClean(s, r)
    BY <2>1, <2>2, <2>3 DEF StaysClean
  <2> QED
    BY <2>1, <2>4 DEF SameRest
<1> HIDE DEF r, new, cur, base
<1>8. /\ CellOK(Modified(s.coins[p], new))
      /\ Modified(s.coins[p], new).db = s.coins[p].db
      /\ TipCoins(Modified(s.coins[p], new)) = TipCoins(s.coins[p])
      /\ ViewCoins(Modified(s.coins[p], new)) = CoinsLeft(p, X, h)
    BY <1>1, <1>5, <1>6, ModifyCell
<1>9. DOMAIN s.coins = Txids
    BY DEF ViewOK
<1>10. ViewOK(r)
    BY <1>7, <1>8, <1>9 DEF ViewOK, SameRest
<1>11. ShowsCoins(r, ch, T, X)
  <2> SUFFICES ASSUME NEW t \in Txids
               PROVE  ViewCoins(r.coins[t]) = Shown(ch, T, X, t)
    BY DEF ShowsCoins
  <2>1. CASE t = p
    BY <1>7, <1>8, <1>9, <2>1 DEF Shown
  <2>2. CASE t # p
    <3>1. r.coins[t] = s.coins[t]
      BY <1>7, <1>9, <2>2
    <3>2. Unspent(t, Y) = Unspent(t, X)
      BY <1>0, <2>2
    <3> QED
      BY <3>1, <3>2 DEF ShowsCoins, Shown, CoinsLeft
  <2> QED
    BY <2>1, <2>2
<1> QED
    BY <1>7, <1>10, <1>11 DEF r

\* The inputs of a transaction, one after the other.
LEMMA SpentSteps ==
    ASSUME NEW T, NEW tx \in Txids
    PROVE  \A j \in Nat : j + 1 <= Len(Inputs[tx]) =>
              /\ SpentAt(T, tx, j + 1) = SpentAt(T, tx, j) \cup {Inputs[tx][j + 1]}
              /\ Inputs[tx][j + 1] \in Range(Inputs[tx])
              /\ Inputs[tx][j + 1] \in Txids \X Outs
              /\ \A k \in 1..j : Inputs[tx][k] # Inputs[tx][j + 1]
  BY SpentStep

\* The loop over the inputs, the last one first: after k of them the view shows
\* all but the last k outputs spent.
LEMMA RestoringView ==
    ASSUME NEW s, ViewOK(s), NEW ch, IsChain(ch), Len(ch) < MaxHeight,
           NEW T, NEW tx \in Txids, Fits(T, tx),
           ShowsCoins(s, ch, T, SpentBy(T \cup {tx})),
           NEW txundo, Undoes(txundo, ch, T, tx)
    PROVE  LET r == Restoring(s, tx, txundo)[Len(Inputs[tx])]
           IN /\ ViewOK(r) /\ SameRest(s, r)
              /\ ShowsCoins(r, ch, T, SpentBy(T))
<1> DEFINE n == Len(Inputs[tx])
           f == Restoring(s, tx, txundo)
           P(k) == /\ ViewOK(f[k]) /\ SameRest(s, f[k])
                   /\ ShowsCoins(f[k], ch, T, SpentAt(T, tx, n - k))
           E == {k \in Nat : k <= n => P(k)}
<1>1. Inputs[tx] \in Seq(Txids \X Outs) /\ n \in Nat
    BY CoinsChainAssumption
<1>2. /\ f[0] = s
      /\ \A k \in 1..n : f[k] = ApplyTxInUndo(f[k - 1], Inputs[tx][n + 1 - k],
                                              txundo[n + 1 - k])
    BY RestoringStates
<1>3. /\ SpentAt(T, tx, 0) = SpentBy(T)
      /\ SpentAt(T, tx, n) = SpentBy(T \cup {tx})
    BY SpentFacts
<1>8. \A j \in Nat : j + 1 <= Len(Inputs[tx]) =>
          /\ SpentAt(T, tx, j + 1) = SpentAt(T, tx, j) \cup {Inputs[tx][j + 1]}
          /\ Inputs[tx][j + 1] \in Range(Inputs[tx])
          /\ Inputs[tx][j + 1] \in Txids \X Outs
          /\ \A k \in 1..j : Inputs[tx][k] # Inputs[tx][j + 1]
  <2>1. tx \in Txids
    OBVIOUS
  <2> QED
    BY ONLY <2>1, SpentSteps
<1> HIDE DEF f
<1>4. 0 \in E
  <2>1. n - 0 = n
    BY <1>1
  <2>2. SameRest(s, f[0])
    BY <1>2 DEF SameRest, StaysClean
  <2>3. ShowsCoins(f[0], ch, T, SpentAt(T, tx, n - 0))
    BY <1>2, <1>3, <2>1
  <2> QED
    BY <1>2, <2>2, <2>3
<1>5. ASSUME NEW k \in Nat, k \in E
      PROVE  k + 1 \in E
  <2> HIDE DEF P
  <2> SUFFICES ASSUME k + 1 <= n
               PROVE  P(k + 1)
    OBVIOUS
  <2> USE DEF P
  <2> DEFINE j == n - (k + 1)
             in == Inputs[tx][j + 1]
             X == SpentAt(T, tx, j)
             u == txundo[j + 1]
             x == f[k]
             y == f[k + 1]
  <2>1. P(k)
    BY <1>1, <1>5
  <2>2. /\ k + 1 \in 1..n /\ (k + 1) - 1 = k /\ j \in Nat /\ j + 1 <= n
        /\ n + 1 - (k + 1) = j + 1 /\ j + 1 \in 1..n /\ n - k = j + 1
    <3>1. \A a, b \in Nat : b + 1 <= a =>
             /\ b + 1 \in 1..a /\ (b + 1) - 1 = b /\ a - (b + 1) \in Nat
             /\ (a - (b + 1)) + 1 <= a /\ a + 1 - (b + 1) = (a - (b + 1)) + 1
             /\ (a - (b + 1)) + 1 \in 1..a /\ a - b = (a - (b + 1)) + 1
      OBVIOUS
    <3> HIDE DEF P, n
    <3> QED
      BY <1>1, <3>1
  <2>3. y = ApplyTxInUndo(x, in, u)
    BY <1>2, <2>2
  <2>4. /\ SpentAt(T, tx, j + 1) = X \cup {in}
        /\ in \in Range(Inputs[tx])
        /\ in \in Txids \X Outs
        /\ \A i \in 1..j : Inputs[tx][i] # in
    <3> HIDE DEF P, j
    <3>1. j \in Nat /\ j + 1 <= Len(Inputs[tx])
      BY <2>2
    <3> QED
      BY ONLY <3>1, <1>8
  <2>5. \A i \in 1..j : Inputs[tx][i] # in
    BY <2>4
  <2>6. /\ in[1] \in T /\ in \notin SpentBy(T) /\ in[2] \in Outputs[in[1]]
    BY <2>4 DEF Fits
  <2>7. in \notin X
    BY <2>5, <2>6 DEF SpentAt
  <2>8. u = HeightIfSpent(ch, in[1], X \cup {in})
    <3>1. u = UndoHeight(ch, T, tx, j + 1)
      BY <2>2 DEF Undoes
    <3> QED
      BY <2>4, <3>1 DEF UndoHeight
  <2>9. ViewOK(x) /\ SameRest(s, x) /\ ShowsCoins(x, ch, T, X \cup {in})
    BY <2>1, <2>2, <2>4
  <2> HIDE DEF j, in, X, u, x, y
  <2>10. /\ ViewOK(ApplyTxInUndo(x, in, u)) /\ SameRest(x, ApplyTxInUndo(x, in, u))
         /\ ShowsCoins(ApplyTxInUndo(x, in, u), ch, T, X)
    <3>1. in \in Txids \X Outs
      BY <2>4
    <3> QED
      BY <2>6, <2>7, <2>8, <2>9, <3>1, ApplyTxInUndoView
  <2>11. ViewOK(y) /\ SameRest(x, y) /\ ShowsCoins(y, ch, T, X)
    BY <2>3, <2>10
  <2>12. SameRest(s, y)
    BY <2>9, <2>11 DEF SameRest, StaysClean
  <2> QED
    BY <2>11, <2>12 DEF y, X, j
<1>6. P(n)
  <2>1. Nat \subseteq E
    <3> HIDE DEF E
    <3> QED
      BY <1>4, <1>5, NatSetInduction
  <2> QED
    BY <2>1, <1>1
<1>7. n - n = 0
    BY <1>1
<1> QED
    BY <1>3, <1>6, <1>7 DEF f

\* One transaction of DisconnectBlock: the view shows it no more.
LEMMA DisconnectTxView ==
    ASSUME NEW s, ViewOK(s), NEW ch, IsChain(ch), Len(ch) < MaxHeight,
           NEW T \in SUBSET Txids, NoConflict(T), TxsOf(ch) \subseteq T,
           NEW tx \in Txids, Fits(T, tx), DOMAIN marks = Nullifiers \cup Roots,
           ShowsCoins(s, ch, T \cup {tx}, SpentBy(T \cup {tx})),
           ShowsMarks(s, RevealedBy(T \cup {tx})),
           NEW txundo, Undoes(txundo, ch, T, tx), NEW height, height = Len(ch) + 1
    PROVE  LET r == DisconnectTx(s, tx, txundo, height)
           IN /\ ViewOK(r) /\ r.hash = s.hash
              /\ SameAnchors(s, r) /\ StaysClean(s, r)
              /\ ShowsCoins(r, ch, T, SpentBy(T))
              /\ ShowsMarks(r, RevealedBy(T))
<1> DEFINE X == SpentBy(T \cup {tx})
           m == Modified(s.coins[tx], Cleared)
           a == [s EXCEPT !.coins[tx] = m]
           b == SetNullifiers(a, tx, FALSE)
           c == Restoring(b, tx, txundo)[Len(Inputs[tx])]
           r == DisconnectTx(s, tx, txundo, height)
           outs == ModifyCoins(s.coins[tx]).view.coins
           outsBlock == [outs |-> Outputs[tx], nHeight |-> height]
           bad == c.bad \/ Canonical(outs) # Canonical(outsBlock)
<1>1. r = [c EXCEPT !.bad = bad]
    BY DEF DisconnectTx
<1>2. tx \notin T
    BY DEF Fits
<1>3. /\ CellOK(m) /\ m.db = s.coins[tx].db /\ TipCoins(m) = TipCoins(s.coins[tx])
      /\ ViewCoins(m) = Cleared
  <2>1. CellOK(s.coins[tx])
    BY DEF ViewOK
  <2>2. s.coins[tx].db \in Coins
    BY <2>1 DEF CellOK, CoinCells
  <2>3. Cleared \in Coins /\ Canonical(Cleared) = Cleared
    BY <2>2, CanonicalFacts
  <2> QED
    BY <2>1, <2>3, ModifyCell
<1>16. Canonical(outs) = Canonical(outsBlock)
  <2>1. HeightOn(ch, tx) = Len(ch) + 1
    BY <1>2 DEF HeightOn
  <2>2. Unspent(tx, X) = Outputs[tx]
    <3>1. X = SpentBy(T) \cup Range(Inputs[tx])
      BY SpentFacts
    <3>2. \A z \in SpentBy(T) : z[1] # tx
      BY <1>2, NewUnspent
    <3>3. \A z \in Range(Inputs[tx]) : z[1] # tx
      BY <1>2 DEF Fits
    <3>4. \A n : <<tx, n>>[1] = tx
      OBVIOUS
    <3> QED
      BY <3>1, <3>2, <3>3, <3>4 DEF Unspent
  <2>3. ViewCoins(s.coins[tx]) = CoinsLeft(tx, X, Len(ch) + 1)
    BY <2>1 DEF ShowsCoins, Shown
  <2>4. Canonical(outs) = ViewCoins(s.coins[tx])
    BY ModifyValue DEF ViewOK
  <2> QED
    BY <2>2, <2>3, <2>4 DEF CoinsLeft
<1> HIDE DEF m
<1>4. /\ DOMAIN a = Fields /\ a.marks = s.marks /\ a.hash = s.hash /\ a.bad = s.bad
      /\ a.coins = [s.coins EXCEPT ![tx] = m]
    BY DEF ViewOK, Fields
<1> HIDE DEF a
<1>5. DOMAIN s.coins = Txids
    BY DEF ViewOK
<1>6. ViewOK(a)
    BY <1>3, <1>4, <1>5 DEF ViewOK
<1>7. ShowsCoins(a, ch, T, X)
  <2> SUFFICES ASSUME NEW t \in Txids
               PROVE  ViewCoins(a.coins[t]) = Shown(ch, T, X, t)
    BY DEF ShowsCoins
  <2>1. CASE t = tx
    BY <1>2, <1>3, <1>4, <1>5, <2>1 DEF Shown
  <2>2. CASE t # tx
    <3>1. a.coins[t] = s.coins[t]
      BY <1>4, <1>5, <2>2
    <3>2. Shown(ch, T \cup {tx}, X, t) = Shown(ch, T, X, t)
      BY <2>2 DEF Shown
    <3> QED
      BY <3>1, <3>2 DEF ShowsCoins
  <2> QED
    BY <2>1, <2>2
<1>8. /\ ViewOK(b) /\ b.coins = a.coins /\ b.hash = a.hash /\ b.bad = a.bad
      /\ \A k \in DOMAIN marks :
            /\ k \in Spends[tx] => ViewHas(b.marks[k]) = FALSE
            /\ k \notin Spends[tx] => ViewHas(b.marks[k]) = ViewHas(a.marks[k])
  <2>1. ASSUME NEW e \in BOOLEAN
        PROVE  LET w == SetNullifiers(a, tx, e)
               IN /\ ViewOK(w) /\ w.coins = a.coins /\ w.hash = a.hash
                  /\ w.bad = a.bad
                  /\ \A k \in DOMAIN marks :
                        /\ k \in Spends[tx] => ViewHas(w.marks[k]) = e
                        /\ k \notin Spends[tx] => ViewHas(w.marks[k]) = ViewHas(a.marks[k])
    BY <1>6, SetNullifiersView
  <2> QED
    BY <2>1, Zenon
<1> HIDE DEF b
<1>9. ShowsCoins(b, ch, T, X)
    BY <1>7, <1>8 DEF ShowsCoins
<1>10. ShowsMarks(b, RevealedBy(T))
  <2>1. RevealedBy(T \cup {tx}) = RevealedBy(T) \cup Spends[tx]
    BY SpentFacts
  <2>2. Spends[tx] \cap RevealedBy(T) = {}
    BY DEF Fits
  <2> SUFFICES ASSUME NEW n \in Nullifiers
               PROVE  ViewHas(b.marks[n]) <=> n \in RevealedBy(T)
    BY DEF ShowsMarks
  <2>3. n \in DOMAIN marks
    OBVIOUS
  <2>4. CASE n \in Spends[tx]
    BY <1>8, <2>2, <2>3, <2>4
  <2>5. CASE n \notin Spends[tx]
    <3>1. ViewHas(s.marks[n]) <=> n \in RevealedBy(T \cup {tx})
      BY DEF ShowsMarks
    <3>2. n \in RevealedBy(T \cup {tx}) <=> n \in RevealedBy(T)
      BY <2>1, <2>5
    <3>3. ViewHas(b.marks[n]) = ViewHas(s.marks[n])
      BY <1>4, <1>8, <2>3, <2>5
    <3> QED
      BY ONLY <3>1, <3>2, <3>3
  <2> QED
    BY <2>4, <2>5
<1>11. /\ ViewOK(c) /\ SameRest(b, c) /\ ShowsCoins(c, ch, T, SpentBy(T))
    BY <1>8, <1>9, RestoringView
<1> HIDE DEF c, bad
<1>12. /\ DOMAIN r = Fields /\ r.coins = c.coins /\ r.marks = c.marks /\ r.hash = c.hash
       /\ r.bad = bad
    BY <1>1, <1>11 DEF ViewOK, Fields
<1> HIDE DEF r
<1>13. ViewOK(r)
    BY <1>11, <1>12 DEF ViewOK
<1>14. ShowsCoins(r, ch, T, SpentBy(T)) /\ ShowsMarks(r, RevealedBy(T))
    BY <1>10, <1>11, <1>12 DEF ShowsCoins, ShowsMarks, SameRest
<1>15. r.hash = s.hash
    BY <1>4, <1>8, <1>11, <1>12 DEF SameRest
<1>17. SameAnchors(s, r)
  <2>1. \A k \in Roots : k \in DOMAIN marks /\ k \notin Spends[tx]
    BY RootsFacts DEF Nullifiers
  <2>2. \A k \in Roots : ViewHas(b.marks[k]) = ViewHas(a.marks[k])
    BY <1>8, <2>1
  <2> QED
    BY <1>4, <1>11, <1>12, <2>2 DEF SameRest, SameAnchors
<1>18. StaysClean(s, r)
  <2>1. bad = (c.bad \/ Canonical(outs) # Canonical(outsBlock))
    BY DEF bad
  <2> HIDE DEF outs, outsBlock
  <2> QED
    BY <1>4, <1>8, <1>11, <1>12, <1>16, <2>1 DEF SameRest, StaysClean
<1> QED
    BY <1>13, <1>14, <1>15, <1>17, <1>18 DEF r

\* The start of DisconnectBlock does not show.
LEMMA BeginDisconnectView ==
    ASSUME Inv
    PROVE  LET r == BeginDisconnect
           IN /\ ViewOK(r) /\ HashesOK(r.hash) /\ r.hash["anchor"] = hash["anchor"]
              /\ r.coins = coins
              /\ ShowsMarks(r, RevealedBy(TxsOf(chain))) /\ ShowsAnchors(r, chain)
              /\ r.bad = FALSE
<1> DEFINE o == Opened
           r == BeginDisconnect
           H == [hash EXCEPT !["block"] = GetHash(hash["block"])]
           bad == ViewHash(hash["block"]) # chain
<1>1. /\ ViewOK(o) /\ ShowsMarks(o, RevealedBy(TxsOf(chain))) /\ HashesOK(o.hash)
      /\ o.hash = hash /\ o.coins = coins /\ o.marks = marks /\ ShowsAnchors(o, chain)
    BY OpenedView
<1>11. bad = FALSE
  <2>1. hash["block"].view = None /\ TipHash(hash["block"]) = chain
    BY DEF Inv, HashInv
  <2> QED
    BY <2>1 DEF ViewHash
<1>2. r = [o EXCEPT !.hash["block"] = GetHash(@), !.bad = bad]
    BY DEF BeginDisconnect
<1> HIDE DEF o, bad
<1>3. /\ DOMAIN r = Fields /\ r.coins = o.coins /\ r.marks = o.marks /\ r.hash = H
      /\ r.bad = bad
    BY <1>1, <1>2 DEF ViewOK, Fields
<1> HIDE DEF r
<1>4. /\ DOMAIN hash = {"block", "anchor"}
      /\ DOMAIN hash["block"] = {"db", "tip", "view"} /\ hash["block"].view = None
    BY DEF Inv, HashInv
<1>5. /\ DOMAIN H = {"block", "anchor"} /\ H["block"] = GetHash(hash["block"])
      /\ H["anchor"] = hash["anchor"]
    BY <1>4
<1>6. /\ DOMAIN H["block"] = {"db", "tip", "view"}
      /\ H["block"].db = hash["block"].db
      /\ TipHash(H["block"]) = TipHash(hash["block"])
    BY <1>4, <1>5, GetHashFacts
<1> HIDE DEF H
<1>7. HashesOK(hash)
    BY <1>1
<1>8. HashesOK(H)
    BY <1>5, <1>6, <1>7 DEF HashesOK
<1>9. ViewOK(r)
    BY <1>1, <1>3 DEF ViewOK
<1>10. ShowsMarks(r, RevealedBy(TxsOf(chain)))
    BY <1>1, <1>3 DEF ShowsMarks
<1>12. ShowsAnchors(r, chain)
    BY <1>1, <1>3 DEF ShowsAnchors
<1> QED
    BY <1>1, <1>3, <1>5, <1>8, <1>9, <1>10, <1>11, <1>12 DEF r

\* The transactions of the chain without its last block do not conflict: the undo
\* data of the block before it is there, too.
LEMMA ParentNoConflict ==
    ASSUME ChainInv, NEW ch, IsChain(ch), Len(ch) < MaxHeight,
           NEW block \in Blocks[Len(ch) + 1], chain = Append(ch, block)
    PROVE  NoConflict(TxsOf(ch))
<1>1. ch \in Seq(Seq(Txids)) /\ Len(ch) \in Nat /\ block \in Seq(Txids)
    BY ChainFacts DEF IsChain
<1>2. CASE ch = << >>
  <2>1. TxsOf(ch) = {}
    BY <1>2 DEF TxsOf
  <2> QED
    BY <2>1 DEF NoConflict
<1>3. CASE ch # << >>
  <2>1. Len(ch) \in 1..Len(ch)
    BY <1>1, <1>3
  <2>2. /\ \A h \in 1..Len(ch) : SubSeq(chain, 1, h) = SubSeq(ch, 1, h)
        /\ Len(chain) = Len(ch) + 1
    BY <1>1, PrefixFacts
  <2>3. SubSeq(ch, 1, Len(ch)) = ch /\ Len(ch) \in 1..Len(chain)
    BY <1>1, <2>1, <2>2
  <2>4. ch \in DOMAIN undo
    BY <2>1, <2>2, <2>3 DEF ChainInv, UndoAvailable
  <2> QED
    BY <2>4 DEF ChainInv, UndoOK
<1> QED
    BY <1>2, <1>3

\* Nor do they with the first ones of a block whose transactions fit.
LEMMA BlockNoConflict ==
    ASSUME NEW ch, NEW block \in Seq(Txids), TxsOf(ch) \subseteq Txids,
           NoConflict(TxsOf(ch)),
           \A i \in 1..Len(block) : Fits(Upto(ch, block, i - 1), block[i])
    PROVE  \A i \in 0..Len(block) : NoConflict(Upto(ch, block, i))
<1> DEFINE n == Len(block)
           U(i) == Upto(ch, block, i)
           E == {i \in Nat : i <= n => NoConflict(U(i))}
<1>1. n \in Nat
    OBVIOUS
<1>2. /\ U(0) = TxsOf(ch)
      /\ \A i \in 1..n : U(i) = U(i - 1) \cup {block[i]}
    BY UptoFacts
<1>3. \A i \in 0..n : U(i) \subseteq Txids
    BY DEF Upto
<1> HIDE DEF U
<1>4. 0 \in E
    BY <1>2
<1>5. ASSUME NEW i \in Nat, i \in E
      PROVE  i + 1 \in E
  <2> SUFFICES ASSUME i + 1 <= n
               PROVE  NoConflict(U(i + 1))
    OBVIOUS
  <2>1. i + 1 \in 1..n /\ (i + 1) - 1 = i /\ i \in 0..n /\ i <= n
    BY <1>1
  <2>2. NoConflict(U(i))
    BY <1>5, <2>1
  <2>3. Fits(U(i), block[i + 1]) /\ U(i + 1) = U(i) \cup {block[i + 1]}
    BY <1>2, <2>1 DEF U
  <2>4. U(i) \in SUBSET Txids /\ block[i + 1] \in Txids
    BY <1>3, <2>1
  <2>5. NoConflict(U(i) \cup {block[i + 1]})
    BY <2>2, <2>3, <2>4, FitsFacts
  <2> QED
    BY <2>3, <2>5
<1>6. Nat \subseteq E
  <2> HIDE DEF E
  <2> QED
    BY <1>4, <1>5, NatSetInduction
<1> QED
    BY <1>1, <1>6 DEF U

\* The loop of DisconnectBlock: after k transactions the view shows the chain
\* without the last k of its last block.
LEMMA DisconnectingView ==
    ASSUME Inv, chain # << >>
    PROVE  LET r == Disconnecting[Len(Last(chain))]
               ch == Front(chain)
           IN /\ ViewOK(r) /\ HashesOK(r.hash) /\ r.hash["anchor"] = hash["anchor"]
              /\ IsChain(ch)
              /\ \A t \in Txids : ViewCoins(r.coins[t]) = UtxoOf(ch, t)
              /\ ShowsMarks(r, RevealedBy(TxsOf(ch))) /\ ShowsAnchors(r, chain)
              /\ r.bad = FALSE
              /\ undo[chain].root = RootOf(ch)
<1> DEFINE ch == Front(chain)
           block == Last(chain)
           n == Len(block)
           txs == undo[chain].txs
           f == Disconnecting
           U(i) == Upto(ch, block, i)
           P(k) == /\ ViewOK(f[k]) /\ f[k].hash = BeginDisconnect.hash
                   /\ ShowsCoins(f[k], ch, U(n - k), SpentBy(U(n - k)))
                   /\ ShowsMarks(f[k], RevealedBy(U(n - k)))
                   /\ ShowsAnchors(f[k], chain) /\ f[k].bad = FALSE
           E == {k \in Nat : k <= n => P(k)}
<1>1. IsChain(chain) /\ DOMAIN marks = Nullifiers \cup Roots /\ ChainInv
    BY DEF Inv, ChainInv, MarksInv
<1>2. /\ IsChain(ch) /\ chain = Append(ch, block)
      /\ block \in Blocks[Len(ch) + 1] /\ Len(ch) < MaxHeight
      /\ Len(ch) + 1 = Len(chain)
    BY <1>1, ChainFacts
<1>3. /\ block \in Seq(Txids) /\ n \in Nat /\ TxsOf(ch) \subseteq Txids
      /\ TxsOf(chain) = TxsOf(ch) \cup Range(block)
  <2>1. block \in Seq(Txids) /\ TxsOf(ch) \subseteq Txids
        /\ TxsOf(Append(ch, block)) = TxsOf(ch) \cup Range(block)
    <3> HIDE DEF ch, block
    <3> QED
      BY <1>2, ChainFacts
  <2> HIDE DEF ch, block
  <2>2. n \in Nat
    BY <2>1
  <2>3. TxsOf(chain) = TxsOf(Append(ch, block))
    BY <1>2
  <2> QED
    BY <2>1, <2>2, <2>3
<1>4. BlockOK(ch, block, txs) /\ undo[chain].root = RootOf(ch)
  <2>1. chain \in Seq(Seq(Txids)) /\ Len(chain) \in 1..Len(chain)
    BY <1>1 DEF IsChain
  <2>2. SubSeq(chain, 1, Len(chain)) = chain
    BY <2>1
  <2>3. chain \in DOMAIN undo
    BY <2>1, <2>2 DEF Inv, ChainInv, UndoAvailable
  <2> QED
    BY <2>3 DEF Inv, ChainInv, UndoOK
<1>5. /\ f[0] = BeginDisconnect
      /\ \A k \in 1..n : f[k] = DisconnectTx(f[k - 1], block[n + 1 - k],
                                             txs[n + 1 - k], Len(chain))
    BY <1>3, DisconnectingStates
<1> HIDE DEF ch, block, txs
<1>6. /\ U(0) = TxsOf(ch)
      /\ U(n) = TxsOf(ch) \cup Range(block)
      /\ \A i \in 1..n : U(i) = U(i - 1) \cup {block[i]}
    BY <1>3, UptoFacts
<1>7. \A i \in 0..n : U(i) \subseteq Txids /\ TxsOf(ch) \subseteq U(i)
    BY <1>3 DEF Upto
<1>8. \A i \in 1..n : Fits(U(i - 1), block[i]) /\ Undoes(txs[i], ch, U(i - 1), block[i])
    BY <1>4 DEF BlockOK
<1>17. \A i \in 0..n : NoConflict(U(i))
  <2>1. NoConflict(TxsOf(ch))
    BY <1>1, <1>2, ParentNoConflict
  <2> QED
    BY <1>3, <1>8, <2>1, BlockNoConflict
<1>9. Range(block) \cap TxsOf(ch) = {}
  <2> SUFFICES ASSUME NEW t \in Range(block)
               PROVE  t \notin TxsOf(ch)
    OBVIOUS
  <2>1. PICK k \in 1..n : t = block[k]
    BY <1>3 DEF Range
  <2>2. Fits(U(k - 1), t) /\ k - 1 \in 0..n
    BY <1>3, <1>8, <2>1
  <2> QED
    BY <1>7, <2>2 DEF Fits
<1> HIDE DEF f, U
<1>10. 0 \in E
  <2>1. /\ ViewOK(BeginDisconnect) /\ BeginDisconnect.coins = coins
        /\ ShowsMarks(BeginDisconnect, RevealedBy(TxsOf(chain)))
        /\ ShowsAnchors(BeginDisconnect, chain) /\ BeginDisconnect.bad = FALSE
    BY BeginDisconnectView
  <2>2. n - 0 = n /\ U(n) = TxsOf(chain)
    BY <1>3, <1>6
  <2>3. ShowsCoins(f[0], ch, U(n), SpentBy(U(n)))
    <3> SUFFICES ASSUME NEW t \in Txids
                 PROVE  ViewCoins(f[0].coins[t]) = Shown(ch, U(n), SpentBy(U(n)), t)
      BY DEF ShowsCoins
    <3>1. ViewCoins(coins[t]) = UtxoOf(chain, t)
      BY DEF Inv, CoinsInv, ViewCoins
    <3>2. UtxoOf(Append(ch, block), t) =
             Shown(ch, TxsOf(ch) \cup Range(block), SpentBy(TxsOf(ch) \cup Range(block)), t)
      BY <1>2, <1>9, UtxoFacts
    <3> QED
      BY <1>2, <1>5, <1>6, <2>1, <3>1, <3>2
  <2> QED
    BY <1>5, <2>1, <2>2, <2>3
<1>11. ASSUME NEW k \in Nat, k \in E
       PROVE  k + 1 \in E
  <2> HIDE DEF P
  <2> SUFFICES ASSUME k + 1 <= n
               PROVE  P(k + 1)
    OBVIOUS
  <2> DEFINE j == n - (k + 1)
             tx == block[j + 1]
             u == txs[j + 1]
             T == U(j)
             x == f[k]
             y == f[k + 1]
  <2>1. P(k)
    BY <1>3, <1>11
  <2>2. /\ k + 1 \in 1..n /\ (k + 1) - 1 = k /\ j \in Nat /\ j \in 0..n
        /\ n + 1 - (k + 1) = j + 1 /\ j + 1 \in 1..n /\ n - k = j + 1
        /\ (j + 1) - 1 = j
    <3>1. \A a, b \in Nat : b + 1 <= a =>
             /\ b + 1 \in 1..a /\ (b + 1) - 1 = b /\ a - (b + 1) \in Nat
             /\ a - (b + 1) \in 0..a /\ a + 1 - (b + 1) = (a - (b + 1)) + 1
             /\ (a - (b + 1)) + 1 \in 1..a /\ a - b = (a - (b + 1)) + 1
             /\ ((a - (b + 1)) + 1) - 1 = a - (b + 1)
      OBVIOUS
    <3> HIDE DEF P, n
    <3> QED
      BY <1>3, <3>1
  <2>3. y = DisconnectTx(x, tx, u, Len(chain))
    BY <1>5, <2>2
  <2> HIDE DEF j
  <2>4. U(j + 1) = T \cup {tx} /\ Fits(T, tx) /\ Undoes(u, ch, T, tx)
    BY <1>6, <1>8, <2>2
  <2>5. T \in SUBSET Txids /\ tx \in Txids /\ NoConflict(T) /\ TxsOf(ch) \subseteq T
    BY <1>3, <1>7, <1>17, <2>2
  <2>6. /\ ViewOK(x) /\ x.hash = BeginDisconnect.hash
        /\ ShowsCoins(x, ch, T \cup {tx}, SpentBy(T \cup {tx}))
        /\ ShowsMarks(x, RevealedBy(T \cup {tx}))
        /\ ShowsAnchors(x, chain) /\ x.bad = FALSE
    BY <2>1, <2>2, <2>4 DEF P
  <2> HIDE DEF tx, u, T, x, y
  <2> DEFINE z == DisconnectTx(x, tx, u, Len(chain))
  <2>7. /\ ViewOK(z) /\ z.hash = x.hash
        /\ SameAnchors(x, z) /\ StaysClean(x, z)
        /\ ShowsCoins(z, ch, T, SpentBy(T))
        /\ ShowsMarks(z, RevealedBy(T))
    BY <1>1, <1>2, <2>4, <2>5, <2>6, DisconnectTxView
  <2>8. y = z
    BY <2>3
  <2> HIDE DEF z
  <2>9. /\ ViewOK(y) /\ y.hash = BeginDisconnect.hash
        /\ ShowsCoins(y, ch, T, SpentBy(T))
        /\ ShowsMarks(y, RevealedBy(T))
    BY <2>6, <2>7, <2>8
  <2>10. ShowsAnchors(y, chain)
    BY <2>6, <2>7, <2>8 DEF ShowsAnchors, SameAnchors
  <2>11. y.bad = FALSE
    BY <2>6, <2>7, <2>8 DEF StaysClean
  <2> QED
    BY <2>9, <2>10, <2>11 DEF P, y, T, j
<1>12. P(n)
  <2>1. Nat \subseteq E
    <3> HIDE DEF E
    <3> QED
      BY <1>10, <1>11, NatSetInduction
  <2> QED
    BY <2>1, <1>3
<1>13. n - n = 0
    BY <1>3
<1>14. /\ ViewOK(f[n]) /\ f[n].hash = BeginDisconnect.hash
       /\ ShowsCoins(f[n], ch, TxsOf(ch), SpentBy(TxsOf(ch)))
       /\ ShowsMarks(f[n], RevealedBy(TxsOf(ch)))
       /\ ShowsAnchors(f[n], chain) /\ f[n].bad = FALSE
    BY <1>6, <1>12, <1>13
<1>15. \A t \in Txids : ViewCoins(f[n].coins[t]) = UtxoOf(ch, t)
    BY <1>2, <1>14, UtxoFacts DEF ShowsCoins
<1>16. HashesOK(f[n].hash) /\ f[n].hash["anchor"] = hash["anchor"]
    BY <1>14, BeginDisconnectView
<1> QED
    BY <1>2, <1>4, <1>14, <1>15, <1>16 DEF f, ch, block

\* The anchors of ch, of which root is one, are those of the active chain without
\* the last one, unless that is root.
AnchorsBefore(root, ch) ==
    /\ root \in RootsOf(ch)
    /\ RootsOf(chain) = RootsOf(ch) \cup {RootOf(chain)}
    /\ RootOf(chain) # root => RootOf(chain) \notin RootsOf(ch)

\* PopAnchor: the view shows the anchors of the chain without its last block.
\* The tree of that block either is the one before it or was new.
LEMMA PopAnchorView ==
    ASSUME Inv, NEW s, ViewOK(s), HashesOK(s.hash), s.hash["anchor"] = hash["anchor"],
           ShowsAnchors(s, chain), Clean(s), NEW newrt, NEW ch,
           AnchorsBefore(newrt, ch), NEW r, r = PopAnchor(s, newrt)
    PROVE  /\ ViewOK(r) /\ HashesOK(r.hash) /\ r.hash["anchor"].view = newrt
           /\ ShowsAnchors(r, ch) /\ Clean(r)
           /\ r.coins = s.coins
           /\ \A n \in Nullifiers : r.marks[n] = s.marks[n]
<1> DEFINE cur == ViewHash(s.hash["anchor"])
           g == GetHash(hash["anchor"])
           L == [s.hash EXCEPT !["anchor"] = g]
           loaded == [s EXCEPT !.hash["anchor"] = GetHash(@)]
           m == SetMark(GetAnchorAt(s.marks[cur]), FALSE)
<1>1. DOMAIN s = Fields /\ DOMAIN s.hash = {"block", "anchor"}
    BY DEF ViewOK, HashesOK
<1>2. /\ DOMAIN loaded = Fields /\ loaded.coins = s.coins /\ loaded.marks = s.marks
      /\ loaded.hash = L /\ loaded.bad = s.bad
    BY <1>1 DEF Fields
<1>3. /\ DOMAIN hash["anchor"] = {"db", "tip", "view"} /\ hash["anchor"].view = None
      /\ TipHash(hash["anchor"]) \in Anchors
      /\ None \notin Anchors
    BY CoinsChainAssumption DEF Inv, HashInv, TipHash, Anchors
<1>4. /\ DOMAIN g = {"db", "tip", "view"}
      /\ g.db = hash["anchor"].db /\ g.tip = TipHash(hash["anchor"])
      /\ g.view = TipHash(hash["anchor"])
      /\ TipHash(g) = TipHash(hash["anchor"])
    BY <1>3, GetHashFacts
<1>5. cur \in Anchors /\ cur = TipHash(hash["anchor"]) /\ cur = RootOf(chain)
  <2>1. TipHash(hash["anchor"]) = RootOf(chain)
    BY DEF Inv, HashInv
  <2> QED
    BY <1>3, <2>1 DEF ViewHash
<1>10. /\ cur \in Roots /\ cur \in RootsOf(chain)
       /\ RootsOf(chain) = RootsOf(ch) \cup {cur}
       /\ cur # newrt => cur \notin RootsOf(ch)
  <2>1. cur \in Roots /\ cur \in RootsOf(chain)
    BY <1>5, ChainRoot DEF Inv
  <2> HIDE DEF cur
  <2> QED
    BY <1>5, <2>1 DEF AnchorsBefore
<1> HIDE DEF g
<1>6. DOMAIN L = {"block", "anchor"} /\ L["anchor"] = g /\ L["block"] = s.hash["block"]
    BY <1>1
<1> HIDE DEF L
<1>7. HashesOK(L)
    BY <1>3, <1>4, <1>6 DEF HashesOK
<1>8. CASE cur = newrt
  <2>1. r = loaded
    BY <1>8 DEF PopAnchor
  <2> HIDE DEF loaded
  <2>2. ViewOK(loaded)
    BY <1>2 DEF ViewOK
  <2> HIDE DEF cur
  <2>3. RootsOf(chain) = RootsOf(ch)
    BY <1>8, <1>10 DEF AnchorsBefore
  <2>4. ShowsAnchors(loaded, ch)
    BY <1>2, <2>3 DEF ShowsAnchors
  <2>5. loaded.hash["anchor"].view = newrt
    BY <1>2, <1>4, <1>5, <1>6, <1>8
  <2> QED
    BY <1>2, <1>7, <2>1, <2>2, <2>4, <2>5 DEF Clean
<1>9. CASE cur # newrt
  <2> DEFINE H == [L EXCEPT !["anchor"] = SetHash(g, newrt)]
             bad == loaded.bad \/ ~ ViewHas(s.marks[cur])
  <2>1. r = [loaded EXCEPT !.hash["anchor"] = SetHash(@, newrt),
                           !.marks[cur] = SetMark(GetAnchorAt(@), FALSE),
                           !.bad = bad]
    BY <1>9 DEF PopAnchor
  <2> HIDE DEF loaded, bad, cur
  <2>2. /\ DOMAIN r = Fields /\ r.coins = s.coins
        /\ r.hash = H /\ r.marks = [s.marks EXCEPT ![cur] = m] /\ r.bad = bad
    BY <1>2, <1>6, <2>1 DEF Fields
  <2>3. HashesOK(H) /\ H["anchor"].view = newrt
    <3>1. DOMAIN g = {"db", "tip", "view"} /\ g.db = L["anchor"].db
          /\ TipHash(g) = TipHash(L["anchor"])
          /\ ("anchor" = "anchor" => (g.tip # None => g.tip \in Anchors))
      BY <1>3, <1>4, <1>6
    <3>2. ASSUME NEW k \in {"block", "anchor"}, k = "anchor"
          PROVE  /\ HashesOK([L EXCEPT ![k] = SetHash(g, newrt)])
                 /\ [L EXCEPT ![k] = SetHash(g, newrt)][k].view = newrt
      <4>1. /\ DOMAIN g = {"db", "tip", "view"} /\ g.db = L[k].db
            /\ TipHash(g) = TipHash(L[k])
            /\ (k = "anchor" => (g.tip # None => g.tip \in Anchors))
        BY <3>1, <3>2
      <4> QED
        BY ONLY <1>7, <4>1, <3>2, SetHashView
    <3> QED
      BY <3>2
  <2>4. cur \in DOMAIN marks => /\ MarkOK(m) /\ m.db = marks[cur].db
                                /\ TipHas(m) = TipHas(marks[cur])
                                /\ ViewHas(m) = FALSE
    <3> SUFFICES ASSUME cur \in DOMAIN marks
                 PROVE  /\ MarkOK(m) /\ m.db = marks[cur].db
                        /\ TipHas(m) = TipHas(marks[cur])
                        /\ ViewHas(m) = FALSE
      OBVIOUS
    <3> DEFINE c == s.marks[cur]
               a == GetAnchorAt(c)
    <3>1. MarkOK(c) /\ c.db = marks[cur].db /\ TipHas(c) = TipHas(marks[cur])
      BY DEF ViewOK
    <3>2. MarkOK(a) /\ SameMark(c, a)
      BY <3>1, ReadMark
    <3> HIDE DEF a
    <3>3. /\ MarkOK(SetMark(a, FALSE)) /\ SetMark(a, FALSE).db = a.db
          /\ TipHas(SetMark(a, FALSE)) = TipHas(a)
          /\ ViewHas(SetMark(a, FALSE)) = FALSE
      BY <3>2, WriteMark
    <3> QED
      BY <3>1, <3>2, <3>3 DEF SameMark, a
  <2> HIDE DEF m, H
  <2>5. DOMAIN s.marks = DOMAIN marks /\ DOMAIN marks = Nullifiers \cup Roots
    BY DEF ViewOK, Inv, MarksInv
  <2>6. /\ DOMAIN r.marks = DOMAIN marks
        /\ \A k \in DOMAIN marks \ {cur} : r.marks[k] = s.marks[k]
        /\ cur \in DOMAIN marks => r.marks[cur] = m
    BY <2>2, <2>5
  <2>7. ViewOK(r) /\ \A n \in Nullifiers : r.marks[n] = s.marks[n]
    BY <1>5, <2>2, <2>4, <2>6, AnchorMarkView
  <2>8. ShowsAnchors(r, ch)
    <3> SUFFICES ASSUME NEW k \in Roots
                 PROVE  ViewHas(r.marks[k]) <=> k \in RootsOf(ch)
      BY DEF ShowsAnchors
    <3>1. CASE k = cur
      BY <1>9, <1>10, <2>4, <2>5, <2>6, <3>1
    <3>2. CASE k # cur
      <4>1. r.marks[k] = s.marks[k]
        BY <2>5, <2>6, <3>2
      <4>2. k \in RootsOf(chain) <=> k \in RootsOf(ch)
        BY <1>10, <3>2
      <4>3. ViewHas(s.marks[k]) <=> k \in RootsOf(chain)
        BY DEF ShowsAnchors
      <4> QED
        BY <4>1, <4>2, <4>3
    <3> QED
      BY <3>1, <3>2
  <2>9. r.bad = FALSE
    <3>1. ViewHas(s.marks[cur])
      BY <1>10 DEF ShowsAnchors
    <3> QED
      BY <1>2, <2>2, <3>1 DEF bad, Clean
  <2> QED
    BY <2>2, <2>3, <2>7, <2>8, <2>9 DEF Clean
<1> QED
    BY <1>8, <1>9

\* DisconnectBlock: the view shows the chain without its last block.
LEMMA DisconnectTipInv ==
    ASSUME Inv, DisconnectTip
    PROVE  Inv'
<1> DEFINE r == Disconnecting[Len(Last(chain))]
           ch == Front(chain)
           root == undo[chain].root
           a == PopAnchor(r, root)
           s == DisconnectBlock
           hist == [e \in Epochs |-> IF e = EpochOf[Len(chain)]
                                     THEN PopHistoryNode(a.history[e]) ELSE a.history[e]]
           H == [a.hash EXCEPT !["block"] = SetHash(a.hash["block"], ch)]
<1>1. /\ chain # << >> /\ Flushed(s) /\ chain' = ch
      /\ UNCHANGED <<dbChain, undo, dbUndo>>
    BY DEF DisconnectTip
<1>2. /\ ViewOK(r) /\ HashesOK(r.hash) /\ r.hash["anchor"] = hash["anchor"]
      /\ IsChain(ch)
      /\ \A t \in Txids : ViewCoins(r.coins[t]) = UtxoOf(ch, t)
      /\ ShowsMarks(r, RevealedBy(TxsOf(ch))) /\ ShowsAnchors(r, chain)
      /\ r.bad = FALSE
      /\ root = RootOf(ch)
    BY <1>1, DisconnectingView
<1>14. /\ chain = Append(ch, Last(chain)) /\ Last(chain) \in Blocks[Len(ch) + 1]
       /\ Len(ch) < MaxHeight
  <2>1. IsChain(chain)
    BY DEF Inv, ChainInv
  <2> QED
    BY <1>1, <2>1, ChainFacts
<1>3. s = [a EXCEPT !.history = hist, !.hash["block"] = SetHash(@, ch)]
    BY DEF DisconnectBlock
<1> HIDE DEF r, root, ch
<1>15. Last(chain) \in Seq(Txids) /\ ch \in Seq(Seq(Txids))
    BY <1>2, <1>14, ChainFacts DEF IsChain
<1>4. /\ ViewOK(a) /\ HashesOK(a.hash) /\ a.hash["anchor"].view = RootOf(ch)
      /\ ShowsAnchors(a, ch) /\ a.bad = FALSE
      /\ a.coins = r.coins
      /\ \A n \in Nullifiers : a.marks[n] = r.marks[n]
  <2>1. root = RootOf(ch) /\ AnchorsBefore(root, ch)
    BY <1>2, <1>14, <1>15, RootsAppend, RootsGrow DEF AnchorsBefore
  <2>2. /\ Inv /\ ViewOK(r) /\ HashesOK(r.hash) /\ r.hash["anchor"] = hash["anchor"]
        /\ ShowsAnchors(r, chain) /\ Clean(r) /\ a = PopAnchor(r, root)
    BY <1>2 DEF Clean
  <2> HIDE DEF a
  <2>3. /\ ViewOK(a) /\ HashesOK(a.hash) /\ a.hash["anchor"].view = root
        /\ ShowsAnchors(a, ch) /\ Clean(a)
        /\ a.coins = r.coins
        /\ \A n \in Nullifiers : a.marks[n] = r.marks[n]
    BY ONLY <2>1, <2>2, PopAnchorView
  <2> QED
    BY <2>1, <2>3 DEF Clean
<1> HIDE DEF a, hist
<1>5. /\ DOMAIN s = Fields /\ s.coins = a.coins /\ s.marks = a.marks /\ s.hash = H
      /\ s.bad = a.bad
    BY <1>3, <1>4 DEF ViewOK, Fields
<1> HIDE DEF s
<1>6. ViewOK(s)
    BY <1>4, <1>5 DEF ViewOK
<1>7. HashesOK(H) /\ H["block"].view = ch /\ H["anchor"] = a.hash["anchor"]
  <2> DEFINE x == a.hash
             c == a.hash["block"]
  <2>1. /\ DOMAIN c = {"db", "tip", "view"} /\ c.db = x["block"].db
        /\ TipHash(c) = TipHash(x["block"]) /\ HashesOK(x)
    BY <1>4 DEF HashesOK
  <2> HIDE DEF x, c
  <2>2. ASSUME NEW k \in {"block", "anchor"}, k = "block"
        PROVE  /\ HashesOK([x EXCEPT ![k] = SetHash(c, ch)])
               /\ [x EXCEPT ![k] = SetHash(c, ch)][k].view = ch
    <3>1. /\ DOMAIN c = {"db", "tip", "view"} /\ c.db = x[k].db
          /\ TipHash(c) = TipHash(x[k]) /\ HashesOK(x)
          /\ (k = "anchor" => (c.tip # None => c.tip \in Anchors))
      BY <2>1, <2>2
    <3> QED
      BY ONLY <3>1, <2>2, SetHashView
  <2>3. [x EXCEPT !["block"] = SetHash(c, ch)]["anchor"] = x["anchor"]
    BY <2>1 DEF HashesOK
  <2> QED
    BY <2>2, <2>3 DEF x, c
<1>8. /\ s.hash["block"].view = ch /\ s.hash["anchor"].view = RootOf(ch) /\ HashesOK(s.hash)
      /\ s.bad = FALSE
    BY <1>4, <1>5, <1>7
<1>9. \A t \in Txids : ViewCoins(s.coins[t]) = UtxoOf(ch, t)
    BY <1>2, <1>4, <1>5
<1>10. ShowsMarks(s, RevealedBy(TxsOf(ch)))
    BY <1>2, <1>4, <1>5 DEF ShowsMarks
<1>16. ShowsAnchors(s, ch)
    BY <1>4, <1>5 DEF ShowsAnchors
<1>11. CoinsInv' /\ MarksInv' /\ HashInv' /\ fault' = FALSE
    BY <1>1, <1>2, <1>6, <1>8, <1>9, <1>10, <1>16, FlushedStep
<1>12. \A h \in 1..Len(ch) : SubSeq(ch, 1, h) \in DOMAIN undo
  <2>1. /\ \A h \in 1..Len(ch) : SubSeq(chain, 1, h) = SubSeq(ch, 1, h)
        /\ Len(chain) = Len(ch) + 1
    BY <1>14, <1>15, PrefixFacts
  <2>2. \A h \in 1..Len(ch) : h \in 1..Len(chain)
    BY <1>15, <2>1
  <2> QED
    BY <2>1, <2>2 DEF Inv, ChainInv, UndoAvailable
<1>13. ChainInv'
    BY <1>1, <1>2, <1>12 DEF ChainInv, Inv, UndoAvailable, UndoOK
<1> QED
    BY <1>11, <1>13 DEF Inv

-----------------------------------------------------------------------------
(***************************************************************************)
(* The invariant, and what follows from it.                                *)
(***************************************************************************)
\* An empty chain state shows the empty chain.
LEMMA InitInv ==
    ASSUME Init
    PROVE  Inv
<1>1. MaxHeight \in Nat
    BY NoneAssumption
<1>2. TxsOf(<< >>) = {} /\ IsChain(<< >>)
    BY <1>1 DEF TxsOf, IsChain
<1>3. Cleared \in Coins /\ IsPruned(Cleared) /\ Canonical(Cleared) = Cleared
  <2>1. Cleared \in Coins
    BY <1>1 DEF Cleared, Coins
  <2> QED
    BY <2>1, CanonicalFacts
<1>4. \A t : UtxoOf(<< >>, t) = Cleared
    BY <1>2 DEF UtxoOf
<1>5. CoinsInv
  <2>1. coins = [t \in Txids |-> [db |-> Cleared, tip |-> None, view |-> None]]
        /\ chain = << >> /\ dbChain = << >>
    BY DEF Init
  <2>2. ASSUME NEW t \in Txids
        PROVE  /\ CellOK(coins[t]) /\ coins[t].view = None
               /\ TipCoins(coins[t]) = Cleared /\ coins[t].db = Cleared
    <3>1. coins[t] = [db |-> Cleared, tip |-> None, view |-> None]
      BY <2>1
    <3>2. coins[t] \in CoinCells
      BY <1>3, <3>1 DEF CoinCells
    <3>3. coins[t].db = Cleared /\ coins[t].tip = None /\ coins[t].view = None
      BY <3>1
    <3> QED
      BY <1>3, <3>2, <3>3 DEF CellOK, TipCoins
  <2>3. coins \in [Txids -> Closed(CoinCells)]
    BY <2>1, <2>2 DEF Closed, CellOK
  <2> QED
    BY <1>4, <2>1, <2>2, <2>3 DEF CoinsInv
<1>6. MarksInv
  <2>1. marks = [k \in Nullifiers \cup Roots |->
                   [db |-> k = EmptyRoot, tip |-> None, view |-> None]]
        /\ chain = << >> /\ dbChain = << >>
    BY DEF Init
  <2>2. ASSUME NEW k \in Nullifiers \cup Roots
        PROVE  /\ MarkOK(marks[k]) /\ marks[k].view = None
               /\ TipHas(marks[k]) <=> k = EmptyRoot
               /\ marks[k].db <=> k = EmptyRoot
    <3>1. marks[k] = [db |-> k = EmptyRoot, tip |-> None, view |-> None]
      BY <2>1
    <3>2. (k = EmptyRoot) \in BOOLEAN
      OBVIOUS
    <3>3. marks[k] \in MarkCells
      BY <3>1, <3>2 DEF MarkCells
    <3>4. marks[k].db = (k = EmptyRoot) /\ marks[k].tip = None /\ marks[k].view = None
      BY <3>1
    <3> QED
      BY <3>3, <3>4 DEF MarkOK, TipHas
  <2>3. \A n \in Nullifiers : n # EmptyRoot
    <3>1. EmptyRoot \in Seq(Txids)
      BY DEF EmptyRoot
    <3> QED
      BY <3>1, CoinsChainAssumption
  <2>4. RevealedBy({}) = {}
    BY DEF RevealedBy
  <2>5. marks \in [Nullifiers \cup Roots -> Closed(MarkCells)]
    BY <2>1, <2>2 DEF Closed, MarkOK
  <2>6. RootsOf(<< >>) = {EmptyRoot}
    BY RootsEmpty
  <2> QED
    BY <1>2, <2>1, <2>2, <2>3, <2>4, <2>5, <2>6 DEF MarksInv
<1>7. HashInv
  <2>1. hash = [k \in {"block", "anchor"} |-> [db |-> << >>, tip |-> None, view |-> None]]
        /\ chain = << >> /\ dbChain = << >>
    BY DEF Init
  <2>2. << >> \in Anchors /\ RootOf(<< >>) = << >>
    BY RootsEmpty DEF Anchors, EmptyRoot
  <2> QED
    BY <2>1, <2>2 DEF HashInv, TipHash
<1>8. ChainInv
  <2>1. chain = << >> /\ dbChain = << >> /\ undo = << >> /\ dbUndo = << >>
    BY DEF Init
  <2>2. DOMAIN undo = {} /\ DOMAIN dbUndo = {}
    BY <2>1
  <2>3. UndoOK(undo) /\ UndoOK(dbUndo)
    BY <2>2 DEF UndoOK
  <2>4. UndoAvailable
    BY <2>1 DEF UndoAvailable
  <2> QED
    BY <1>2, <2>1, <2>2, <2>3, <2>4 DEF ChainInv
<1> QED
    BY <1>5, <1>6, <1>7, <1>8 DEF Inv, Init

\* The block index may be written alone: it refers to more undo data.
LEMMA WriteBlockIndexInv ==
    ASSUME Inv, WriteBlockIndex
    PROVE  Inv'
<1>1. dbUndo' = undo /\ UNCHANGED <<coins, marks, hash, chain, dbChain, undo, fault>>
    BY DEF WriteBlockIndex
<1>2. CoinsInv' /\ MarksInv' /\ HashInv'
    BY <1>1 DEF Inv, CoinsInv, MarksInv, HashInv
<1>3. UndoAvailable'
    BY <1>1 DEF Inv, ChainInv, UndoAvailable
<1>4. ChainInv'
    BY <1>1, <1>3 DEF Inv, ChainInv, UndoOK
<1> QED
    BY <1>1, <1>2, <1>4 DEF Inv

\* A full flush makes the database hold the active chain's state.
LEMMA FlushStateToDiskInv ==
    ASSUME Inv, FlushStateToDisk
    PROVE  Inv'
<1>1. /\ dbChain' = chain /\ dbUndo' = undo /\ chain' = chain /\ undo' = undo
      /\ fault' = fault
      /\ coins' = [t \in Txids |-> DbWriteCoins(coins[t])]
      /\ marks' = [k \in DOMAIN marks |-> DbWriteMark(marks[k])]
      /\ hash' = [k \in DOMAIN hash |-> DbWriteHash(hash[k])]
    BY DEF FlushStateToDisk
<1>2. CoinsInv'
  <2>1. ASSUME NEW t \in Txids
        PROVE  /\ CellOK(coins'[t]) /\ coins'[t].view = None
               /\ TipCoins(coins'[t]) = UtxoOf(chain, t)
               /\ coins'[t].db = UtxoOf(chain, t)
    <3>1. CellOK(coins[t]) /\ coins[t].view = None /\ TipCoins(coins[t]) = UtxoOf(chain, t)
      BY DEF Inv, CoinsInv
    <3>2. coins'[t] = DbWriteCoins(coins[t])
      BY <1>1
    <3> QED
      BY <3>1, <3>2, DbWriteCell
  <2>2. coins' \in [Txids -> Closed(CoinCells)]
    BY <1>1, <2>1 DEF Closed, CellOK
  <2> QED
    BY <1>1, <2>1, <2>2 DEF CoinsInv
<1>3. MarksInv'
  <2>1. ASSUME NEW k \in DOMAIN marks
        PROVE  /\ MarkOK(marks'[k]) /\ marks'[k].view = None
               /\ TipHas(marks'[k]) = TipHas(marks[k]) /\ marks'[k].db = TipHas(marks[k])
    <3>1. MarkOK(marks[k]) /\ marks[k].view = None
      BY DEF Inv, MarksInv
    <3>2. marks'[k] = DbWriteMark(marks[k])
      BY <1>1
    <3> QED
      BY <3>1, <3>2, MoveMark
  <2>2. /\ DOMAIN marks = Nullifiers \cup Roots
        /\ \A n \in Nullifiers : TipHas(marks[n]) <=> n \in RevealedBy(TxsOf(chain))
        /\ \A k \in Roots : TipHas(marks[k]) <=> k \in RootsOf(chain)
    BY DEF Inv, MarksInv
  <2>3. marks' \in [Nullifiers \cup Roots -> Closed(MarkCells)]
    BY <1>1, <2>1, <2>2 DEF Closed, MarkOK
  <2>4. ASSUME NEW n \in Nullifiers
        PROVE  /\ TipHas(marks'[n]) <=> n \in RevealedBy(TxsOf(chain))
               /\ marks'[n].db <=> n \in RevealedBy(TxsOf(chain))
    <3>1. n \in DOMAIN marks
      BY <2>2
    <3> QED
      BY <2>1, <2>2, <3>1
  <2>5. \A k \in DOMAIN marks' : MarkOK(marks'[k]) /\ marks'[k].view = None
    BY <2>1, <2>2, <2>3
  <2>6. ASSUME NEW k \in Roots
        PROVE  /\ TipHas(marks'[k]) <=> k \in RootsOf(chain)
               /\ marks'[k].db <=> k \in RootsOf(chain)
    <3>1. k \in DOMAIN marks
      BY <2>2
    <3> QED
      BY <2>1, <2>2, <3>1
  <2> QED
    BY <1>1, <2>3, <2>4, <2>5, <2>6 DEF MarksInv
<1>4. HashInv'
  <2>1. ASSUME NEW k \in {"block", "anchor"}
        PROVE  /\ DOMAIN hash'[k] = {"db", "tip", "view"} /\ hash'[k].view = None
               /\ hash'[k].tip = hash[k].tip /\ hash'[k].db = TipHash(hash[k])
    <3>1. DOMAIN hash[k] = {"db", "tip", "view"} /\ hash[k].view = None
      BY DEF Inv, HashInv
    <3>2. hash'[k] = DbWriteHash(hash[k])
      BY <1>1 DEF Inv, HashInv
    <3> QED
      BY <3>1, <3>2 DEF DbWriteHash, TipHash
  <2>2. /\ DOMAIN hash' = {"block", "anchor"} /\ TipHash(hash["block"]) = chain
        /\ TipHash(hash["anchor"]) = RootOf(chain)
        /\ hash["anchor"].db \in Anchors
        /\ hash["anchor"].tip # None => hash["anchor"].tip \in Anchors
    BY <1>1 DEF Inv, HashInv
  <2>3. TipHash(hash'["block"]) = chain /\ TipHash(hash'["anchor"]) = RootOf(chain)
    BY <2>1, <2>2 DEF TipHash
  <2>4. TipHash(hash["anchor"]) \in Anchors
    BY <2>2 DEF TipHash
  <2> QED
    BY <1>1, <2>1, <2>2, <2>3, <2>4 DEF HashInv
<1>5. ChainInv'
    BY <1>1 DEF Inv, ChainInv, UndoAvailable, UndoOK
<1> QED
    BY <1>1, <1>2, <1>3, <1>4, <1>5 DEF Inv

\* After a crash the node is where the last flush left the database, and has the
\* undo data of that chain.
LEMMA CrashInv ==
    ASSUME Inv, Crash
    PROVE  Inv'
<1>1. /\ dbChain' = dbChain /\ dbUndo' = dbUndo /\ undo' = dbUndo
      /\ chain' = dbChain /\ fault' = fault
      /\ coins' = [t \in Txids |-> DropCaches(coins[t])]
      /\ marks' = [k \in DOMAIN marks |-> DropCaches(marks[k])]
      /\ hash' = [k \in DOMAIN hash |-> DropCaches(hash[k])]
    BY DEF Crash, Inv, HashInv
<1>2. CoinsInv'
  <2>1. ASSUME NEW t \in Txids
        PROVE  /\ CellOK(coins'[t]) /\ coins'[t].view = None
               /\ TipCoins(coins'[t]) = UtxoOf(dbChain, t)
               /\ coins'[t].db = UtxoOf(dbChain, t)
    <3>1. CellOK(coins[t]) /\ coins[t].db = UtxoOf(dbChain, t)
      BY DEF Inv, CoinsInv
    <3>2. coins'[t] = DropCaches(coins[t])
      BY <1>1
    <3> QED
      BY <3>1, <3>2, DropCell
  <2>2. coins' \in [Txids -> Closed(CoinCells)]
    BY <1>1, <2>1 DEF Closed, CellOK
  <2> QED
    BY <1>1, <2>1, <2>2 DEF CoinsInv
<1>3. MarksInv'
  <2>1. ASSUME NEW k \in DOMAIN marks
        PROVE  /\ MarkOK(marks'[k]) /\ marks'[k].view = None
               /\ TipHas(marks'[k]) = marks[k].db /\ marks'[k].db = marks[k].db
    <3>1. MarkOK(marks[k])
      BY DEF Inv, MarksInv
    <3>2. marks'[k] = DropCaches(marks[k])
      BY <1>1
    <3> QED
      BY <3>1, <3>2, MoveMark
  <2>2. /\ DOMAIN marks = Nullifiers \cup Roots
        /\ \A n \in Nullifiers : marks[n].db <=> n \in RevealedBy(TxsOf(dbChain))
        /\ \A k \in Roots : marks[k].db <=> k \in RootsOf(dbChain)
    BY DEF Inv, MarksInv
  <2>3. marks' \in [Nullifiers \cup Roots -> Closed(MarkCells)]
    BY <1>1, <2>1, <2>2 DEF Closed, MarkOK
  <2>4. ASSUME NEW n \in Nullifiers
        PROVE  /\ TipHas(marks'[n]) <=> n \in RevealedBy(TxsOf(dbChain))
               /\ marks'[n].db <=> n \in RevealedBy(TxsOf(dbChain))
    <3>1. n \in DOMAIN marks
      BY <2>2
    <3> QED
      BY <2>1, <2>2, <3>1
  <2>5. \A k \in DOMAIN marks' : MarkOK(marks'[k]) /\ marks'[k].view = None
    BY <2>1, <2>2, <2>3
  <2>6. ASSUME NEW k \in Roots
        PROVE  /\ TipHas(marks'[k]) <=> k \in RootsOf(dbChain)
               /\ marks'[k].db <=> k \in RootsOf(dbChain)
    <3>1. k \in DOMAIN marks
      BY <2>2
    <3> QED
      BY <2>1, <2>2, <3>1
  <2> QED
    BY <1>1, <2>3, <2>4, <2>5, <2>6 DEF MarksInv
<1>4. HashInv'
  <2>1. ASSUME NEW k \in {"block", "anchor"}
        PROVE  /\ DOMAIN hash'[k] = {"db", "tip", "view"} /\ hash'[k].view = None
               /\ hash'[k].tip = None /\ hash'[k].db = hash[k].db
    <3>1. DOMAIN hash[k] = {"db", "tip", "view"}
      BY DEF Inv, HashInv
    <3>2. hash'[k] = DropCaches(hash[k])
      BY <1>1 DEF Inv, HashInv
    <3> QED
      BY <3>1, <3>2 DEF DropCaches
  <2>2. /\ DOMAIN hash' = {"block", "anchor"} /\ hash["block"].db = dbChain
        /\ hash["anchor"].db = RootOf(dbChain) /\ hash["anchor"].db \in Anchors
    BY <1>1 DEF Inv, HashInv
  <2>3. TipHash(hash'["block"]) = dbChain /\ TipHash(hash'["anchor"]) = RootOf(dbChain)
    BY <2>1, <2>2 DEF TipHash
  <2> QED
    BY <1>1, <2>1, <2>2, <2>3 DEF HashInv
<1>5. ChainInv'
    BY <1>1 DEF Inv, ChainInv, UndoAvailable, UndoOK
<1> QED
    BY <1>1, <1>2, <1>3, <1>4, <1>5 DEF Inv

\* A look-up in pcoinsTip does not show.
LEMMA AccessTipCoinsInv ==
    ASSUME Inv, NEW u \in LookedUp, AccessTipCoins(u)
    PROVE  Inv'
<1>1. /\ coins' = [coins EXCEPT ![u] = TipFetchCoins(coins[u])]
      /\ UNCHANGED <<marks, hash, chain, dbChain, undo, dbUndo, fault>>
    BY DEF AccessTipCoins
<1>2. CoinsInv'
  <2>1. DOMAIN coins = Txids
    BY DEF Inv, CoinsInv
  <2>2. ASSUME NEW t \in Txids
        PROVE  /\ CellOK(coins'[t]) /\ coins'[t].view = None
               /\ TipCoins(coins'[t]) = UtxoOf(chain, t)
               /\ coins'[t].db = UtxoOf(dbChain, t)
    <3>1. /\ CellOK(coins[t]) /\ coins[t].view = None
          /\ TipCoins(coins[t]) = UtxoOf(chain, t) /\ coins[t].db = UtxoOf(dbChain, t)
      BY DEF Inv, CoinsInv
    <3>2. /\ CellOK(TipFetchCoins(coins[t])) /\ Same(coins[t], TipFetchCoins(coins[t]))
          /\ TipFetchCoins(coins[t]).view = coins[t].view
      BY <3>1, TipFetchCell
    <3>3. coins'[t] = TipFetchCoins(coins[t]) \/ coins'[t] = coins[t]
      BY <1>1, <2>1
    <3> QED
      BY <3>1, <3>2, <3>3 DEF Same
  <2>3. coins' \in [Txids -> Closed(CoinCells)]
    BY <1>1, <2>1, <2>2 DEF Closed, CellOK
  <2> QED
    BY <1>1, <2>2, <2>3 DEF CoinsInv
<1>3. MarksInv' /\ HashInv'
    BY <1>1 DEF Inv, MarksInv, HashInv
<1>4. ChainInv'
    BY <1>1 DEF Inv, ChainInv, UndoAvailable, UndoOK
<1> QED
    BY <1>1, <1>2, <1>3, <1>4 DEF Inv

\* Every step of the node keeps the invariant.
LEMMA NextInv ==
    ASSUME Inv, [Next]_vars
    PROVE  Inv'
<1>1. CASE Len(chain) < MaxHeight /\ \E block \in Blocks[Len(chain) + 1] :
              ConnectTip(block) \/ RejectBlock(block)
    BY <1>1, ConnectTipInv, RejectBlockInv
<1>2. CASE DisconnectTip
    BY <1>2, DisconnectTipInv
<1>3. CASE WriteBlockIndex
    BY <1>3, WriteBlockIndexInv
<1>4. CASE FlushStateToDisk
    BY <1>4, FlushStateToDiskInv
<1>5. CASE Crash
    BY <1>5, CrashInv
<1>6. CASE \E t \in LookedUp : AccessTipCoins(t)
    BY <1>6, AccessTipCoinsInv
<1>7. CASE UNCHANGED vars
  <2>1. UNCHANGED <<coins, marks, hash, chain, dbChain, undo, dbUndo, fault>>
    BY <1>7 DEF vars
  <2>2. CoinsInv' /\ MarksInv' /\ HashInv'
    BY <2>1 DEF Inv, CoinsInv, MarksInv, HashInv
  <2>3. ChainInv'
    BY <2>1 DEF Inv, ChainInv, UndoAvailable, UndoOK
  <2> QED
    BY <2>1, <2>2, <2>3 DEF Inv
<1> QED
    BY <1>1, <1>2, <1>3, <1>4, <1>5, <1>6, <1>7 DEF Next

\* The views, the database and the undo data agree with the chain that is
\* active and with the one that was at the last flush, whatever blocks were
\* connected, disconnected or rejected, and wherever the process died.
THEOREM AlwaysInv == Spec => []Inv
<1>1. Init => Inv
    BY InitInv
<1>2. Inv /\ [Next]_vars => Inv'
    BY NextInv
<1> QED
    BY <1>1, <1>2, PTL DEF Spec

\* The mark of a key in a layer that shows the nullifiers and anchors of ch.
LEMMA MarkOfKey ==
    ASSUME NEW ch, NEW k \in Nullifiers \cup Roots, NEW e \in BOOLEAN,
           k \in Nullifiers => (e <=> k \in RevealedBy(TxsOf(ch))),
           k \in Roots => (e <=> k \in RootsOf(ch))
    PROVE  e = MarkOf(ch, k)
<1>1. CASE k \in Nullifiers
  <2>1. MarkOf(ch, k) = (k \in RevealedBy(TxsOf(ch)))
    BY <1>1 DEF MarkOf
  <2> QED
    BY <1>1, <2>1
<1>2. CASE k \in Roots
  <2>1. k \notin Nullifiers
    BY <1>2, RootsFacts
  <2>2. MarkOf(ch, k) = (k \in RootsOf(ch))
    BY <2>1 DEF MarkOf
  <2> QED
    BY <1>2, <2>2
<1> QED
    BY <1>1, <1>2

\* pcoinsTip always shows the unspent outputs, nullifiers, anchors, best block
\* and best anchor that replaying the active chain gives; the database always
\* holds those of one chain, the one active at the last flush; and every block of
\* both chains can be disconnected (ConnectBlock, DisconnectBlock,
\* FlushStateToDisk and the caches of coins.cpp).
THEOREM AlwaysChainStateIsReplay == Spec => []ChainStateIsReplay
<1>1. Inv => ChainStateIsReplay
  <2> SUFFICES ASSUME Inv
               PROVE  ChainStateIsReplay
    OBVIOUS
  <2>1. TypeOK
    BY DEF TypeOK, Inv, CoinsInv, MarksInv, HashInv
  <2>2. ASSUME NEW k \in DOMAIN marks
        PROVE  TipHas(marks[k]) = MarkOf(chain, k) /\ marks[k].db = MarkOf(dbChain, k)
    <3>1. k \in Nullifiers \cup Roots /\ MarkOK(marks[k])
      BY DEF Inv, MarksInv
    <3>2. TipHas(marks[k]) \in BOOLEAN /\ marks[k].db \in BOOLEAN
      BY <3>1 DEF MarkOK, MarkCells, Marks, TipHas
    <3>3. /\ k \in Nullifiers => /\ TipHas(marks[k]) <=> k \in RevealedBy(TxsOf(chain))
                                 /\ marks[k].db <=> k \in RevealedBy(TxsOf(dbChain))
          /\ k \in Roots => /\ TipHas(marks[k]) <=> k \in RootsOf(chain)
                            /\ marks[k].db <=> k \in RootsOf(dbChain)
      BY DEF Inv, MarksInv
    <3>4. TipHas(marks[k]) = MarkOf(chain, k)
      BY <3>1, <3>2, <3>3, MarkOfKey
    <3>5. marks[k].db = MarkOf(dbChain, k)
      BY <3>1, <3>2, <3>3, MarkOfKey
    <3> QED
      BY <3>4, <3>5
  <2>3. TipIsReplay
    BY <2>2 DEF TipIsReplay, Inv, CoinsInv, HashInv
  <2>4. DbIsReplay
    BY <2>2 DEF DbIsReplay, Inv, CoinsInv, HashInv
  <2>5. UndoAvailable
    BY DEF Inv, ChainInv
  <2> QED
    BY <2>1, <2>3, <2>4, <2>5 DEF ChainStateIsReplay
<1> QED
    BY <1>1, AlwaysInv, PTL

\* No assertion of UpdateCoins, ConnectBlock, PopAnchor or BatchWrite ever fails,
\* and DisconnectBlock, with the undo data written when the block was connected
\* for the first time, never finds the view inconsistent with the block.
THEOREM AlwaysNeverUnclean == Spec => []NeverUnclean
<1>1. Inv => NeverUnclean
    BY DEF Inv, NeverUnclean
<1> QED
    BY <1>1, AlwaysInv, PTL

\* No output is spent twice and no nullifier revealed twice on the active chain,
\* and every spent output was created in it: HaveInputs and
\* HaveShieldedRequirements look at views that show the whole chain.
THEOREM AlwaysNoDoubleSpend == Spec => []NoDoubleSpend
<1>1. Inv => NoDoubleSpend
  <2> SUFFICES ASSUME Inv
               PROVE  NoDoubleSpend
    OBVIOUS
  <2>1. NoConflict(TxsOf(chain))
    BY ChainNoConflict DEF Inv
  <2> QED
    BY <2>1 DEF NoConflict, NoDoubleSpend
<1> QED
    BY <1>1, AlwaysInv, PTL
=============================================================================
