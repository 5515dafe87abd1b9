--------------------------- MODULE HistoryLayers ---------------------------
(***************************************************************************)
(* The chain history trees (ZIP 221) in the chain state's views: one       *)
(* Merkle mountain range per epoch, kept as an array of nodes by           *)
(* CCoinsViewDB (src/src/txdb.cpp) and as a HistoryCache                   *)
(* (src/src/zcash/History.cpp) by pcoinsTip and by a view opened on it     *)
(* (src/src/coins.cpp).                                                    *)
(*                                                                         *)
(* A cell holds what the three layers store for one epoch, None being no   *)
(* cache for it, or the root of an empty tree.  A node is the              *)
(* sequence of the leaves below it, and a root the sequence of all leaves: *)
(* what the hashes of the Rust library bind.  Array positions start at 0.  *)
(***************************************************************************)
EXTENDS CoinsLayers, SequencesExt

EmptyHistory == [db |-> [length |-> 0, nodes |-> << >>, root |-> None],
                 tip |-> None, view |-> None]

\* A look-up that fails: the code throws, or gets a zero node that no hash fits.
NoNode == << None >>
NodeIn(nodes, i) == IF i \in DOMAIN nodes THEN nodes[i] ELSE NoNode

(***************************************************************************)
(* HistoryCache.                                                           *)
(***************************************************************************)
HistoryCache(length, root) ==
    [length |-> length, updateDepth |-> length, appends |-> << >>, root |-> root]

Extend(c, node) ==
    [c EXCEPT !.appends = [i \in DOMAIN @ \cup {c.length} |->
                              IF i = c.length THEN node ELSE @[i]],
              !.length = @ + 1]

\* Fault variant: how far back the array was changed is forgotten.
Truncate_KeepDepth(c, n) ==
    [c EXCEPT !.appends = [i \in {j \in DOMAIN @ : j < n} |-> @[i]],
              !.length = n]

Truncate(c, n) ==
    [c EXCEPT !.appends = [i \in {j \in DOMAIN @ : j < n} |-> @[i]],
              !.length = n,
              !.updateDepth = IF @ > n THEN n ELSE @]

(***************************************************************************)
(* Look-ups.  SelectHistoryCache opens a cache in each layer it asks.      *)
(***************************************************************************)
TipSelected(h) ==
    IF h.tip # None THEN h
    ELSE [h EXCEPT !.tip = HistoryCache(h.db.length, h.db.root)]

SelectHistoryCache(h) ==
    LET d == TipSelected(h)
    IN IF h.view # None THEN h
       ELSE [d EXCEPT !.view = HistoryCache(d.tip.length, d.tip.root)]

\* GetHistoryLength, GetHistoryRoot and GetHistoryAt of pcoinsTip and the view.
TipLength(h) == TipSelected(h).tip.length
TipRoot(h) == TipSelected(h).tip.root
DbNode(h, i) == IF i >= h.db.length THEN NoNode ELSE NodeIn(h.db.nodes, i)
TipNode(h, i) ==
    LET c == TipSelected(h).tip
    IN CASE i >= c.length -> NoNode
         [] i < c.length /\ i >= c.updateDepth -> NodeIn(c.appends, i)
         [] i < c.length /\ i < c.updateDepth -> DbNode(h, i)
ViewNode(h, i) ==
    CASE i >= h.view.length -> NoNode
      [] i < h.view.length /\ i >= h.view.updateDepth -> NodeIn(h.view.appends, i)
      [] i < h.view.length /\ i < h.view.updateDepth -> TipNode(h, i)

(***************************************************************************)
(* PreloadHistoryTree.                                                     *)
(***************************************************************************)

\* The altitude of the highest peak of an array of n nodes.
Altitude(n) == (CHOOSE a \in 0..n : 2^a <= n + 1 /\ n + 1 < 2^(a + 1)) - 1

\* Positions and altitudes of the peaks of an array of n nodes: from a peak go
\* to its right sibling, and while that is out of bounds to its left child.
Peaks(n) ==
    LET Walk[alt \in 0..Altitude(n), pos \in 0..(3 * n)] ==
            LET out == pos >= n
                a == IF out THEN alt - 1 ELSE alt
                p == IF out THEN pos - 2^alt ELSE pos
            IN IF alt = 0 THEN << >>
               ELSE IF p < n THEN << <<p, a>> >> \o Walk[a, p + 2^(a + 1) - 1]
                    ELSE Walk[a, p]
    IN IF n = 1 THEN << <<0, 0>> >>
       ELSE Walk[Altitude(n), 2^(Altitude(n) + 1) - 2]

\* The left children on the right slope below a peak.  The right children are
\* loaded too, for the library to walk down the slope.
SlopeLefts(peak) ==
    [d \in 1..peak[2] |-> (peak[1] - d + 1) - 2^(peak[2] - d + 1)]

(***************************************************************************)
(* librustzcash_mmr_append and librustzcash_mmr_delete (external).         *)
(***************************************************************************)

\* The nodes that a leaf adds: itself, and a parent for each peak it completes.
MmrAppend(peaks, leaf) ==
    LET Join(peak, new) == IF Len(peak) = Len(Last(new))
                           THEN Append(new, peak \o Last(new)) ELSE new
    IN FoldRight(Join, peaks, << <<leaf>> >>)

(***************************************************************************)
(* Changes.                                                                *)
(***************************************************************************)
PushHistoryNode(h, leaf) ==
    LET s == SelectHistoryCache(h)
        at == Peaks(s.view.length)
        peaks == [k \in DOMAIN at |-> ViewNode(s, at[k][1])]
        new == FoldLeft(Extend, s.view, MmrAppend(peaks, leaf))
    IN [s EXCEPT !.view =
           IF s.view.length = 0
           THEN [Extend(s.view, <<leaf>>) EXCEPT !.root = <<leaf>>]
           ELSE [new EXCEPT !.root = Append(FlattenSeq(peaks), leaf)]]

PopHistoryNode(h) ==
    LET s == SelectHistoryCache(h)
        n == s.view.length
        at == Peaks(n)
        lefts == SlopeLefts(Last(at))
        left == [k \in DOMAIN Front(at) |-> at[k][1]] \o lefts
        root == FlattenSeq([k \in DOMAIN left |-> ViewNode(s, left[k])])
    IN [s EXCEPT !.view =
           IF n <= 1 THEN [Truncate(@, 0) EXCEPT !.root = None]
           ELSE IF n = 3 THEN [Truncate(@, 1) EXCEPT !.root = ViewNode(s, 0)]
           ELSE [Truncate(@, n - (Last(at)[2] + 1)) EXCEPT !.root = root]]

(***************************************************************************)
(* BatchWriteHistory, of the view to pcoinsTip and of pcoinsTip to the     *)
(* database.  The latter erases nothing: the key it builds from an int is  *)
(* not the key of a HistoryIndex.  What is beyond the new length stays.    *)
(***************************************************************************)
BatchWriteHistory(h) ==
    LET in == h.view
        new == FoldLeft(Extend, Truncate(h.tip, in.updateDepth),
                        [k \in 1..(in.length - in.updateDepth) |->
                            NodeIn(in.appends, in.updateDepth + k - 1)])
    IN IF in = None THEN h
       ELSE [h EXCEPT !.view = None,
                      !.tip = IF @ = None THEN in ELSE [new EXCEPT !.root = in.root]]

DbWriteHistory(h) ==
    LET in == h.tip
        nodes == [i \in DOMAIN h.db.nodes \cup DOMAIN in.appends |->
                     IF i \in DOMAIN in.appends THEN in.appends[i]
                     ELSE h.db.nodes[i]]
    IN IF in = None THEN h
       ELSE [h EXCEPT !.tip = None,
                      !.db = [length |-> in.length, nodes |-> nodes,
                              root |-> in.root]]

(***************************************************************************)
(* Reference: the array of a mountain range in closed form.  After leaf k  *)
(* come the nodes over the last 2, 4, 8, ... leaves as far as these powers *)
(* of two divide k.                                                        *)
(***************************************************************************)
ArrayOf(leaves) ==
    FlattenSeq([k \in DOMAIN leaves |->
        LET trailing == CHOOSE j \in 0..k : k % 2^j = 0 /\ k % 2^(j + 1) # 0
        IN [j \in 1..(trailing + 1) |-> SubSeq(leaves, k - 2^(j - 1) + 1, k)]])

=============================================================================
