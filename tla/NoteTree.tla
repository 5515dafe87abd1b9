------------------------------ MODULE NoteTree ------------------------------
(***************************************************************************)
(* IncrementalMerkleTree and IncrementalWitness                            *)
(* (src/src/zcash/IncrementalMerkleTree.cpp): the tree of note commitments *)
(* that keeps only its right edge, and the witness that goes on with the   *)
(* authentication path of one note while commitments are appended.         *)
(*                                                                         *)
(* A hash at depth d is the sequence of the 2^d leaves below it, which is  *)
(* what a hash without collisions binds.  parents[d] is the collapsed left *)
(* subtree of depth d, or None.  Depth is large enough that no tree gets   *)
(* full, where the code throws.                                            *)
(***************************************************************************)
EXTENDS Integers, SequencesExt

CONSTANTS Depth,        \* of the tree: 29 and 32 in the code
          None,         \* boost::none
          Uncommitted   \* the leaf that is not there yet

Leaf(cm) == << cm >>
EmptyRoot(d) == [i \in 1..2^d |-> Uncommitted]

\* The hash of two subtrees of depth d; no tree has the hash of anything else.
combine(a, b, d) ==
    IF Len(a) = 2^d /\ Len(b) = 2^d THEN a \o b ELSE << None >>

-----------------------------------------------------------------------------
(* The tree *)

EmptyTree == [left |-> None, right |-> None, parents |-> << >>]

size(tree) ==
    (IF tree.left = None THEN 0 ELSE 1) + (IF tree.right = None THEN 0 ELSE 1)
        + SumSet({2^d : d \in {e \in DOMAIN tree.parents : tree.parents[e] # None}})

last(tree) == IF tree.right # None THEN tree.right ELSE tree.left

is_complete(tree, depth) ==
    /\ tree.left # None /\ tree.right # None
    /\ Len(tree.parents) = depth - 1
    /\ \A d \in DOMAIN tree.parents : tree.parents[d] # None

\* A third leaf sends the first two up to the first free parent, joined with
\* the parents on the way.
append(tree, obj) ==
    LET p == tree.parents
        free == CHOOSE d \in 1..(Len(p) + 1) :
                   /\ d \in DOMAIN p => p[d] = None
                   /\ \A e \in 1..(d - 1) : p[e] # None
        carry == FoldLeft(LAMBDA c, d : combine(p[d], c, d),
                          combine(tree.left, tree.right, 0),
                          [d \in 1..(free - 1) |-> d])
    IN  IF tree.left = None THEN [tree EXCEPT !.left = obj]
        ELSE IF tree.right = None THEN [tree EXCEPT !.right = obj]
        ELSE [left |-> obj, right |-> None,
              parents |-> [d \in 1..(free - 1) |-> None] \o << carry >>
                             \o SubSeq(p, free + 1, Len(p))]

\* The depth of the next missing subtree, after `skip` of them were filled.
next_depth(tree, skip) ==
    LET gaps == (IF tree.left = None THEN <<0>> ELSE << >>)
                \o (IF tree.right = None THEN <<0>> ELSE << >>)
                \o SelectSeq([d \in DOMAIN tree.parents |-> d],
                             LAMBDA d : tree.parents[d] = None)
    IN  IF skip < Len(gaps) THEN gaps[skip + 1]
        ELSE Len(tree.parents) + 1 + skip - Len(gaps)

\* The siblings on the way from the last leaf to the root, and whether they are
\* on the left.  PathFiller supplies the missing ones, from the queue first; the
\* queue is empty if the tree is.
Siblings(tree, depth, filler) ==
    LET Next(s, sibling, d) ==
            IF sibling # None
            THEN [s EXCEPT !.path = Append(@, [left |-> TRUE, hash |-> sibling])]
            ELSE [path |-> Append(s.path,
                              [left |-> FALSE,
                               hash |-> IF s.queue = << >> THEN EmptyRoot(d)
                                        ELSE Head(s.queue)]),
                  queue |-> IF s.queue = << >> THEN << >> ELSE Tail(s.queue)]
        Level(s, d) == Next(s, IF d \in DOMAIN tree.parents THEN tree.parents[d]
                               ELSE None, d)
        start == Next([path |-> << >>, queue |-> filler],
                      IF tree.right = None THEN None ELSE tree.left, 0)
        top == IF Len(tree.parents) > depth - 1 THEN Len(tree.parents) ELSE depth - 1
    IN  FoldLeft(Level, start, [d \in 1..top |-> d]).path

\* What a path leads to from a leaf.
Up(leaf, path) ==
    FoldLeft(LAMBDA h, d : IF path[d].left THEN combine(path[d].hash, h, d - 1)
                           ELSE combine(h, path[d].hash, d - 1),
             leaf, [d \in DOMAIN path |-> d])

root(tree, depth, filler) ==
    Up(IF tree.left = None THEN EmptyRoot(0) ELSE last(tree),
       Siblings(tree, depth, filler))

-----------------------------------------------------------------------------
(* The witness *)

witness(tree) == [tree |-> tree, filled |-> << >>, cursor |-> None, cursor_depth |-> 0]

partial_path(w) ==
    w.filled \o IF w.cursor = None THEN << >>
                ELSE << root(w.cursor, w.cursor_depth, << >>) >>

WitnessAppend(w, obj) ==
    LET cursor == append(w.cursor, obj)
        depth == next_depth(w.tree, Len(w.filled))
    IN  IF w.cursor # None
        THEN IF is_complete(cursor, w.cursor_depth)
             THEN [w EXCEPT !.filled = Append(@, root(cursor, w.cursor_depth, << >>)),
                            !.cursor = None]
             ELSE [w EXCEPT !.cursor = cursor]
        ELSE IF depth = 0
             THEN [w EXCEPT !.filled = Append(@, obj), !.cursor_depth = depth]
             ELSE [w EXCEPT !.cursor = append(EmptyTree, obj),
                            !.cursor_depth = depth]

path(w) == Siblings(w.tree, Depth, partial_path(w))
element(w) == last(w.tree)
position(w) == size(w.tree) - 1

\* A witness that was written and read again.
Reloaded(w) == [w EXCEPT !.cursor_depth = next_depth(w.tree, Len(w.filled))]

-----------------------------------------------------------------------------
(* Reference *)

\* The root over a sequence of commitments.
RootOver(cms) ==
    [i \in 1..2^Depth |-> IF i <= Len(cms) THEN cms[i] ELSE Uncommitted]

\* The witness of the commitment at position p of the sequence: it is of that
\* commitment, and its path leads from there to the root of the sequence.
Witnesses(w, cms, p) ==
    /\ position(w) = p
    /\ element(w) = Leaf(cms[p + 1])
    /\ Up(element(w), path(w)) = RootOver(cms)

=============================================================================
