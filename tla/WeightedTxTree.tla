--------------------------- MODULE WeightedTxTree ---------------------------
(***************************************************************************)
(* The tree from which the mempool draws the transaction to evict: a       *)
(* complete binary tree laid out in an array, each node with the total     *)
(* weight of what is below it, so that a node is added, removed or drawn   *)
(* in logarithmic time.  A tree is [ids, child]: index i of the code is    *)
(* i + 1 here.                                                             *)
(***************************************************************************)
EXTENDS Integers, Sequences, FiniteSets

CONSTANTS
    Tx,          \* transactions
    Weight       \* Weight[t]: its eviction weight

ASSUME WeightAssumption ==
    IsFiniteSet(Tx) /\ Weight \in [Tx -> Nat \ {0}]

EmptyTree == [ids |-> <<>>, child |-> <<>>]

getWeightAt(tree, i) ==
    IF i < Len(tree.ids) THEN Weight[tree.ids[i + 1]] + tree.child[i + 1] ELSE 0

\* Index a is a proper ancestor of index i.
Ancestors(i) ==
    LET up[k \in 0 .. i] == IF k = 0 THEN {}
                            ELSE {(k - 1) \div 2} \cup up[(k - 1) \div 2]
    IN  up[i]

backPropagate(child, from, delta) ==
    [k \in DOMAIN child |->
        IF k - 1 \in Ancestors(from) THEN child[k] + delta ELSE child[k]]

InTree(tree, t) == \E k \in DOMAIN tree.ids : tree.ids[k] = t

add(tree, t) ==
    IF InTree(tree, t) THEN tree
    ELSE [ids |-> Append(tree.ids, t),
          child |-> backPropagate(Append(tree.child, 0), Len(tree.ids), Weight[t])]

\* Fault variant: the node that moves takes its weight along unnoticed.
remove_NoDelta(tree, t) ==
    IF ~InTree(tree, t) THEN tree
    ELSE LET size == Len(tree.ids) - 1
             at == CHOOSE k \in DOMAIN tree.ids : tree.ids[k] = t
             last == tree.ids[size + 1]
         IN  [ids |-> SubSeq([tree.ids EXCEPT ![at] = last], 1, size),
              child |-> SubSeq(backPropagate(tree.child, size, -Weight[last]), 1, size)]

\* The last node takes the place of the removed one.
remove(tree, t) ==
    IF ~InTree(tree, t) THEN tree
    ELSE LET size == Len(tree.ids) - 1
             at == CHOOSE k \in DOMAIN tree.ids : tree.ids[k] = t
             last == tree.ids[size + 1]
             less == backPropagate(tree.child, size, -Weight[last])
             moved == IF at <= size
                      THEN backPropagate(less, at - 1, Weight[last] - Weight[t])
                      ELSE less
         IN  [ids |-> SubSeq([tree.ids EXCEPT ![at] = last], 1, size),
              child |-> SubSeq(moved, 1, size)]

\* findByEvictionWeight(0, w), as the walk down from the root.
findByEvictionWeight(tree, w) ==
    LET size == Len(tree.ids)
        left(i) == getWeightAt(tree, 2 * i + 1)
        right(i) == getWeightAt(tree, i) - getWeightAt(tree, 2 * i + 2)
        \* what is left to find on arrival at i, or -1 off the walk
        rest[i \in 0 .. size - 1] ==
            IF i = 0 THEN w
            ELSE LET up == (i - 1) \div 2
                 IN  CASE i = 2 * up + 1 /\ rest[up] \in 0 .. left(up) - 1 -> rest[up]
                       [] i = 2 * up + 2 /\ rest[up] >= right(up) -> rest[up] - right(up)
                       [] OTHER -> -1
    IN  tree.ids[1 + CHOOSE i \in 0 .. size - 1 :
                        rest[i] >= left(i) /\ rest[i] >= 0 /\ rest[i] < right(i)]

getTotalWeight(tree) == getWeightAt(tree, 0)
=============================================================================
