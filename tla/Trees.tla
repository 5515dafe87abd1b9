------------------------------- MODULE Trees -------------------------------
(***************************************************************************)
(* Trees of blocks.  A block names its predecessor by hash, and the node   *)
(* takes up a header only when it knows the predecessor, so what it knows  *)
(* grows from the genesis block.                                           *)
(***************************************************************************)
EXTENDS Integers, FiniteSets

\* P maps every member of B but the root g to its parent, and every member is
\* reached from the root: a set with the root that holds the children of all
\* its members is all of B.
IsTree(B, g, P) ==
    /\ g \in B
    /\ P \in [B \ {g} -> B]
    /\ \A S \in SUBSET B :
          /\ g \in S
          /\ \A b \in B \ {g} : P[b] \in S => b \in S
          => S = B

\* f[b] is b with all its ancestors, in the form of a recursive definition.
IsPath(B, g, P, f) ==
    f = [b \in B |-> {b} \cup IF b = g THEN {} ELSE f[P[b]]]

\* h[b] is the distance of b from the root.
IsHeight(B, g, P, h) ==
    h = [b \in B |-> IF b = g THEN 0 ELSE h[P[b]] + 1]

\* The sequences that list S by a strict order: one, if the order is total.
Listings(S, Before(_, _)) ==
    {s \in [1..Cardinality(S) -> S] :
        \A i, j \in 1..Cardinality(S) : i < j => Before(s[i], s[j])}

=============================================================================
