--------------------------- MODULE MCWalletNotify ---------------------------
(* A block that both branches build on, with a note; a transaction that the  *)
(* branches contain at different heights and a third block double-spends.    *)
EXTENDS WalletNotify

MCBlocks == {"g", "m1", "m2", "f2", "f3", "c3"}
MCParent ==
    [b \in MCBlocks \ {"g"} |->
        CASE b = "m1" -> "g" [] b \in {"m2", "f2"} -> "m1"
          [] b \in {"f3", "c3"} -> "f2"]
MCCommitments ==
    [b \in MCBlocks |->
        CASE b = "m1" -> <<"old", "v">> [] b = "m2" -> <<"w", "moved">>
          [] b = "f2" -> <<"x">> [] b = "f3" -> <<"y", "moved", "z">> [] OTHER -> <<>>]
MCConflicts == [b \in MCBlocks |-> IF b = "c3" THEN {"moved"} ELSE {}]

\* The tree and the witness of any commitment, read back from disk at any time,
\* follow a sequence of commitments up to a full tree.
WitnessSound(n) ==
    LET Add(st, cm) ==
            LET tree == append(st.tree, Leaf(cm))
            IN  [tree |-> tree,
                 w |-> Append([p \in DOMAIN st.w |->
                          {WitnessAppend(x, Leaf(cm)) : x \in st.w[p]}
                             \cup {WitnessAppend(Reloaded(x), Leaf(cm)) : x \in st.w[p]}],
                          {witness(tree)})]
        cms == [k \in 1..n |-> k]
        end == FoldLeft(Add, [tree |-> EmptyTree, w |-> << >>], cms)
    IN  /\ size(end.tree) = n
        /\ root(end.tree, Depth, << >>) = RootOver(cms)
        /\ \A p \in 1..n : \A x \in end.w[p] : Witnesses(x, cms, p - 1)

ASSUME WitnessAssumption == \A n \in 1..(2^Depth) : WitnessSound(n)
=============================================================================
