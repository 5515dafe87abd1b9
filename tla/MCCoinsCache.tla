--------------------------- MODULE MCCoinsCache ---------------------------
(***************************************************************************)
(* A TLC instance of CoinsCache.  Keys of different kinds do not influence *)
(* each other, so in any state only one kind of key is in use: either the  *)
(* transaction and the best block, or the nullifier and the anchors and    *)
(* the best anchor of one pool.                                            *)
(***************************************************************************)
EXTENDS CoinsCache

CONSTANTS t1, n1, sapling, r0, r1, b0, b1

Cached(cell) == cell.tip # None \/ cell.view # None

TransparentInUse ==
    \/ \E t \in Txids : Cached(coins[t]) \/ ~ IsPruned(coins[t].db)
    \/ Cached(hashes[BestBlock])

ShieldedInUse ==
    \/ \E k \in MarkKeys :
          Cached(marks[k]) \/ marks[k].db # (\E p \in Pools : k = <<p, EmptyRoot>>)
    \/ \E p \in Pools : Cached(hashes[p]) \/ hashes[p].db # EmptyRoot

OneKind == ~ (TransparentInUse /\ ShieldedInUse)

OneKindSpec == Init /\ [][Next /\ OneKind']_vars

=============================================================================
