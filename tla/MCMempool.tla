----------------------------- MODULE MCMempool -----------------------------
(* A coinbase spend, its child, a child signed for the next branch, and a    *)
(* double spend; a shielding transaction that expires, a spend of its note   *)
(* and one that reveals the same nullifier.                                  *)
EXTENDS Mempool

MCTx == {"heir", "pay", "child", "double", "shield", "spend", "rival"}
MCCoinbase == <<"c1", "c2", "c3", "c4", "c5", "c6", "c7", "c8">>
MCPrevouts ==
    [t \in MCTx |-> CASE t \in {"pay", "double"} -> {"c2"}
                      [] t \in {"child", "heir"} -> {"pay"}
                      [] t = "shield" -> {"c1"} [] OTHER -> {}]
MCNullifiers == [t \in MCTx |-> IF t \in {"spend", "rival"} THEN {"nf"} ELSE {}]
MCAnchor == [t \in MCTx |-> IF t = "spend" THEN {"shield"} ELSE {}]
MCExpiry == [t \in MCTx |-> IF t = "shield" THEN 5 ELSE 0]
MCBranch == [t \in MCTx |-> IF t \in {"double", "heir"} THEN 1 ELSE 0]
MCWeight == [t \in MCTx |-> IF t \in {"child", "spend"} THEN 2 ELSE 1]
=============================================================================
