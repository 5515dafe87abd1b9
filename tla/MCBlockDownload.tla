-------------------------- MODULE MCBlockDownload --------------------------
(* A chain of two blocks that an outbound honest peer has, and a block      *)
(* beside it that does not connect.  The other peers, one at a time, are    *)
(* one that may announce both and a whitelisted one that has the bad block. *)
(* The window is shorter than the chain.                                    *)
EXTENDS BlockDownload

MCBlock == {"g", "a1", "a2", "b2"}
MCParent == [b \in MCBlock \ {"g"} |-> IF b = "a1" THEN "g" ELSE "a1"]
MCOffers == [p \in {"h", "d", "w"} |->
                CASE p = "h" -> {"a2"} [] p = "d" -> {"a2", "b2"} [] p = "w" -> {"b2"}]
=============================================================================
