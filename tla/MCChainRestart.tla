--------------------------- MODULE MCChainRestart ---------------------------
(***************************************************************************)
(* A tree for ChainRestart:                                                *)
(*                                                                         *)
(*      g --- a1 --- a2 --- a3      valid if the upgrade activates at 2    *)
(*        \      \                                                         *)
(*         \      -- b2            likewise                                *)
(*          -- b1                   valid if it activates at 1             *)
(***************************************************************************)
EXTENDS ChainRestart

CONSTANTS g, a1, a2, a3, b1, b2, t1

MCParent == [b \in Blocks \ {g} |->
    CASE b \in {a1, b1} -> g
      [] b \in {a2, b2} -> a1
      [] b = a3 -> a2]

MCEpoch == [b \in Blocks |-> IF b \in {g, a1} THEN 0 ELSE 1]

MCAddress == [b \in Blocks |-> CHOOSE n \in 1..6 : <<g, a1, b2, a3, b1, a2>>[n] = b]

UnitProof == [b \in Blocks |-> 1]

=============================================================================
