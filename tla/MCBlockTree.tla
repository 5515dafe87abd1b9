---------------------------- MODULE MCBlockTree ----------------------------
(***************************************************************************)
(* A tree for BlockTree:                                                   *)
(*                                                                         *)
(*      g --- a1 --- a2 --- a3                                             *)
(*        \                                                                *)
(*         -- b1 --- b2 --- b3                                             *)
(***************************************************************************)
EXTENDS BlockTree

CONSTANTS g, a1, a2, a3, b1, b2, b3, t1, t2

MCParent == [b \in Blocks \ {g} |->
    CASE b \in {a1, b1} -> g
      [] b = a2 -> a1
      [] b = a3 -> a2
      [] b = b2 -> b1
      [] b = b3 -> b2]

MCAddress == [b \in Blocks |-> CHOOSE n \in 1..7 : <<g, a1, b2, a3, b1, a2, b3>>[n] = b]

UnitProof == [b \in Blocks |-> 1]

=============================================================================
