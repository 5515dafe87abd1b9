---------------------------- MODULE MCCoinsChain ----------------------------
(***************************************************************************)
(* Transactions for CoinsChain.  fund moves shielded value to two          *)
(* transparent outputs; all spends both and next spends all; one spends    *)
(* one of them and rest the other and one's.  again reveals the nullifier  *)
(* that fund reveals, and deep proves against the tree after fund.         *)
(***************************************************************************)
EXTENDS CoinsChain

CONSTANTS cb1, cb2, cb3, cb4, fund, all, one, rest, next, again, deep, n1, n2,
          heartwood, canopy

MCInputs == [t \in Txids |->
    CASE t = all -> << <<fund, 1>>, <<fund, 2>> >>
      [] t = one -> << <<fund, 1>> >>
      [] t = rest -> << <<fund, 2>>, <<one, 1>> >>
      [] t = next -> << <<all, 1>> >>
      [] OTHER -> << >>]
MCOutputs == [t \in Txids |-> IF t = fund THEN {1, 2} ELSE {1}]
MCSpends == [t \in Txids |->
    IF t \in {fund, again} THEN {n1} ELSE IF t = deep THEN {n2} ELSE {}]
MCAnchorOf == [t \in Txids |->
    CASE t \in {fund, again} -> << >> [] t = deep -> <<fund>> [] OTHER -> None]

\* Spends within a block and across blocks, a double spend, a missing input; a
\* nullifier revealed twice, an anchor of a fork that was left, blocks without
\* shielded data.
MCBlocks == << {<<cb1, fund>>, <<cb1>>},
               {<<cb2, all, next, deep>>, <<cb2, one>>, <<cb2, all, one>>,
                <<cb2, again>>},
               {<<cb3, rest>>},
               {<<cb4>>} >>

\* The history tree starts anew in the last block.
MCEpochOf == <<heartwood, heartwood, heartwood, canopy>>

\* The peaks of a history tree are the nodes over the powers of two that add up
\* to the number of leaves, and taking away the last leaf leaves the other
\* peaks and the left children on the slope of the last one.
PeaksCover(leaves) ==
    LET array == ArrayOf(leaves)
        at == Peaks(Len(array))
        peaks == [k \in DOMAIN at |-> array[at[k][1] + 1]]
        lefts == SlopeLefts(Last(at))
        slope == [k \in DOMAIN lefts |-> array[lefts[k] + 1]]
    IN /\ FlattenSeq(peaks) = leaves
       /\ \A k \in DOMAIN at : Len(peaks[k]) = 2^at[k][2]
       /\ \A k \in 2..Len(at) : at[k - 1][2] > at[k][2]
       /\ FlattenSeq(Front(peaks) \o slope) = Front(leaves)
       /\ Len(array) - Len(ArrayOf(Front(leaves))) = Last(at)[2] + 1

ASSUME PeaksAssumption == \A n \in 1..40 : PeaksCover([k \in 1..n |-> k])

=============================================================================
