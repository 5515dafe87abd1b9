---------------------------- MODULE LayeredView ----------------------------
(***************************************************************************)
(* What the stack of CCoinsView objects promises (src/src/coins.h): a map  *)
(* with three versions.                                                    *)
(*                                                                         *)
(*   durable    what the chain state database holds                        *)
(*   committed  what pcoinsTip shows                                       *)
(*   working    what a view opened on top of pcoinsTip shows               *)
(*                                                                         *)
(* Writes go to the working version.  Flushing the view commits all of     *)
(* them or, if the view is dropped, none; flushing pcoinsTip makes the     *)
(* committed version durable; a crash falls back to the durable one.       *)
(* Caching, dirty and fresh flags and the order in which entries were      *)
(* looked up must not show.                                                *)
(***************************************************************************)
CONSTANTS Keys,     \* what can be looked up
          Updates   \* the partial functions from Keys that one call may write

VARIABLES durable, committed, working, open

vars == <<durable, committed, working, open>>

Start == ~ open /\ open' = TRUE /\ UNCHANGED <<durable, committed, working>>

Write(u) ==
    /\ open
    /\ working' = [k \in Keys |-> IF k \in DOMAIN u THEN u[k] ELSE working[k]]
    /\ UNCHANGED <<durable, committed, open>>

Commit ==
    /\ open
    /\ committed' = working
    /\ open' = FALSE
    /\ UNCHANGED <<durable, working>>

Discard ==
    /\ open
    /\ working' = committed
    /\ open' = FALSE
    /\ UNCHANGED <<durable, committed>>

Persist ==
    /\ ~ open
    /\ durable' = committed
    /\ UNCHANGED <<committed, working, open>>

Crash ==
    /\ committed' = durable
    /\ working' = durable
    /\ open' = FALSE
    /\ UNCHANGED durable

Init == ~ open /\ working = durable /\ committed = durable

Next ==
    \/ Start \/ Commit \/ Discard \/ Persist \/ Crash
    \/ \E u \in Updates : Write(u)

Spec == Init /\ [][Next]_vars

=============================================================================
