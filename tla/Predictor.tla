----------------------------- MODULE Predictor -----------------------------
(***************************************************************************)
(* What Model::predict promises, whatever model is loaded: calls come one  *)
(* after the other, and each fails or returns actions computed from its    *)
(* own observation and from no other one (src/models/model.h).             *)
(***************************************************************************)
EXTENDS Naturals

CONSTANT MaxRequests    \* bound: calls of one behaviour

VARIABLES
    id,     \* number of the current or last call
    busy,   \* whether it has not returned
    answer  \* what the last call that returned gave: from whose data

vars == <<id, busy, answer>>

Failed == [ok |-> FALSE, from |-> {}]

Init ==
    /\ id = 0
    /\ busy = FALSE
    /\ answer = Failed

Call ==
    /\ ~busy
    /\ id < MaxRequests
    /\ id' = id + 1
    /\ busy' = TRUE
    /\ UNCHANGED answer

Return ==
    /\ busy
    /\ busy' = FALSE
    /\ answer' \in {Failed, [ok |-> TRUE, from |-> {id}]}
    /\ UNCHANGED id

Next == Call \/ Return

Spec == Init /\ [][Next]_vars
=============================================================================
