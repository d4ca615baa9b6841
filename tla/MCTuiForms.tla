----------------------------- MODULE MCTuiForms -----------------------------
(* TuiForms, its bounds spent on the rows or on the house.                 *)
EXTENDS TuiForms

VARIABLE slice

MCInit == Init /\ slice \in {"rows", "house"} /\ (slice = "rows" => house = First)
MCNext ==
    /\ Next
    /\ slice = "rows"  => db'["house"] = First /\ Target(form'.of) = "row"
    /\ slice = "house" => db'["row"] = First /\ ~detail' /\ form'.of \in {"none", "house", "field"}
    /\ UNCHANGED slice
MCSpec ==
    /\ MCInit /\ [][MCNext]_<<vars, slice>>
    /\ WF_<<vars, slice>>(Tick /\ UNCHANGED slice) /\ WF_<<vars, slice>>(CycleStep /\ MCNext)
=============================================================================
