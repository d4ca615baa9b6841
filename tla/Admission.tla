----------------------------- MODULE Admission -----------------------------
(***************************************************************************)
(* What joining promises a household, without saying how: a newcomer asks, *)
(* a device that is inside accepts, the newcomer claims its credentials    *)
(* once, and only then is it inside.  No attempt goes back a step, and only *)
(* accepted attempts are barred.  Household implements it.                 *)
(***************************************************************************)
CONSTANTS
    Ids,    \* device IDs, one for each attempt to join
    First   \* the device that founded the household

VARIABLES
    stage,  \* stage[d]: how far the attempt d has come
    inside, \* devices set up to sync
    barred  \* devices whose token is refused

Init ==
    /\ stage = [d \in Ids |-> IF d = First THEN "claimed" ELSE "new"]
    /\ inside = {First}
    /\ barred = {}

Advance(d, from, to) ==
    /\ stage[d] = from
    /\ stage' = [stage EXCEPT ![d] = to]
    /\ UNCHANGED <<inside, barred>>

Ask(d)    == Advance(d, "new", "asked")
Accept(d) == Advance(d, "asked", "accepted")
Claim(d)  == Advance(d, "accepted", "claimed")

Enter(d) ==
    /\ stage[d] = "claimed"
    /\ inside' = inside \cup {d}
    /\ UNCHANGED <<stage, barred>>

Bar(d) ==
    /\ stage[d] \in {"accepted", "claimed"}
    /\ barred' = barred \cup {d}
    /\ UNCHANGED <<stage, inside>>

Next == \E d \in Ids : Ask(d) \/ Accept(d) \/ Claim(d) \/ Enter(d) \/ Bar(d)

Spec == Init /\ [][Next]_<<stage, inside, barred>>
=============================================================================
