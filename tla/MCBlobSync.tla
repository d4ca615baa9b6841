----------------------------- MODULE MCBlobSync -----------------------------
(* Two devices and two documents; only one of the two files fits. Either a *)
(* request fails or an event of Stripe's arrives, not both.                 *)
EXTENDS BlobSync, TLC

CONSTANTS f1, f2

MCSize == f1 :> 2 @@ f2 :> 3

MCNext == Next /\ events' + faults' <= 1
MCSpec == Init /\ [][MCNext]_vars /\ \A d \in Devices : WF_vars(CycleStep(d))
=============================================================================
