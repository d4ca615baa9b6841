---------------------------- MODULE MCSyncEngine ----------------------------
(* SyncEngine on small instances. *)
EXTENDS SyncEngine, TLC

CONSTANTS r1, r2

OneName == [r \in Rows |-> "n"]
RowSymmetry == Permutations({r1, r2})
OwnName == [r \in Rows |-> r]
=============================================================================
