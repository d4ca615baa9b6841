---------------------------- MODULE MCHousehold ----------------------------
(* Household with what TLC needs; the constants are in the .cfg files. *)
EXTENDS Household, TLC

\* Machines other than the founder's are alike.
Newcomers == Permutations(Machines \ {Founder})
=============================================================================
