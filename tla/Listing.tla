------------------------------ MODULE Listing ------------------------------
(***************************************************************************)
(* What the lists on the screen have in common: each is made of another    *)
(* list by leaving entries out.                                            *)
(***************************************************************************)
EXTENDS Naturals, Sequences

\* The entries of s that are in S, in the order of s: SelectSeq, as a function
\* that can be reasoned about
Only(s, S) ==
    LET kept[n \in 0..Len(s)] ==
            IF n = 0 THEN <<>>
            ELSE IF s[n] \in S THEN Append(kept[n - 1], s[n]) ELSE kept[n - 1]
    IN  kept[Len(s)]
=============================================================================
