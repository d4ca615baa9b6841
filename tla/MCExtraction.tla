---------------------------- MODULE MCExtraction ----------------------------
(* Extraction, its bounds spent in one of three ways: on one extraction in *)
(* detail; on a saved document that waits for its model and is deleted; on *)
(* two new documents, the text of one known, one in the background at times.*)
(* The pages of an OCR are read by themselves: extractions see its answer. *)
EXTENDS Extraction, PageOcr

VARIABLE slice

MCPlans == {{"ocr", "llm"}, {"llm"}}

MCInit == Init /\ PagesInit /\ slice \in {"detail", "queue", "two", "pages"}

SliceNext ==
    /\ Next
    /\ slice # "two" => Len(exs') <= 1
    /\ slice = "queue" => running' = {} /\ \A e \in DOMAIN exs' : exs'[e].doc \in Saved
    /\ slice # "queue" => <<ready, queued, alive>>' = <<ready, queued, alive>>
    /\ slice = "two" => \A e \in DOMAIN exs' : exs'[e].doc = New /\ exs'[e].ops \in {"none", "both"}
    /\ slice = "two" /\ Len(exs) = 1 /\ Len(exs') = 2 => running' = running
    /\ UNCHANGED <<slice, pagesVars>>

MCNext ==
    \/ slice # "pages" /\ SliceNext
    \/ slice = "pages" /\ PagesNext /\ UNCHANGED <<slice, vars>>

MCSpec == MCInit /\ [][MCNext]_<<vars, pagesVars, slice>> /\ Fairness /\ PagesFairness
=============================================================================
