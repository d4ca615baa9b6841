----------------------------- MODULE MCModel ---------------------------------
(* The three places a language model has in the program: the chat, its     *)
(* budget spent on two questions and no pull, or on one question and two   *)
(* pulls; the indexes a question is answered from, of a project with a     *)
(* quote and one not entered yet, an item with a service log, and a        *)
(* document; and the batch of rows it proposes from a document.            *)
EXTENDS ChatStream, SearchIndex, Staging

VARIABLES part, budget

\* The batches the prompt's document hints lead to, and a few broken ones
Batch(t, k)  == [to |-> "batch", table |-> t, n |-> k]
Draft(action, t, name, refs) ==
    [action |-> action, table |-> t, name |-> name, refs |-> refs, vendorName |-> "",
     typed |-> TRUE, id |-> 1]
Create(t, name, refs) == Draft("create", t, name, refs)

Vendor(name)  == Create("vendors", name, <<>>)
Project       == Create("projects", "p", <<>>)
Quote(p, v)   == Create("quotes", "", [projects |-> p, vendors |-> v])
Appliance     == Create("appliances", "a", <<>>)
Item(name, a) == Create("maintenance_items", name, [appliances |-> a])
Log(i, v)     == Create("service_log_entries", "", [maintenance_items |-> i, vendors |-> v])
Incident(a, v) == Create("incidents", "i", [appliances |-> a, vendors |-> v])
Link(action, e) == Draft(action, "documents", "", [entity |-> e])

MCDrafts ==
    {<<Vendor("a"), Project, Quote(Batch("projects", 2), Batch("vendors", 1)),
       Link("update", Batch("projects", 2))>>,
     <<Quote(Batch("projects", 3), Batch("vendors", 2)), Vendor("b"), Project>>,
     <<[Quote(Row("projects", 1), NoRef) EXCEPT !.vendorName = "b"]>>,
     <<Vendor("b"), Vendor("a"), Incident(NoRef, Batch("vendors", 2))>>,
     <<Appliance, Item("m", Batch("appliances", 1)), Item("n", Batch("appliances", 1))>>,
     <<Appliance, Draft("update", "maintenance_items", "", [appliances |-> Batch("appliances", 1)])>>,
     <<Item("m", NoRef), [Log(Batch("maintenance_items", 1), NoRef) EXCEPT !.vendorName = "a"]>>,
     <<Vendor("b"), [Project EXCEPT !.typed = FALSE]>>,
     <<Vendor("b"), Quote(NoRef, Batch("vendors", 1))>>,
     <<Link("create", Batch("vendors", 2)), Vendor("b")>>,
     <<Draft("update", "vendors", "b", <<>>), Vendor("b")>>,
     <<Draft("update", "projects", "b", <<>>)>>}

CONSTANTS p1, q1, q2, m1, s1, d1
MCRows    == {p1, q1, q2, m1, s1, d1}
MCEntityTables == <<"project", "maintenance", "servicelog", "quote">>
MCParentTables == <<"project", "maintenance">>
MCKindOf  == [r \in MCRows |-> CASE r = p1 -> "project" [] r = m1 -> "maintenance"
                                 [] r = s1 -> "servicelog" [] r = d1 -> "document" [] OTHER -> "quote"]
MCParents == [r \in MCRows |-> CASE r \in {q1, q2} -> {p1} [] r = s1 -> {m1} [] OTHER -> {}]
MCUnborn  == {q2}
MCScore   == [r \in MCRows |-> CASE r = q1 -> 1 [] r = q2 -> 2 [] r = m1 -> 3 [] r = p1 -> 4
                                 [] r = s1 -> 5 [] OTHER -> 6]
MCQuestions == {MCRows, {q1, q2, m1}}

MCInit ==
    /\ Init /\ SearchInit /\ StagingInit
    /\ part \in {"chat", "index", "batch"}
    /\ part # "batch" => \A t \in Plain : tables[t] = <<>>
    /\ budget \in {<<MaxAsks, 0>>, <<MaxAsks - 1, MaxPulls>>}
    /\ part # "chat" => budget[2] = 0

ChatNext == Next /\ asked' <= budget[1] /\ Len(pulls') <= budget[2]

MCNext ==
    /\ UNCHANGED <<part, budget>>
    /\ \/ part = "chat" /\ ChatNext /\ UNCHANGED <<searchVars, stagingVars>>
       \/ part = "index" /\ SearchNext /\ UNCHANGED <<vars, stagingVars>>
       \/ part = "batch" /\ StagingNext /\ UNCHANGED <<vars, searchVars>>

MCVars == <<vars, searchVars, stagingVars, part, budget>>
MCAnswers == part = "chat" /\ Answers /\ UNCHANGED <<searchVars, stagingVars, part, budget>>
MCSpec == MCInit /\ [][MCNext]_MCVars /\ WF_MCVars(MCAnswers)
=============================================================================
