------------------------------- MODULE Staging ------------------------------
(***************************************************************************)
(* What a language model proposes from a document, between its answer and  *)
(* the database (internal/extract/shadow.go, fkgraph.go, operations.go,    *)
(* sqlcontext.go). The model is shown the rows that exist and told how the *)
(* rows of its own batch will be numbered; the batch is staged in a shadow *)
(* database under ordinals, and an accepted one is committed table by      *)
(* table with every ordinal replaced by the ID the real row has got.       *)
(*                                                                         *)
(* A row is a name, whether it is alive and what its foreign keys refer    *)
(* to; its ID is its place in the table, as no row is removed. The other   *)
(* columns are in Records, the overlay and its commands in Extraction.     *)
(***************************************************************************)
EXTENDS Integers, Sequences, SequencesExt, FiniteSets

CONSTANTS
    Drafts,        \* what the model may want to record: sequences of drafts
    MaxBatches,       \* BOUND: batches asked for
    MaxChanges     \* BOUND: rows the user adds or deletes meanwhile

ASSUME StagingAssumption == MaxBatches \in Nat /\ MaxChanges \in Nat

VARIABLES
    tables,         \* the tables
    step,          \* of the batch
    pending,       \* the document is not saved yet: pendingDoc
    seen,          \* rows of each table in the prompt
    batch,         \* HISTORY: the drafts, by what they mean
    operations,    \* the same as the model writes them
    base,          \* nextOrdinal, as seeded
    made,          \* HISTORY: the row of each operation committed
    asks, changes

stagingVars == <<tables, step, pending, seen, batch, operations, base, made, asks, changes>>

-----------------------------------------------------------------------------
(* Tables and the keys between those a batch may create rows of.           *)

References ==
    [vendors |-> {}, appliances |-> {}, projects |-> {},
     quotes |-> {"projects", "vendors"},
     maintenance_items |-> {"appliances"},
     incidents |-> {"appliances", "vendors"},
     service_log_entries |-> {"maintenance_items", "vendors"}]

Entities == DOMAIN References          \* entityKindToTable: what a document is linked to
Tables   == Entities \cup {"documents"}

Depends(t) == IF t = "documents" THEN Entities ELSE References[t]

Updatable == {"vendors", "appliances", "quotes", "maintenance_items", "documents"}

\* MUTANT: tables are committed in any order.
AnyOrder(S) == SetToSeqs(S)

\* Every order toposort may arrive at: it starts from a map's keys.
CommitOrders(S) ==
    {o \in SetToSeqs(S) : \A i, j \in DOMAIN o : o[i] \in Depends(o[j]) => i < j}

\* A reference is nothing, a row, or an operation of the batch. A column is
\* named by the table it refers to, and "entity" for a document's.
NoRef == [to |-> "nothing", table |-> "", n |-> 0]
Row(t, id) == [to |-> "row", table |-> t, n |-> id]

Creates(ops, t) == {k \in DOMAIN ops : ops[k].action = "create" /\ ops[k].table = t}

\* The place of operation k among those that create rows of its table
Place(ops, k) == Cardinality({j \in Creates(ops, ops[k].table) : j <= k})

-----------------------------------------------------------------------------
(* The prompt and the answer.                                              *)

Alive(s, t) == {i \in DOMAIN s[t] : s[t][i].alive}

\* EntityRows: the active rows of the tables listed in the prompt
InPrompt(s) ==
    [t \in Tables |->
        IF t \in {"vendors", "projects", "appliances", "maintenance_items"}
        THEN Cardinality(Alive(s, t)) ELSE 0]

\* "IDs are assigned sequentially starting at max(existing IDs) + 1": an
\* operation is referred to by where it will come after the rows shown.
Written(b, shown) ==
    [k \in DOMAIN b |->
        [b[k] EXCEPT !.refs = [c \in DOMAIN @ |->
            IF @[c].to # "batch" THEN @[c]
            ELSE [to |-> "ordinal", table |-> @[c].table,
                  n |-> shown[@[c].table] + Place(b, @[c].n)]]]]

\* The rows a batch names are rows it was shown.
MayBeDrafted(b) ==
    \A k \in DOMAIN b :
        /\ b[k].action = "update" => b[k].id \in Alive(tables, b[k].table)
        /\ \A c \in DOMAIN b[k].refs :
            b[k].refs[c].to = "row" => b[k].refs[c].n \in Alive(tables, b[k].refs[c].table)

AskModel ==
    /\ step \in {"idle", "over"} /\ asks < MaxBatches
    /\ \E b \in Drafts, new \in BOOLEAN :
        /\ MayBeDrafted(b)
        /\ batch' = b /\ operations' = Written(b, InPrompt(tables)) /\ pending' = new
    /\ seen' = InPrompt(tables)
    /\ step' = "asked" /\ asks' = asks + 1 /\ made' = <<>>
    /\ UNCHANGED <<tables, base, changes>>

-----------------------------------------------------------------------------
(* Staging.                                                                *)

\* ValidateOperations
Valid(op) == op.action = "create" \/ (op.action = "update" /\ op.table \in Updatable)

\* RowCounts: deleted rows are counted, whatever its comment says.
RowCount(s, t) == Len(s[t])

\* NewShadowDB and Stage; an invalid batch is shown as failed.
Stage ==
    /\ step = "asked"
    /\ IF \A k \in DOMAIN operations : Valid(operations[k])
       THEN /\ base' = [t \in Tables |-> RowCount(tables, t) + 1]
            /\ step' = "staged"
       ELSE step' = "over" /\ UNCHANGED base
    /\ UNCHANGED <<tables, pending, seen, batch, operations, made, asks, changes>>

\* stageCreate
ShadowID(k) == base[operations[k].table] + Place(operations, k) - 1

-----------------------------------------------------------------------------
(* Committing. `acc` is what the transaction has come to: whether it still *)
(* succeeds, its tables, and idMap by operation.                           *)

\* remapFK, remapDocumentEntity: what no operation stands for is left alone
Remapped(acc, ref) ==
    LET meant == {j \in Creates(operations, ref.table) \cap DOMAIN acc.ids : ShadowID(j) = ref.n}
    IN  IF ref.to # "ordinal" \/ meant = {} THEN ref
        ELSE Row(ref.table, acc.ids[CHOOSE j \in meant : TRUE])

\* FOREIGN KEY constraints: rows that exist, deleted or not
Exists(s, ref) == ref.to = "nothing" \/ (ref.to = "row" /\ ref.n \in DOMAIN s[ref.table])

GivenUp(acc) == [acc EXCEPT !.ok = FALSE]

InsertRow(acc, k, row) ==
    LET t == operations[k].table
    IN  [acc EXCEPT !.tables[t] = Append(@, row),
                    !.ids = [j \in DOMAIN @ \cup {k} |->
                                IF j = k THEN Len(acc.tables[t]) + 1 ELSE @[j]]]

\* findOrCreate: a deleted row of that name comes back, as it was
Named(s, t, name) == {i \in DOMAIN s[t] : s[t][i].name = name}

FindOrCreate(acc, k, row) ==
    LET t     == operations[k].table
        found == Named(acc.tables, t, row.name)
        i     == CHOOSE j \in found : TRUE
    IN  IF found = {} THEN InsertRow(acc, k, row)
        ELSE [acc EXCEPT !.tables[t][i].alive = TRUE,
                         !.ids = [j \in DOMAIN @ \cup {k} |-> IF j = k THEN i ELSE @[j]]]

\* The vendor of a quote or a log: by ID if alive, else by vendor_name
FindVendor(acc, ref, name) ==
    LET s     == acc.tables
        found == Named(s, "vendors", name)
        i     == CHOOSE j \in found : TRUE
    IN  IF ref.to = "row" /\ ref.n \in Alive(s, "vendors") THEN [acc |-> acc, ref |-> ref]
        ELSE IF name = "" THEN [acc |-> acc, ref |-> NoRef]
        ELSE IF found # {}
             THEN [acc |-> [acc EXCEPT !.tables.vendors[i].alive = TRUE], ref |-> Row("vendors", i)]
        ELSE [acc |-> [acc EXCEPT !.tables.vendors =
                            Append(@, [name |-> name, alive |-> TRUE, refs |-> <<>>])],
              ref |-> Row("vendors", Len(s.vendors) + 1)]

\* commitRow
CommitRow(acc, k) ==
    LET op   == operations[k]
        refs == [c \in DOMAIN op.refs |-> Remapped(acc, op.refs[c])]
        byName == \/ op.table \in {"quotes", "service_log_entries"}
                  \/ op.table = "incidents" /\ refs.vendors.to = "nothing"
        found == IF byName THEN FindVendor(acc, refs.vendors, op.vendorName)
                           ELSE [acc |-> acc, ref |-> NoRef]
        full  == IF byName THEN [refs EXCEPT !.vendors = found.ref] ELSE refs
        row   == [name |-> op.name, alive |-> TRUE, refs |-> full]
    IN  IF \/ ~acc.ok
           \/ op.name = "" /\ op.table \notin {"quotes", "service_log_entries", "documents"}
           \/ ~op.typed     \* project_type_id, category_id
           \/ op.table = "quotes" /\ "nothing" \in {refs.projects.to, full.vendors.to}
           \/ op.table # "documents" /\ \E c \in DOMAIN full : ~Exists(found.acc.tables, full[c])
        THEN GivenUp(acc)
        ELSE IF op.table \in {"vendors", "appliances", "maintenance_items"}
             THEN FindOrCreate(found.acc, k, row) ELSE InsertRow(found.acc, k, row)

\* commitUpdate: what it refers to is not remapped
CommitUpdate(acc, k) ==
    LET op    == operations[k]
        t     == op.table
        old   == acc.tables[t][op.id]
        found == IF t = "quotes" THEN FindVendor(acc, op.refs.vendors, op.vendorName)
                                 ELSE [acc |-> acc, ref |-> NoRef]
        kept(c) == IF t = "quotes" /\ c = "vendors"
                   THEN (IF found.ref = NoRef THEN old.refs[c] ELSE found.ref)
                   ELSE IF op.refs[c] = NoRef THEN old.refs[c] ELSE op.refs[c]
        row   == [name  |-> IF op.name = "" THEN old.name ELSE op.name,
                  alive |-> TRUE,
                  refs  |-> [c \in DOMAIN op.refs |-> kept(c)]]
    IN  IF \/ ~acc.ok
           \/ op.id \notin Alive(acc.tables, t)
           \/ t # "documents" /\ \E c \in DOMAIN row.refs : ~Exists(found.acc.tables, row.refs[c])
           \/ t = "vendors" /\ Named(acc.tables, t, row.name) \ {op.id} # {}
        THEN GivenUp(acc)
        ELSE [found.acc EXCEPT !.tables[t][op.id] = row]

\* commitInner: the creations of every table, then the updates
InOrder(order) ==
    FoldLeft(LAMBDA ks, t : ks \o SetToSortSeq(Creates(operations, t), <), <<>>, order)

Committed(s, updates, order) ==
    LET start   == [ok |-> TRUE, tables |-> s, ids |-> <<>>]
        created == FoldLeft(CommitRow, start, InOrder(order))
    IN  FoldLeft(CommitUpdate, created, SetToSortSeq(updates, <))

\* Store.Transaction
RolledBack(s, acc) == IF acc.ok THEN acc.tables ELSE s

-----------------------------------------------------------------------------
(* Accepting.                                                              *)

OfDocuments == {k \in DOMAIN operations : operations[k].table = "documents"}
Updates     == {k \in DOMAIN operations : operations[k].action = "update"}

\* acceptDeferredExtraction: the document takes over what is proposed for it
DocumentRow ==
    LET links == {k \in OfDocuments : operations[k].refs.entity # NoRef}
    IN  [name |-> "", alive |-> TRUE,
         refs |-> [entity |-> IF links = {} THEN NoRef
                              ELSE operations[CHOOSE k \in links : \A j \in links : j <= k].refs.entity]]

\* The document is saved before the batch is committed; a batch about
\* nothing else is not committed at all.
WithDocument == IF pending THEN [tables EXCEPT !.documents = Append(@, DocumentRow)] ELSE tables

AcceptBatch ==
    /\ step = "staged"
    /\ LET rest == DOMAIN operations \ (IF pending THEN OfDocuments ELSE {})
           used == {operations[k].table : k \in DOMAIN operations}
       IN  IF rest = {} THEN tables' = WithDocument /\ made' = <<>> /\ step' = "over"
           ELSE \E order \in CommitOrders(used) :
                LET acc == Committed(WithDocument, Updates \cap rest, order)
                IN  /\ tables' = RolledBack(WithDocument, acc)
                    /\ made' = IF acc.ok THEN acc.ids ELSE <<>>
                    /\ step' = IF acc.ok THEN "over" ELSE "refused"
    /\ UNCHANGED <<pending, seen, batch, operations, base, asks, changes>>

\* cancelExtraction, also of a batch that was refused
Discard ==
    /\ step \in {"staged", "refused"} /\ step' = "over"
    /\ UNCHANGED <<tables, pending, seen, batch, operations, base, made, asks, changes>>

-----------------------------------------------------------------------------
(* Meanwhile the user goes on, and other devices do.                       *)

Meanwhile ==
    /\ step \in {"asked", "staged"}
    /\ changes < MaxChanges /\ changes' = changes + 1
    /\ UNCHANGED <<step, pending, seen, batch, operations, base, made, asks>>

AddRow(t) ==
    /\ Meanwhile
    /\ tables' = [tables EXCEPT ![t] = Append(@, [name |-> "other", alive |-> TRUE, refs |-> <<>>])]
    /\ Named(tables, t, "other") = {}

DeleteRow(t) ==
    /\ Meanwhile
    /\ \E i \in Alive(tables, t) : tables' = [tables EXCEPT ![t][i].alive = FALSE]

Plain == {"vendors", "projects", "appliances"}

StagingInit ==
    /\ \E some \in SUBSET Plain, dead \in SUBSET Plain :
        tables = [t \in Tables |->
                    IF t = "documents"
                    THEN <<[name |-> "", alive |-> TRUE, refs |-> [entity |-> NoRef]]>>
                    ELSE IF t = "maintenance_items"
                    THEN <<[name |-> "k", alive |-> TRUE, refs |-> [appliances |-> NoRef]]>>
                    ELSE IF t \in some
                    THEN <<[name |-> "a", alive |-> t \notin dead, refs |-> <<>>]>> ELSE <<>>]
    /\ step = "idle" /\ pending = FALSE
    /\ seen = [t \in Tables |-> 0] /\ base = [t \in Tables |-> 1]
    /\ batch = <<>> /\ operations = <<>> /\ made = <<>>
    /\ asks = 0 /\ changes = 0

StagingNext ==
    \/ AskModel \/ Stage \/ AcceptBatch \/ Discard
    \/ \E t \in Plain : AddRow(t) \/ DeleteRow(t)

-----------------------------------------------------------------------------
(* Properties.                                                             *)

Committing == step = "staged" /\ step' = "over" /\ made' # <<>>

\* A row created, not found
NewlyMade(k) == made'[k] > Len(WithDocument[operations[k].table])

\* The model counted what staging counted.
Agreed(t) == seen[t] + 1 = base[t]

\* Where the model and the program count alike, every row a batch creates
\* refers to the rows that were meant, whatever the order of the operations,
\* of the tables, and which of them were found by name (fkgraph.go toposort,
\* shadow.go commitInner, remapFK, remapDocumentEntity). Rows it updates are
\* another matter: see Unmapped.
RefersAsMeant ==
    [][Committing =>
        \A k \in DOMAIN made' : NewlyMade(k) =>
            \A c \in DOMAIN batch[k].refs :
                LET ref == batch[k].refs[c]
                IN  ref.to = "batch" /\ Agreed(ref.table) =>
                        tables'[batch[k].table][made'[k]].refs[c] = Row(ref.table, made'[ref.n])]_stagingVars

\* Operations that reach commitShadowOperations
Dispatched == IF pending THEN DOMAIN operations \ OfDocuments ELSE DOMAIN operations

\* The rows of t an accepted batch adds or changes
Touched(t) == {i \in DOMAIN tables'[t] : i \notin DOMAIN tables[t] \/ tables'[t][i] # tables[t][i]}

\* commitUpdate and the document that was pending do not go through idMap
\* (shadow.go:261-268, extraction.go:876-887). An update that names a row of
\* its own batch therefore fails its foreign key, and the whole batch with
\* it, unless it is a quote's vendor, which is then looked up by name. What is
\* written with an ordinal for an ID is the link of a document, which has no
\* foreign key: of one that is updated, of the one that was pending, and of
\* one created where the model did not count as staging did; no other row.
Unmapped ==
    [][step = "staged" /\ step' \in {"over", "refused"} =>
        /\ Committing => \A k \in Updates \cap Dispatched : \A c \in DOMAIN batch[k].refs :
            batch[k].refs[c].to = "batch" =>
                \/ batch[k].table = "documents"
                    /\ tables'.documents[batch[k].id].refs[c].to = "ordinal"
                \/ batch[k].table = "quotes" /\ c = "vendors"
        /\ \A t \in Tables : \A i \in Touched(t) : \A c \in DOMAIN tables'[t][i].refs :
            tables'[t][i].refs[c].to = "ordinal" =>
                \E k \in OfDocuments :
                    /\ t = "documents" /\ operations[k].refs[c] = tables'[t][i].refs[c]
                    /\ \/ pending /\ i = Len(WithDocument.documents)
                       \/ k \in Updates /\ i = operations[k].id
                       \/ ~Agreed(operations[k].refs[c].table)]_stagingVars

\* A batch is committed whole, a row of its own for each row it creates and
\* one operation for each, or leaves the tables as they were but for the
\* document that was saved first (shadow.go Commit, extraction.go
\* acceptDeferredExtraction). That document stands for the batch's own
\* operations on documents; if anything else is in the batch, commitInner
\* writes the documents it creates over again, since it goes by what was
\* staged and not by the operations it is handed (shadow.go:225-257), so that
\* one document proposed for a new file ends as two rows.
Whole ==
    [][step = "staged" /\ step' \in {"over", "refused"} =>
        \/ tables' = tables
        \/ tables' = WithDocument
        \/ /\ DOMAIN made' = {k \in DOMAIN operations : operations[k].action = "create"}
           /\ \A j, k \in DOMAIN made' :
                NewlyMade(k) /\ operations[j].table = operations[k].table /\ made'[j] = made'[k] =>
                    j = k \/ operations[j].name = operations[k].name
           /\ Len(tables'.documents) = Len(tables.documents) + Cardinality(Creates(operations, "documents"))
                                        + (IF pending THEN 1 ELSE 0)]_stagingVars

\* All three: what an accepted batch makes of the tables.
BatchAsMeant == RefersAsMeant /\ Unmapped /\ Whole
=============================================================================
