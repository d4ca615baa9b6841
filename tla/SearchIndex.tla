----------------------------- MODULE SearchIndex -----------------------------
(***************************************************************************)
(* The full-text indexes of the local store (internal/data/fts.go):        *)
(* documents_fts, whose content is the documents table, and entities_fts,  *)
(* which holds a copy of the texts of the other tables. Triggers follow    *)
(* every write; every process that opens the database builds the indexes   *)
(* and the triggers again, statement by statement, while the processes     *)
(* that opened it before go on writing.                                    *)
(***************************************************************************)
EXTENDS Naturals, SequencesExt, Bags

CONSTANTS
    EntityTables,  \* the tables but "document", in the order their triggers are built
    Parents,       \* those of them whose names others' rows are indexed with
    Rows,
    KindOf,        \* the table of a row
    ParentsOf,     \* the rows whose names a row is indexed with: a document with none
    Unborn,        \* rows that do not exist at first
    Texts,
    Questions,     \* a question is the set of rows with a text or a name it matches
    Score,         \* how well a row matches, the less the better; no two alike
    PerKind, Total,         \* ftsEntityKPerType (5) and ftsEntityTotalCap (20)
    MaxWrites, MaxOpens     \* BOUNDS: writes, and times a process opens the database

Kinds == {"document"} \cup ToSet(EntityTables)

ASSUME SearchAssumption ==
    /\ EntityTables \in Seq(STRING) /\ IsInjective(EntityTables)
    /\ "document" \notin ToSet(EntityTables)
    /\ Parents \in Seq(ToSet(EntityTables)) /\ IsInjective(Parents)
    /\ IsFiniteSet(Rows) /\ KindOf \in [Rows -> Kinds] /\ ParentsOf \in [Rows -> SUBSET Rows]
    /\ \A r \in Rows : KindOf[r] = "document" => ParentsOf[r] = {}
    /\ \A r \in Rows : \A p \in ParentsOf[r] : KindOf[p] \in ToSet(Parents)
    /\ Unborn \subseteq Rows /\ Questions \subseteq SUBSET Rows /\ Texts # {}
    /\ Score \in [Rows -> Nat] /\ IsInjective(Score)
    /\ PerKind \in Nat \ {0} /\ Total \in Nat

VARIABLES
    rows,       \* [Rows -> [status, text]]
    entities,   \* entities_fts: a bag, for nothing in it is unique
    postings,   \* documents_fts: [documents -> the texts it would be found by]
    schema,     \* whether entities_fts exists, and the kinds that have their
                \* triggers, and those with triggers on their children's entries
    opener,     \* how many statements of its set-up the process that opened last has run
    answer,     \* what the last question found
    raced,      \* HISTORY: an opening overlapped with a write, or was cut short
    revised,    \* HISTORY: documents changed while deleted
    writes, opens

indexes == <<entities, postings, schema>>
searchVars    == <<rows, indexes, opener, answer, raced, revised, writes, opens>>

NoAnswer == [hits |-> {}, found |-> {}]

Documents == {r \in Rows : KindOf[r] = "document"}
Indexed   == Rows \ Documents
Live(rs)  == {r \in Rows : rs[r].status = "live"}
Children(r) == {c \in Rows : r \in ParentsOf[c]}

-----------------------------------------------------------------------------
(* The entries of entities_fts.                                            *)

\* ownRowSpecs: a name is made of the names of parents that are not deleted
Entry(r, rs) ==
    [id |-> r, text |-> rs[r].text,
     names |-> [p \in ParentsOf[r] |-> IF p \in Live(rs) THEN rs[p].text ELSE 0]]

EntriesOf(S, rs) == SetToBag({Entry(r, rs) : r \in S \cap Indexed \cap Live(rs)})
Without(bag, S) == [e \in {x \in DOMAIN bag : x.id \notin S} |-> bag[e]]

\* MUTANT: an update leaves the children's entries as they are.
OwnOnly(S) == S

\* parentCascadeQuoteSQL, maintenanceCascadeServiceLogSQL: what the update triggers of these rows rewrite
Rewritten(S) ==
    {r \in S : KindOf[r] \in schema.triggers}
        \cup UNION {Children(r) : r \in {x \in S : KindOf[x] \in schema.cascades}}

\* Triggers of statements that make `rs` of the rows, and touch `S`
EntitiesAfter(S, rs) == Without(entities, Rewritten(S)) (+) EntriesOf(Rewritten(S), rs)

\* MUTANT: what was indexed stays.
OnlyAdds(S, rs) ==
    [d \in Documents |->
        IF d \notin S \cap Live(rs) \/ "document" \notin schema.triggers THEN postings[d]
        ELSE postings[d] \cup {rs[d].text}]

\* documents_fts_ai, _au: what was indexed is removed if the row was not
\* deleted, what is indexed is added if the row is not
PostingsAfter(S, rs) ==
    [d \in Documents |->
        IF d \notin S \/ "document" \notin schema.triggers THEN postings[d]
        ELSE (postings[d] \ IF d \in Live(rows) THEN {rows[d].text} ELSE {})
             \cup IF d \in Live(rs) THEN {rs[d].text} ELSE {}]

-----------------------------------------------------------------------------
(* The statements of a set-up (setupFTS, setupEntitiesFTS), one after the  *)
(* other.                                                                  *)

Stmt(name, kind) == [name |-> name, kind |-> kind]

PerTable(name) == [k \in 1..Len(EntityTables) |-> Stmt(name, EntityTables[k])]

\* Two statements for each of the tables
Pairs(drop, create, tables) ==
    [n \in 1..(2 * Len(tables)) |->
        Stmt(IF n % 2 = 1 THEN drop ELSE create, tables[(n + 1) \div 2])]

EmptyTable == <<Stmt("drop table", "none"), Stmt("create table", "none")>>

SetUp ==
    << Stmt("drop triggers", "document"), Stmt("create triggers", "document"), Stmt("rebuild", "document") >>
    \o EmptyTable
    \o PerTable("populate")
    \o Pairs("drop triggers", "create triggers", EntityTables)
    \o Pairs("drop cascade", "create cascade", Parents)

\* No process is opening the database.
Idle == Len(SetUp)

-----------------------------------------------------------------------------
(* Writes of the processes that opened the database before.                *)

\* A trigger that misses its table fails the statement it belongs to.
Accepted(S) == S \cap Indexed = {} \/ schema.table \/ Rewritten(S) = {}

\* One statement, or a transaction of some
Write(S, rs) ==
    /\ writes < MaxWrites /\ writes' = writes + 1
    /\ Accepted(S)
    /\ rows' = rs
    /\ entities' = EntitiesAfter(S, rs)
    /\ postings' = PostingsAfter(S, rs)
    /\ raced' = (raced \/ opener # Idle)
    /\ revised' = revised \cup {d \in S \cap Documents :
                       rows[d].status = "deleted" /\ rs[d].text # rows[d].text}
    /\ answer' = NoAnswer
    /\ UNCHANGED <<schema, opener, opens>>

Insert(r) ==
    /\ rows[r].status = "absent"
    /\ \A p \in ParentsOf[r] : rows[p].status # "absent"
    /\ \E t \in Texts : Write({r}, [rows EXCEPT ![r] = [status |-> "live", text |-> t]])

\* Here, or by a pull, which updates a deleted row too
Update(r) ==
    /\ rows[r].status \in {"live", "deleted"}
    /\ \E t \in Texts \ {rows[r].text} : Write({r}, [rows EXCEPT ![r].text = t])

SoftDelete(r) ==
    /\ rows[r].status = "live"
    /\ Write({r}, [rows EXCEPT ![r].status = "deleted"])

Restore(r) ==
    /\ rows[r].status = "deleted"
    /\ Write({r}, [rows EXCEPT ![r].status = "live"])

\* Items and incidents can be deleted for good, and a log goes with its item:
\* the delete triggers of both run.
Purge(r) ==
    /\ KindOf[r] = "maintenance" /\ rows[r].status \in {"live", "deleted"}
    /\ LET gone == {r} \cup Children(r)
       IN  Write(gone, [x \in Rows |-> IF x \in gone THEN [rows[x] EXCEPT !.status = "absent"] ELSE rows[x]])

-----------------------------------------------------------------------------
(* A process opens the database. BOUND: one process opens at a time.       *)

Open ==
    /\ opener = Idle /\ opens < MaxOpens
    /\ opener' = 0 /\ opens' = opens + 1
    /\ answer' = NoAnswer
    /\ UNCHANGED <<rows, indexes, raced, revised, writes>>

OfKind(k) == {r \in Rows : KindOf[r] = k}

RunStatement(s) ==
    /\ schema' = CASE s.name = "drop table"      -> [schema EXCEPT !.table = FALSE]
                   [] s.name = "create table"    -> [schema EXCEPT !.table = TRUE]
                   [] s.name = "drop triggers"   -> [schema EXCEPT !.triggers = @ \ {s.kind}]
                   [] s.name = "create triggers" -> [schema EXCEPT !.triggers = @ \cup {s.kind}]
                   [] s.name = "drop cascade"    -> [schema EXCEPT !.cascades = @ \ {s.kind}]
                   [] s.name = "create cascade"  -> [schema EXCEPT !.cascades = @ \cup {s.kind}]
                   [] OTHER                      -> schema
    /\ entities' = CASE s.name = "drop table" -> EmptyBag
                     [] s.name = "populate"   -> entities (+) EntriesOf(OfKind(s.kind), rows)
                     [] OTHER                 -> entities
    \* a rebuild reads the whole table, what is deleted with the rest
    /\ postings' = IF s.name # "rebuild" THEN postings
                   ELSE [d \in Documents |-> IF rows[d].status = "absent" THEN {} ELSE {rows[d].text}]
    /\ revised' = IF s.name = "rebuild" THEN {} ELSE revised

\* The process goes on to the next statement, or it is done.
SetUpStep ==
    /\ opener < Len(SetUp)
    /\ RunStatement(SetUp[opener + 1])
    /\ opener' = opener + 1
    /\ raced' = (raced /\ opener + 1 # 1)
    /\ answer' = NoAnswer
    /\ UNCHANGED <<rows, writes, opens>>

\* It stops before it is done; nothing undoes what it did.
Stop ==
    /\ opener # Idle
    /\ opener' = Idle /\ raced' = TRUE
    /\ answer' = NoAnswer
    /\ UNCHANGED <<rows, indexes, revised, writes, opens>>

-----------------------------------------------------------------------------
(* Questions (SearchEntities, SearchDocuments).                            *)

PlaceIn(r, S) == Cardinality({x \in S : Score[x] <= Score[r]})
BestOf(S, n) == {r \in S : PlaceIn(r, S) <= n}
Less(n, m) == IF n < m THEN 0 ELSE n - m

\* a row's place among the matches of its kind, the window function's rn
PlaceInKind(r, S) == PlaceIn(r, {x \in S : KindOf[x] = KindOf[r]})

\* MUTANT: the best matches of all, whatever their kind.
BestOfAll(S) == BestOf(S, Total)

\* The best match of each kind, then more of each, then what room is left
BestMatches(S) ==
    LET tier1 == {r \in S : PlaceInKind(r, S) = 1}
        some  == {r \in S : PlaceInKind(r, S) \in 2..PerKind}
        tier2 == BestOf(some, Less(Total, Cardinality(tier1)))
        rest  == {r \in S : PlaceInKind(r, S) > PerKind}
        tier3 == BestOf(rest, Less(Total, Cardinality(tier1) + Cardinality(tier2)))
    IN  BestOf(tier1 \cup tier2 \cup tier3, Total)

\* BuildFTSContextFromStore: some rows match; those that are still there are told of
Question ==
    /\ schema.table
    /\ answer = NoAnswer
    /\ \E q \in Questions :
           LET hits == q \cap {e.id : e \in DOMAIN entities}
           IN  /\ hits # {}
               /\ answer' = [hits |-> hits, found |-> BestMatches(hits) \cap Live(rows)]
    /\ UNCHANGED <<rows, indexes, opener, raced, revised, writes, opens>>

\* SearchDocuments for a text
FoundBy(t) == {d \in Documents : t \in postings[d]} \cap Live(rows)

-----------------------------------------------------------------------------
SearchInit ==
    /\ rows = [r \in Rows |-> [status |-> IF r \in Unborn THEN "absent" ELSE "live",
                               text |-> CHOOSE t \in Texts : TRUE]]
    /\ entities = EntriesOf(Rows, rows)
    /\ postings = [d \in Documents |-> IF d \in Unborn THEN {} ELSE {rows[d].text}]
    /\ schema = [table |-> TRUE, triggers |-> Kinds, cascades |-> ToSet(Parents)]
    /\ opener = Idle /\ answer = NoAnswer
    /\ raced = FALSE /\ revised = {} /\ writes = 0 /\ opens = 0

SearchNext ==
    \/ \E r \in Rows : Insert(r) \/ Update(r) \/ SoftDelete(r) \/ Restore(r) \/ Purge(r)
    \/ Open \/ SetUpStep \/ Stop
    \/ Question

-----------------------------------------------------------------------------
(* Properties.                                                             *)

\* Whatever was written, deleted and restored since, the triggers have made
\* of entities_fts what copying all tables anew would make of it: one entry
\* for each row that is not deleted, named by its parents as they are now.
FollowsTables ==
    opener = Idle /\ ~raced => entities = EntriesOf(Rows, rows)

\* A document that is not deleted is found by the text it has, however many
\* openings, deletions and pulls went before, and by no other, unless it was
\* changed while it was deleted: then the restored document is found by the
\* text it had when the index was built, too.
FoundByItsText ==
    "document" \in schema.triggers /\ opener \in {0} \cup 3..Len(SetUp) =>
        \A d \in Live(rows) \cap Documents :
            /\ raced \/ d \in FoundBy(rows[d].text)
            /\ raced \/ d \in revised \/ \A t \in Texts \ {rows[d].text} : d \notin FoundBy(t)

\* A question is answered with a row of every kind of row that matches it, as
\* long as the answer has room for one of each, and never with more rows.
KindsAnswered ==
    LET kinds(S) == {KindOf[r] : r \in S}
    IN  /\ Cardinality(answer.found) <= Total
        /\ Cardinality(kinds(answer.hits)) <= Total /\ opener = Idle /\ ~raced =>
               kinds(answer.found) = kinds(answer.hits)
=============================================================================
