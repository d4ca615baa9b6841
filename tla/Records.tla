------------------------------- MODULE Records ------------------------------
(***************************************************************************)
(* One record and the four ways to write it: the forms that create and     *)
(* edit it and the inline edit of one cell (internal/app/forms.go), and    *)
(* `micasa db add` and `edit` (cmd/micasa/entity_*.go). Every way reads    *)
(* the record, changes what the user typed and writes all columns back, so *)
(* a column nobody typed goes through a printed form and a parser, and the *)
(* vendor a quote or a log names is written too.                           *)
(*                                                                         *)
(* A column is abstracted to a kind and a few values of it. BOUND: an edit *)
(* types one column, or a quote's vendor together with the contact.        *)
(***************************************************************************)
EXTENDS Integers

CONSTANTS
    Null,          \* SQL NULL
    Areas,         \* square feet stored, and square metres typed
    MaxEdits       \* BOUND: edits

ASSUME RecordsAssumption ==
    Areas \subseteq Nat /\ 0 \in Areas /\ Areas # {0} /\ MaxEdits \in Nat /\ Null \notin Int

VARIABLES
    entity, record,        \* the kind of record; its columns, NoRow before it exists
    deleted,            \* soft-deleted by being resolved
    vendors, lookups,   \* the vendors, and m.vendors: a copy of those not deleted
    metric,             \* unitSystem
    unlisted,           \* values a form's selects do not offer (see Selects)
    edits,
    last                \* HISTORY: who wrote last, and the columns typed

recordVars == <<entity, record, deleted, vendors, lookups, metric, unlisted, edits, last>>

-----------------------------------------------------------------------------
(* The columns of the tables and their kinds.                              *)

HouseColumns ==
    [nickname |-> "required", address |-> "text", postalCode |-> "text",
     yearBuilt |-> "int", squareFeet |-> "area", lotSquareFeet |-> "area",
     bedrooms |-> "int", bathrooms |-> "int", foundationType |-> "text",
     insuranceCarrier |-> "text", insuranceRenewal |-> "date",
     propertyTax |-> "money", hoaName |-> "text", hoaFee |-> "money"]

ProjectColumns ==
    [title |-> "required", projectTypeID |-> "choice", status |-> "choice",
     description |-> "text", startDate |-> "date", endDate |-> "date",
     budget |-> "money", actual |-> "money"]

QuoteColumns ==
    [projectID |-> "choice", vendor |-> "vendor", total |-> "total", labor |-> "money",
     materials |-> "money", other |-> "money", receivedDate |-> "date", notes |-> "text"]

MaintenanceColumns ==
    [name |-> "required", categoryID |-> "choice", applianceID |-> "ref", season |-> "choice",
     lastServiced |-> "date", interval |-> "interval", dueDate |-> "date", manualURL |-> "text",
     manualText |-> "text", cost |-> "money", notes |-> "text"]

IncidentColumns ==
    [title |-> "required", description |-> "text", status |-> "status",
     previousStatus |-> "status", severity |-> "choice", dateNoticed |-> "choice",
     dateResolved |-> "date", location |-> "text", cost |-> "money",
     applianceID |-> "ref", vendorID |-> "ref", notes |-> "text"]

ApplianceColumns ==
    [name |-> "required", brand |-> "text", modelNumber |-> "text", serialNumber |-> "text",
     purchaseDate |-> "date", warrantyExpiry |-> "date", location |-> "text",
     cost |-> "money", notes |-> "text"]

VendorColumns ==
    [name |-> "required", contactName |-> "text", email |-> "text", phone |-> "text",
     website |-> "text", notes |-> "text", locale |-> "text"]

ServiceLogColumns ==
    [maintenanceItemID |-> "choice", servicedAt |-> "choice", vendor |-> "vendor",
     cost |-> "money", notes |-> "text"]

\* `file` stands for the file's name, type, size, checksum and bytes.
DocumentColumns ==
    [title |-> "required", file |-> "choice", entity |-> "ref", extractedText |-> "text",
     ocrData |-> "text", extractionModel |-> "text", extractionOps |-> "text",
     notes |-> "text"]

Columns ==
    [house |-> HouseColumns, project |-> ProjectColumns, quote |-> QuoteColumns,
     maintenance |-> MaintenanceColumns, incident |-> IncidentColumns,
     appliance |-> ApplianceColumns, vendor |-> VendorColumns,
     serviceLog |-> ServiceLogColumns, document |-> DocumentColumns]

Entities == DOMAIN Columns
Cols(e) == DOMAIN Columns[e]

\* Columns no form holds, and those an edit without a new file leaves alone
Unheld(e) ==
    CASE e = "document" -> {"extractedText", "ocrData", "extractionModel", "extractionOps"}
      [] e = "incident" -> {"previousStatus"}
      [] OTHER -> {}

Omitted(e) == IF e = "document" THEN {"file"} ELSE {}

\* Columns a form shows as a select, over rows loaded or not deleted or over
\* fixed texts. An incident's status is one too, of values all offered.
Selects(e) ==
    CASE e = "project"     -> {"projectTypeID", "status"}
      [] e = "quote"       -> {"projectID"}
      [] e = "maintenance" -> {"categoryID", "season", "applianceID"}
      [] e = "incident"    -> {"severity", "applianceID", "vendorID"}
      [] e = "document"    -> {"entity"}
      [] OTHER -> {}

-----------------------------------------------------------------------------
(* Values.                                                                 *)

NoRow   == <<>>
VendorNames == {"A", "B"}
Texts   == {"", "a", " a"}
Trim(s) == IF s = " a" THEN "a" ELSE s

Domain(kind) ==
    CASE kind \in {"text", "required"} -> Texts
      [] kind = "choice" -> {"x", "y"}
      [] kind = "status" -> {"", "open", "resolved"}
      [] kind = "ref"    -> {Null, "x", "y"}
      [] kind = "date"   -> {Null, "d1", "d2"}
      [] kind = "money"  -> {Null, 0, 5, -5}
      [] kind = "total"  -> {0, 5, -5}
      [] kind \in {"int", "interval"} -> {0, 6, -6}
      [] kind = "area"   -> Areas
      [] kind = "vendor" -> VendorNames \cup {Null}

Zero(kind) ==
    CASE kind \in {"text", "required", "choice", "status"} -> ""
      [] kind \in {"ref", "date", "money", "vendor"} -> Null
      [] kind \in {"total", "int", "interval", "area"} -> 0

\* The conversions round half up; a square metre is 10.7639 square feet.
ToDisplay(sqft) == IF metric THEN (20000 * sqft + 107639) \div 215278 ELSE sqft
ToSqFt(shown)   == IF metric THEN (107639 * shown + 5000) \div 10000 ELSE shown

Numbers == {"money", "total", "int", "interval"}

\* The parsers of a form refuse negative numbers.
Parses(kind, v) == kind \in Numbers /\ v # Null => v >= 0

\* What is stored for a text typed
Parsed(kind, v) ==
    IF kind \in {"text", "required"} THEN Trim(v) ELSE IF kind = "area" THEN ToSqFt(v) ELSE v

\* What a form shows of a stored value: of no interval above zero, nothing
Printed(kind, v) ==
    CASE kind = "area" -> ToDisplay(v)
      [] kind = "interval" -> IF v > 0 THEN v ELSE 0
      [] OTHER -> v

\* What a form stores for a column nobody typed: printed, then parsed
Reread(kind, v) == Parsed(kind, Printed(kind, v))

\* What the user sees of a stored value
Seen(kind, v) ==
    CASE kind \in {"text", "required"} -> Trim(v)
      [] kind = "area" -> ToDisplay(v)
      [] OTHER -> v

\* requiredText, on the fields of a form
Valid(kind, v) == Parses(kind, v) /\ (kind = "required" => Trim(v) # "")

-----------------------------------------------------------------------------
(* What may be typed: a function from columns to inputs.                   *)

\* The form of a new record asks for little (start..Form).
HouseStart       == {"nickname", "postalCode"}
ProjectStart     == {"title", "projectTypeID", "status"}
QuoteStart       == {"projectID", "vendor", "total"}
MaintenanceStart == {"name", "categoryID", "season", "applianceID", "interval", "dueDate"}
IncidentStart    == {"title", "severity", "dateNoticed", "location", "applianceID", "vendorID"}
ApplianceStart   == {"name"}
VendorStart      == {"name"}
ServiceLogStart  == {"servicedAt", "vendor"}
DocumentStart    == {"title", "entity", "file", "notes"}

StartInputs ==
    [house |-> HouseStart, project |-> ProjectStart, quote |-> QuoteStart,
     maintenance |-> MaintenanceStart, incident |-> IncidentStart,
     appliance |-> ApplianceStart, vendor |-> VendorStart,
     serviceLog |-> ServiceLogStart, document |-> DocumentStart]

\* The form that edits one shows nearly all of it (open..Form).
HouseForm       == Cols("house")
ProjectForm     == Cols("project")
QuoteForm       == Cols("quote") \cup {"contact"}      \* of the quote's vendor
MaintenanceForm == Cols("maintenance")
IncidentForm    == Cols("incident") \ {"previousStatus"}
ApplianceForm   == Cols("appliance")
VendorForm      == Cols("vendor") \ {"locale"}
ServiceLogForm  == Cols("serviceLog") \ {"maintenanceItemID"}
DocumentForm    == {"title", "entity", "file", "notes"}

FormInputs ==
    [house |-> HouseForm, project |-> ProjectForm, quote |-> QuoteForm,
     maintenance |-> MaintenanceForm, incident |-> IncidentForm,
     appliance |-> ApplianceForm, vendor |-> VendorForm,
     serviceLog |-> ServiceLogForm, document |-> DocumentForm]

\* One cell of a table is edited in place (..InlineSpecs, inlineEdit..).
HouseInline       == Cols("house")
ProjectInline     == Cols("project") \ {"description"}
QuoteInline       == Cols("quote") \ {"notes"}
MaintenanceInline == {"name", "categoryID", "season", "applianceID", "lastServiced",
                      "interval", "dueDate"}
IncidentInline    == Cols("incident") \ {"description", "previousStatus", "notes"}
ApplianceInline   == Cols("appliance") \ {"notes"}
VendorInline      == Cols("vendor") \ {"notes", "locale"}
ServiceLogInline  == Cols("serviceLog") \ {"maintenanceItemID"}
DocumentInline    == {"title", "entity", "notes"}

InlineInputs ==
    [house |-> HouseInline, project |-> ProjectInline, quote |-> QuoteInline,
     maintenance |-> MaintenanceInline, incident |-> IncidentInline,
     appliance |-> ApplianceInline, vendor |-> VendorInline,
     serviceLog |-> ServiceLogInline, document |-> DocumentInline]

\* `add` takes the fields it names, or what the JSON of the struct holds.
HouseAdd       == Cols("house")
ProjectAdd     == Cols("project")
QuoteAdd       == Cols("quote")
MaintenanceAdd == Cols("maintenance")
IncidentAdd    == Cols("incident") \ {"previousStatus"}
ApplianceAdd   == Cols("appliance")
VendorAdd      == Cols("vendor")
ServiceLogAdd  == Cols("serviceLog")
DocumentAdd    == Cols("document") \ {"ocrData", "extractionOps"}

AddInputs ==
    [house |-> HouseAdd, project |-> ProjectAdd, quote |-> QuoteAdd,
     maintenance |-> MaintenanceAdd, incident |-> IncidentAdd,
     appliance |-> ApplianceAdd, vendor |-> VendorAdd,
     serviceLog |-> ServiceLogAdd, document |-> DocumentAdd]

\* `edit` takes the fields it names.
HouseEdit       == Cols("house")
ProjectEdit     == Cols("project")
QuoteEdit       == Cols("quote")
MaintenanceEdit == Cols("maintenance") \ {"manualURL", "manualText"}
IncidentEdit    == Cols("incident") \ {"previousStatus"}
ApplianceEdit   == Cols("appliance")
VendorEdit      == Cols("vendor") \ {"locale"}
ServiceLogEdit  == Cols("serviceLog")
DocumentEdit    == {"title", "notes"}

EditInputs ==
    [house |-> HouseEdit, project |-> ProjectEdit, quote |-> QuoteEdit,
     maintenance |-> MaintenanceEdit, incident |-> IncidentEdit,
     appliance |-> ApplianceEdit, vendor |-> VendorEdit,
     serviceLog |-> ServiceLogEdit, document |-> DocumentEdit]

Kind(e, c) == IF c = "contact" THEN "text" ELSE Columns[e][c]

\* A vendor is named or chosen: no quote is without one.
Typable(e, c, checked) ==
    {v \in Domain(Kind(e, c)) :
        /\ checked => Valid(Kind(e, c), v) /\ (c \in Selects(e) => v \notin unlisted)
        /\ e = "quote" /\ c = "vendor" => v # Null
        /\ Kind(e, c) = "status" => v # ""}

Single(e, c, checked) == [{c} -> Typable(e, c, checked)]

Typed(e, C, checked) ==
    (UNION {Single(e, c, checked) : c \in C})
    \cup IF "contact" \notin C THEN {}
         ELSE {[vendor |-> v, contact |-> t] :
                  v \in Typable(e, "vendor", checked), t \in Typable(e, "contact", checked)}

-----------------------------------------------------------------------------
(* Vendors.                                                                *)

\* findOrCreateVendor: a vendor found is revived and told its contact again
FindOrCreateVendor(name, contact) ==
    vendors' = [vendors EXCEPT ![name] = [contact |-> contact, alive |-> TRUE]]

\* Only quotes and service logs write to a vendor.
Names(name, contact) ==
    IF entity \in {"quote", "serviceLog"} /\ name # Null THEN FindOrCreateVendor(name, contact)
                                                        ELSE UNCHANGED vendors

Snapshot(vs) == [v \in {w \in VendorNames : vs[w].alive} |-> vs[v].contact]

-----------------------------------------------------------------------------
(* Forms.                                                                  *)

\* maintenanceFormValues: an interval hides a due date
ScheduleType(r) ==
    IF r.interval > 0 THEN "interval" ELSE IF r.dueDate # Null THEN "due" ELSE "none"

\* parseMaintenanceFormData: only the field of the selected type is parsed
Scheduled(r, type) ==
    [r EXCEPT !.interval = IF type = "interval" THEN @ ELSE 0,
              !.dueDate  = IF type = "due" THEN @ ELSE Null]

\* A typed field selects its type (beforeEdit), as a user of the form has to.
TypedSchedule(t) ==
    IF "interval" \in DOMAIN t THEN "interval"
    ELSE IF "dueDate" \in DOMAIN t THEN "due" ELSE ScheduleType(record)

\* parseServiceLogFormData: a vendor not among those loaded is no vendor
Known(name) == IF name \in DOMAIN lookups THEN name ELSE Null

\* The first option of a select: none, where a column may be empty
First(c) ==
    IF Kind(entity, c) = "ref" THEN Null
    ELSE IF c = "season" THEN ""
    ELSE IF "x" \in unlisted THEN "y" ELSE "x"

Offered(c, v) == IF c \in Selects(entity) /\ v \in unlisted THEN First(c) ELSE v

\* Columns whose value its select does not offer. A select that opens on such
\* a value takes its first option. A document's form has its select only when
\* it is not opened from the entity itself.
Unoffered == {c \in Selects(entity) : record[c] \in unlisted}
Resets    == IF entity = "document" THEN SUBSET Unoffered ELSE {Unoffered}

\* What a form submits: what was typed, and first options taken
Opened(t, C) == [c \in DOMAIN t \cup C |-> IF c \in DOMAIN t THEN t[c] ELSE First(c)]

\* The fields of a form back into columns (parse..FormData, Update..)
Held(c, t) == IF c \in DOMAIN t THEN Parsed(Kind(entity, c), t[c])
                                ELSE Reread(Kind(entity, c), record[c])

\* quoteFormValues: the contact of the vendor the quote had
Contact == Trim(vendors[record.vendor].contact)

FormRow(t) ==
    [c \in Cols(entity) |->
        IF c \in Omitted(entity) /\ c \notin DOMAIN t THEN record[c]
        ELSE IF c \in Unheld(entity)
             THEN IF c = "extractedText" /\ "file" \in DOMAIN t THEN "a"   \* of the new file
                  ELSE Zero(Kind(entity, c))
        ELSE IF entity = "serviceLog" /\ c = "vendor" THEN Known(Held(c, t))
        ELSE Held(c, t)]

\* submit..Form: the fields become a row, which the store writes as a whole.
SubmitHouse(t)     == entity = "house" /\ record' = FormRow(t)
SubmitProject(t)   == entity = "project" /\ record' = FormRow(t)
SubmitAppliance(t) == entity = "appliance" /\ record' = FormRow(t)
SubmitVendor(t)    == entity = "vendor" /\ record' = FormRow(t)
SubmitDocument(t)  == entity = "document" /\ record' = FormRow(t)
SubmitIncident(t)  == entity = "incident" /\ record' = FormRow(t)

SubmitMaintenance(t) ==
    entity = "maintenance" /\ record' = Scheduled(FormRow(t), TypedSchedule(t))

SubmitQuote(t) ==
    /\ entity = "quote"
    /\ record' = FormRow(t)
    /\ Names(record'.vendor, IF "contact" \in DOMAIN t THEN Trim(t.contact) ELSE Contact)

SubmitServiceLog(t) ==
    /\ entity = "serviceLog"
    /\ record' = FormRow(t)
    /\ IF record'.vendor = Null THEN UNCHANGED vendors ELSE Names(record'.vendor, lookups[record'.vendor])

\* handleFormSubmit, createOrUpdate: a row that does not parse is refused.
Submits(t) ==
    /\ \A c \in Cols(entity) \ Unheld(entity) : Parses(Kind(entity, c), Printed(Kind(entity, c), record[c]))
    /\ \/ SubmitQuote(t)
       \/ SubmitServiceLog(t)
       \/ /\ \/ SubmitHouse(t) \/ SubmitProject(t) \/ SubmitMaintenance(t) \/ SubmitIncident(t)
             \/ SubmitAppliance(t) \/ SubmitVendor(t) \/ SubmitDocument(t)
          /\ UNCHANGED vendors
    /\ deleted' = (entity = "incident" /\ record'.status = "resolved")

MayEdit == edits < MaxEdits     \* BOUND

Wrote(by, t) ==
    /\ edits' = edits + 1
    /\ last' = [by |-> by, typed |-> DOMAIN t]
    /\ UNCHANGED <<entity, metric, unlisted>>

Live == record # NoRow /\ ~deleted

\* start..Form, submit..Form: the defaults are the first choices
DefaultRow ==
    [c \in Cols(entity) |->
        IF c \in {"season", "file"} THEN ""
        ELSE IF Kind(entity, c) = "choice" THEN "x"
        ELSE IF c = "status" THEN "open" ELSE Zero(Kind(entity, c))]

CreateByForm ==
    /\ record = NoRow /\ MayEdit
    /\ \E t \in Typed(entity, StartInputs[entity], TRUE) :
        LET r == [c \in Cols(entity) |->
                    IF entity = "serviceLog" /\ c = "vendor" /\ c \in DOMAIN t THEN Known(t[c])
                    ELSE IF c \in DOMAIN t THEN Parsed(Kind(entity, c), t[c])
                    ELSE IF c = "extractedText" /\ "file" \in DOMAIN t THEN "a"
                    ELSE Offered(c, DefaultRow[c])]
        IN  /\ \A c \in Cols(entity) : Kind(entity, c) = "required" => r[c] # ""
            /\ entity = "quote" => {"vendor", "total"} \subseteq DOMAIN t
            /\ record' = IF entity # "maintenance" THEN r
                      ELSE Scheduled(r, IF "interval" \in DOMAIN t THEN "interval"
                                        ELSE IF "dueDate" \in DOMAIN t THEN "due" ELSE "none")
            /\ CASE entity = "quote" -> Names(r.vendor, "")
                 [] entity = "serviceLog" /\ r.vendor # Null -> Names(r.vendor, lookups[r.vendor])
                 [] OTHER -> UNCHANGED vendors
            /\ Wrote("form", t)
    /\ UNCHANGED <<deleted, lookups>>

\* endDateAfterStart, "d1" being before "d2"
DatesOrdered(r) == entity = "project" => ~(r.startDate = "d2" /\ r.endDate = "d1")

\* startEdit..Form: every field is checked before the form completes. Only a
\* vendor's form loads the lookups again (reloadAfterFormSave).
EditForm ==
    /\ Live /\ MayEdit
    /\ \A c \in Cols(entity) \ Unheld(entity) : Valid(Kind(entity, c), Printed(Kind(entity, c), record[c]))
    /\ \E t \in Typed(entity, FormInputs[entity], TRUE), C \in Resets :
        Submits(Opened(t, C)) /\ Wrote("form", t)
    /\ DatesOrdered(record')
    /\ UNCHANGED lookups

\* inlineEdit..: only the typed field is checked, and only it is shown: what
\* other columns refer to is kept, offered or not.
EditInline ==
    /\ Live /\ MayEdit
    /\ \E t \in Typed(entity, InlineInputs[entity], TRUE) : Submits(t) /\ Wrote("inline", t)
    /\ UNCHANGED lookups

-----------------------------------------------------------------------------
(* `micasa db`.                                                            *)

\* MUTANT: an edit reads what a list of documents reads.
LoadsListed(e) == IF e = "document" THEN Cols(e) \ {"ocrData", "extractedText"} ELSE Cols(e)

\* The columns read before an edit: documents without their OCR data
Loaded(e) == IF e = "document" THEN Cols(e) \ {"ocrData"} ELSE Cols(e)

\* resolveVendorInput: by ID as stored, by name without a contact
Resolved(name) == {""} \cup IF vendors[name].alive THEN {vendors[name].contact} ELSE {}

\* The commands that create a house or a document ask for no name.
Unchecked == {"house", "document"}

\* ..Create: what is required, and no more
CreateByCli ==
    /\ record = NoRow /\ MayEdit
    /\ \E t \in Typed(entity, AddInputs[entity], FALSE) :
        LET r == [c \in Cols(entity) |-> IF c \in DOMAIN t THEN t[c]
                                       ELSE IF c = "entity" THEN "x" ELSE DefaultRow[c]]
        IN  /\ \A c \in Cols(entity) :
                  Kind(entity, c) = "required" /\ entity \notin Unchecked => r[c] # ""
            /\ entity = "document" => r.entity # Null
            /\ entity = "quote" => "vendor" \in DOMAIN t
            /\ record' = r
            /\ IF "vendor" \in DOMAIN t /\ t.vendor # Null
               THEN \E contact \in Resolved(t.vendor) : Names(t.vendor, contact)
               ELSE UNCHANGED vendors
            /\ Wrote("cli", t)
    /\ UNCHANGED <<deleted, lookups>>

\* ..Update: nothing is parsed that was not given
EditByCli ==
    /\ Live /\ MayEdit
    /\ \E t \in Typed(entity, EditInputs[entity], FALSE) :
        /\ record' = [c \in Cols(entity) |->
                    IF c \in DOMAIN t THEN t[c]
                    ELSE IF c \in Loaded(entity) THEN record[c] ELSE Zero(Kind(entity, c))]
        /\ IF "vendor" \notin Cols(entity) \/ record'.vendor = Null THEN UNCHANGED vendors
           ELSE IF "vendor" \in DOMAIN t
           THEN \E contact \in Resolved(t.vendor) : Names(t.vendor, contact)
           ELSE Names(record.vendor, vendors[record.vendor].contact)
        /\ Wrote("cli", t)
    /\ UNCHANGED <<deleted, lookups>>

-----------------------------------------------------------------------------
(* Meanwhile.                                                              *)

Other == [by |-> "other", typed |-> {}]

\* Another device, or another screen, writes to a vendor; the vendor's own form
\* loads the lookups.
ChangeVendor ==
    /\ entity \in {"quote", "serviceLog"} /\ MayEdit
    /\ \E v \in VendorNames, contact \in {"", "a"}, alive \in BOOLEAN :
        /\ entity = "quote" /\ record # NoRow /\ record.vendor = v => alive
        /\ vendors' = [vendors EXCEPT ![v] = [contact |-> contact, alive |-> alive]]
    /\ vendors' # vendors
    /\ lookups' \in {lookups, Snapshot(vendors')}
    /\ edits' = edits + 1 /\ last' = Other
    /\ UNCHANGED <<entity, record, deleted, metric, unlisted>>

\* The rows a select offers are deleted, restored or loaded again. Texts that
\* commands accept and rows a list leaves out are never offered. BOUND: of two
\* values one is offered.
ChangeListed ==
    /\ Selects(entity) # {} /\ MayEdit
    /\ unlisted' \in {{}, {"x"}, {"y"}} /\ unlisted' # unlisted
    /\ edits' = edits + 1 /\ last' = Other
    /\ UNCHANGED <<entity, record, deleted, vendors, lookups, metric>>

\* toggleUnitSystem
ToggleUnits ==
    /\ entity = "house"
    /\ metric' = ~metric /\ last' = Other
    /\ UNCHANGED <<entity, record, deleted, vendors, lookups, unlisted, edits>>

\* BOUND: a record all of whose columns but one have their first value
FirstRow(e) ==
    [c \in Cols(e) |->
        LET kind == Kind(e, c)
        IN  IF kind \in {"text", "required"} THEN "a"
            ELSE IF kind \in {"choice", "ref"} THEN "x"
            ELSE IF kind = "status" THEN IF c = "status" THEN "open" ELSE ""
            ELSE IF kind = "date" THEN IF c = "dueDate" THEN Null ELSE "d1"
            ELSE IF kind \in {"money", "total"} THEN 5
            ELSE IF kind \in {"int", "interval"} THEN 6
            ELSE IF kind = "area" THEN CHOOSE a \in Areas : a # 0 ELSE "A"]

Rows(e) ==
    UNION {{[FirstRow(e) EXCEPT ![c] = v] : v \in Typable(e, c, FALSE)} : c \in Cols(e)}

RecordInit ==
    /\ entity \in Entities
    /\ record \in Rows(entity) \cup {NoRow}
    /\ deleted = FALSE
    /\ vendors \in [VendorNames -> [contact : {"", "a"}, alive : {TRUE}]]
    /\ entity \notin {"quote", "serviceLog"} => \A v \in VendorNames : vendors[v].contact = "a"
    /\ lookups = Snapshot(vendors)
    /\ metric \in BOOLEAN /\ (metric => entity = "house")
    /\ unlisted = {}
    /\ edits = 0 /\ last = Other

RecordNext ==
    \/ CreateByForm \/ EditForm \/ EditInline
    \/ CreateByCli \/ EditByCli
    \/ ChangeVendor \/ ChangeListed \/ ToggleUnits

-----------------------------------------------------------------------------
(* Properties.                                                             *)

Edited == record # NoRow /\ edits' # edits /\ last'.by # "other"

\* What an edit loses although nobody typed it: what the document's text and
\* model were, an incident's earlier status, one of two schedules and an
\* interval that is negative, a log's vendor that has been deleted since - and,
\* in a form, any reference or choice that is not among the options: the link to
\* a deleted appliance, vendor or entity goes, and a deleted project gives way
\* to the first one there is (vendorOpts, documentEntityOptions).
Loses(c) ==
    \/ entity = "document" /\ c \in Unheld(entity) /\ (last'.by = "cli" => c = "ocrData")
    \/ c = "previousStatus"
    \/ /\ entity = "maintenance" /\ c \in {"interval", "dueDate"} /\ last'.by # "cli"
       /\ last'.typed \cap {"interval", "dueDate"} # {} \/ (record.interval > 0 /\ record.dueDate # Null)
    \/ c = "interval" /\ last'.by # "cli" /\ record.interval < 0
    \/ entity = "serviceLog" /\ c = "vendor" /\ last'.by # "cli" /\ record.vendor \notin DOMAIN lookups
    \/ last'.by = "form" /\ c \in Unoffered

\* Whoever edits a record, by form, cell or command, a column that was not
\* typed shows what it showed before: nothing is dropped, printed in one unit
\* and parsed in another, or reset to a default - offered links included, and in
\* a cell or command all of them - but for what Loses lists
\* (forms.go ..FormValues and parse..FormData, store.go updateByIDWith,
\* cmd/micasa/entity_*.go ..Update).
KeepsRest ==
    [][Edited => \A c \in Cols(entity) \ last'.typed :
        \/ Seen(Kind(entity, c), record'[c]) = Seen(Kind(entity, c), record[c])
        \/ Loses(c)]_recordVars

\* An edit of a quote that types neither its vendor nor a contact changes
\* nothing of any vendor, and an edit of a service log at most puts back what
\* the program had loaded of its vendor: the fields a form does not show are
\* carried through it (forms.go quoteFormData.VendorNotes,
\* store_vendor.go findOrCreateVendor).
VendorsKept ==
    [][Edited /\ last'.typed \cap {"vendor", "contact"} = {} => \A v \in VendorNames :
        \/ Trim(vendors'[v].contact) = Trim(vendors[v].contact)
        \/ entity = "serviceLog" /\ v \in DOMAIN lookups /\ vendors'[v].contact = lookups[v]]_recordVars

\* Both: an edit changes what was typed, in its record and beside it.
EditsKeepRest == KeepsRest /\ VendorsKept
=============================================================================
