----------------------------- MODULE LocalStore -----------------------------
(***************************************************************************)
(* Entities of one database (internal/data/store*.go): which rows refer to *)
(* which, soft deletion behind guards on dependents, restoring behind      *)
(* guards on parents, permanent deletion, vendors found or created by      *)
(* name, the service date kept on a maintenance item - and what the oplog  *)
(* of all this tells another device (internal/sync/apply.go).              *)
(*                                                                         *)
(* Several callers share the database: the TUI and `micasa db` commands.   *)
(* A transaction is one step; a guard outside of one is a step before it.  *)
(***************************************************************************)
EXTENDS Integers, FiniteSets, FiniteSetsExt

CONSTANTS
    Vendors, Projects, Quotes, Appliances, Items, Logs, Incidents, Documents,
    Seeded,         \* rows of the initial database, none with a parent
    Contacts,       \* contact fields of a vendor
    Statuses,       \* of an incident
    StatusOpen, StatusResolved,
    Dates,          \* when an item was serviced
    Callers,        \* processes that use the store
    MaxOps,         \* BOUND: operations of the callers
    MaxRemote,      \* BOUND: operations applied for other devices
    None            \* no row, no value

Parents == Vendors \cup Projects \cup Appliances \cup Items
Ids     == Parents \cup Quotes \cup Logs \cup Incidents \cup Documents

\* What a row says beside its parents: a vendor's contact, an incident's
\* status, a log's date, an item's last service.
Value(x) ==
    CASE x \in Vendors   -> Contacts
      [] x \in Incidents -> Statuses
      [] x \in Logs      -> Dates
      [] x \in Items     -> Dates \cup {None}
      [] OTHER           -> {None}

Row ==
    [gone : BOOLEAN, of : SUBSET Ids, val : Contacts \cup Statuses \cup Dates \cup {None},
     prev : Statuses \cup {None}]

\* A guarded operation between its check and its transaction; seen are the
\* dependents at the check (HISTORY).
Checked == [act : {"delete", "restore"}, id : Ids, read : Row, seen : SUBSET Ids]

ASSUME LocalStoreAssumption ==
    \* an ID is of one table
    /\ Vendors \cap (Projects \cup Quotes \cup Appliances \cup Items \cup Logs \cup Incidents \cup Documents) = {}
    /\ Projects \cap (Quotes \cup Appliances \cup Items \cup Logs \cup Incidents \cup Documents) = {}
    /\ Quotes \cap (Appliances \cup Items \cup Logs \cup Incidents \cup Documents) = {}
    /\ Appliances \cap (Items \cup Logs \cup Incidents \cup Documents) = {}
    /\ Items \cap (Logs \cup Incidents \cup Documents) = {}
    /\ Logs \cap (Incidents \cup Documents) = {}
    /\ Incidents \cap Documents = {}
    /\ IsFiniteSet(Logs)        \* ULIDs
    /\ Seeded \subseteq Parents
    /\ Dates \subseteq Nat
    /\ {StatusOpen, StatusResolved} \subseteq Statuses
    /\ Contacts # {}
    /\ MaxOps \in Nat /\ MaxRemote \in Nat
    /\ None \notin Row \cup Checked \cup Statuses

VARIABLES
    row,        \* row[x]: the row with ID x, or None
    replica,    \* replica[x]: the row on a device that has applied the oplog
    open,       \* open[x]: deletion_records of x without restored_at
    pending,    \* pending[p]: the guarded operation p has checked, or None
    ops, remotes,
    manual,     \* HISTORY: items whose last service was typed after the last log change
    loose       \* HISTORY: rows the guards do not answer for (see Loosened)

vars == <<row, replica, open, pending, ops, remotes, manual, loose>>

New(ps, v) == [gone |-> FALSE, of |-> ps, val |-> v, prev |-> None]

Init ==
    /\ row = [x \in Ids |-> IF x \in Seeded
            THEN New({}, IF x \in Vendors THEN CHOOSE c \in Contacts : TRUE ELSE None)
            ELSE None]
    /\ replica = row
    /\ open = [x \in Ids |-> 0]
    /\ pending = [p \in Callers |-> None]
    /\ ops = 0 /\ remotes = 0
    /\ manual = {} /\ loose = {}

-----------------------------------------------------------------------------
(* Rows and what refers to them *)

AliveIn(rows, x) == rows[x] # None /\ ~rows[x].gone
Alive(x)  == AliveIn(row, x)
Exists(x) == row[x] # None

\* Tables whose live rows keep a row from being deleted; service logs do not
\* keep their vendor, and documents keep nothing.
Guards(x) ==
    CASE x \in Vendors    -> Quotes \cup Incidents
      [] x \in Projects   -> Quotes
      [] x \in Appliances -> Items \cup Incidents
      [] x \in Items      -> Logs
      [] OTHER            -> {}

DependentsIn(rows, x) == {c \in Guards(x) : AliveIn(rows, c) /\ x \in rows[c].of}

\* MUTANT: a parent is deleted whatever depends on it.
NoneGuarded(x) == TRUE

\* checkDependencies.
Deletable(x) == DependentsIn(row, x) = {}

\* checkParentsAlive, validateDocumentParent.
Restorable(x) == \A e \in row[x].of : Alive(e)

\* Rows loosened by this step: they got a parent that was deleted already, a
\* check on them was stale when it was used, an extraction brought them back
\* under a deleted parent, or another device acted on them.
Loosened(xs) == loose' = loose \cup xs
DeadParents(ps) == {e \in ps : ~Alive(e)}

Counts == ops < MaxOps /\ ops' = ops + 1

Stores(rows, reps) == row' = rows /\ replica' = reps

-----------------------------------------------------------------------------
(***************************************************************************)
(* Creating and changing rows.  A row's oplog entry carries the row; a     *)
(* device that applies it leaves deleted_at alone.                         *)
(***************************************************************************)
Put(rows, x, r) == [rows EXCEPT ![x] = r]

Told(reps, x, r) ==
    [reps EXCEPT ![x] = IF reps[x] = None THEN r ELSE [r EXCEPT !.gone = reps[x].gone]]

\* An update of a row that is deleted by now changes nothing and is logged.
Changed(rows, x, r) == IF AliveIn(rows, x) THEN Put(rows, x, r) ELSE rows

Creates(x, r) ==
    /\ Counts
    /\ row[x] = None /\ replica[x] = None
    /\ \A e \in r.of : Exists(e)
    /\ Stores(Put(row, x, r), Told(replica, x, r))
    /\ Loosened(IF DeadParents(r.of) = {} THEN {} ELSE {x})
    /\ UNCHANGED <<open, pending, remotes>>

Updates(x, r) ==
    /\ Counts
    /\ Exists(x)
    /\ \A e \in r.of : Exists(e)
    /\ Stores(Changed(row, x, r), Told(replica, x, r))
    /\ Loosened(IF Alive(x) /\ DeadParents(r.of \ row[x].of) = {} THEN {} ELSE {x})
    /\ UNCHANGED <<open, pending, remotes>>

CreateVendor(v, c) == Creates(v, New({}, c)) /\ UNCHANGED manual
UpdateVendor(v, c) == Updates(v, New({}, c)) /\ UNCHANGED manual

CreateProject(x)   == Creates(x, New({}, None)) /\ UNCHANGED manual
CreateAppliance(x) == Creates(x, New({}, None)) /\ UNCHANGED manual

OptionalParents(tables) == {{}} \cup {{e} : e \in tables}

IncidentParents(xs) ==
    {a \cup v : a \in OptionalParents(Appliances \cap xs), v \in OptionalParents(Vendors \cap xs)}

CreateIncident(i, ps)    == Creates(i, New(ps, StatusOpen)) /\ UNCHANGED manual
UpdateIncident(i, ps, s) == Updates(i, New(ps, s)) /\ UNCHANGED manual

CreateMaintenance(m, ps, last) ==
    /\ Creates(m, New(ps, last))
    /\ manual' = manual \cup {m}

UpdateMaintenance(m, ps, last) ==
    /\ Updates(m, New(ps, last))
    /\ manual' = manual \cup {m}

CreateDocument(x, ps) == Creates(x, New(ps, None)) /\ UNCHANGED manual

-----------------------------------------------------------------------------
(***************************************************************************)
(* Vendors found or created by name, inside the transaction of a quote or  *)
(* of a service log entry.                                                 *)
(***************************************************************************)
WithVendor(rows, v, c) ==
    [rows EXCEPT ![v] = IF rows[v] = None THEN New({}, c) ELSE [rows[v] EXCEPT !.gone = FALSE, !.val = c]]

\* A vendor that was deleted is restored in the oplog, and its new contact
\* fields are not mentioned.
VendorTold(reps, v, c) ==
    [reps EXCEPT ![v] = IF Exists(v) /\ row[v].gone THEN [reps[v] EXCEPT !.gone = FALSE]
                        ELSE IF reps[v] = None THEN New({}, c) ELSE [reps[v] EXCEPT !.val = c]]

Revived(vs) == {v \in vs : Exists(v) /\ row[v].gone}

RecordsClosed(vs) == [x \in Ids |-> IF x \in vs THEN 0 ELSE open[x]]

CreateQuote(q, p, v, c) ==
    /\ Counts
    /\ row[q] = None /\ replica[q] = None
    /\ Exists(p)
    /\ LET r == New({p, v}, None) IN
        Stores(Put(WithVendor(row, v, c), q, r), Told(VendorTold(replica, v, c), q, r))
    /\ open' = RecordsClosed(Revived({v}))
    /\ Loosened(IF Alive(p) THEN {} ELSE {q})
    /\ UNCHANGED <<pending, remotes, manual>>

UpdateQuote(q, p, v, c) ==
    /\ Counts
    /\ Exists(q) /\ Exists(p)
    /\ LET r == New({p, v}, None) IN
        Stores(Changed(WithVendor(row, v, c), q, r), Told(VendorTold(replica, v, c), q, r))
    /\ open' = RecordsClosed(Revived({v}))
    /\ Loosened(IF Alive(q) /\ (Alive(p) \/ p \in row[q].of) THEN {} ELSE {q})
    /\ UNCHANGED <<pending, remotes, manual>>

-----------------------------------------------------------------------------
(***************************************************************************)
(* Service log entries keep last_serviced_at of their item.                *)
(***************************************************************************)
Serviced(rows, m) == {rows[l].val : l \in {k \in Logs : AliveIn(rows, k) /\ m \in rows[k].of}}

\* syncLastServiced of a set of items; it writes no oplog entry.
LastSynced(rows, ms) ==
    [x \in Ids |-> IF x \in ms /\ AliveIn(rows, x) /\ Serviced(rows, x) # {}
                   THEN [rows[x] EXCEPT !.val = Max(Serviced(rows, x))] ELSE rows[x]]

\* vs is empty (done by the owner) or one vendor.
Found(rows, vs, c)     == IF vs = {} THEN rows ELSE WithVendor(rows, CHOOSE v \in vs : TRUE, c)
FoundTold(reps, vs, c) == IF vs = {} THEN reps ELSE VendorTold(reps, CHOOSE v \in vs : TRUE, c)

CreateServiceLog(l, m, vs, c, date) ==
    /\ Counts
    /\ row[l] = None /\ replica[l] = None
    /\ Exists(m)
    /\ LET r == New({m} \cup vs, date) IN
        Stores(LastSynced(Put(Found(row, vs, c), l, r), {m}), Told(FoundTold(replica, vs, c), l, r))
    /\ open' = RecordsClosed(Revived(vs))
    /\ manual' = manual \ {m}
    /\ Loosened(IF Alive(m) THEN {} ELSE {l, m})
    /\ UNCHANGED <<pending, remotes>>

\* MUTANT: only the item an entry is put into.
NewItem(l, m)   == {m}

\* The items an entry is taken from and put into.
BothItems(l, m) == {m} \cup (row[l].of \cap Items)

UpdateServiceLog(l, m, vs, c, date) ==
    /\ Counts
    /\ Alive(l)
    /\ Exists(m)
    /\ LET r == New({m} \cup vs, date) IN
        Stores(LastSynced(Put(Found(row, vs, c), l, r), BothItems(l, m)),
               Told(FoundTold(replica, vs, c), l, r))
    /\ open' = RecordsClosed(Revived(vs))
    /\ manual' = manual \ {m}
    /\ Loosened(IF Alive(m) THEN {} ELSE {l, m})
    /\ UNCHANGED <<pending, remotes>>

-----------------------------------------------------------------------------
(***************************************************************************)
(* Soft deletion.                                                          *)
(***************************************************************************)
Gone(rows, x) == [rows EXCEPT ![x].gone = TRUE]
Back(rows, x) == [rows EXCEPT ![x].gone = FALSE]

\* MUTANT: the incident keeps its status, and no earlier one is remembered.
StatusForgotten(rows, x) == rows

\* DeleteIncident resolves the incident and remembers its status.
StatusKept(rows, x) ==
    IF x \in Incidents
    THEN [rows EXCEPT ![x].prev = rows[x].val, ![x].val = StatusResolved] ELSE rows

ItemsOf(x) == IF x \in Logs THEN row[x].of \cap Items ELSE {}

\* One transaction: softDeleteWith, DeleteIncident, DeleteServiceLog.
Deletes(x) ==
    /\ Alive(x)
    /\ Stores(LastSynced(Gone(StatusKept(row, x), x), ItemsOf(x)), Gone(replica, x))
    /\ open' = [open EXCEPT ![x] = @ + 1]
    /\ manual' = manual \ {m \in ItemsOf(x) : Serviced(row', m) # {}}

\* Tables without dependents, and incidents.
Delete(x) ==
    /\ Guards(x) = {}
    /\ Counts
    /\ Deletes(x)
    /\ UNCHANGED <<pending, remotes, loose>>

CheckDelete(p, x) ==
    /\ pending[p] = None
    /\ Counts
    /\ Guards(x) # {}
    /\ Exists(x)
    /\ Deletable(x)
    /\ pending' = [pending EXCEPT ![p] = 
        [act |-> "delete", id |-> x, read |-> row[x], seen |-> DependentsIn(row, x)]]
    /\ UNCHANGED <<row, replica, open, remotes, manual, loose>>

Done(p) == pending' = [pending EXCEPT ![p] = None]

DeleteChecked(p) ==
    /\ pending[p] # None /\ pending[p].act = "delete"
    /\ LET x == pending[p].id IN
        \/ /\ Deletes(x)
           /\ Loosened(IF DependentsIn(row, x) = pending[p].seen THEN {} ELSE {x})
        \/ /\ ~Alive(x)
           /\ UNCHANGED <<row, replica, open, manual, loose>>
    /\ Done(p)
    /\ UNCHANGED <<ops, remotes>>

\* Restore* read the row, deleted or not, and then its parents.
CheckRestore(p, x) ==
    /\ pending[p] = None
    /\ Counts
    /\ Exists(x)
    /\ Restorable(x)
    /\ pending' = [pending EXCEPT ![p] = 
        [act |-> "restore", id |-> x, read |-> row[x], seen |-> {}]]
    /\ UNCHANGED <<row, replica, open, remotes, manual, loose>>

\* RestoreIncident gives back the status it has read.
StatusBack(rows, x, read) ==
    IF x \in Incidents
    THEN [rows EXCEPT ![x].prev = None, ![x].val = IF read.prev = None THEN StatusOpen ELSE read.prev]
    ELSE rows

\* The row may be gone for good by now: its restore is logged all the same.
RestoreChecked(p) ==
    /\ pending[p] # None /\ pending[p].act = "restore"
    /\ LET x    == pending[p].id
           read == pending[p].read
           ms   == IF x \in Logs THEN read.of \cap Items ELSE {}
       IN
        /\ IF Exists(x)
           THEN /\ Stores(LastSynced(Back(StatusBack(row, x, read), x), ms), Back(replica, x))
                /\ manual' = manual \ ms
                /\ Loosened(IF read.gone /\ row[x] = read /\ Restorable(x) THEN {} ELSE {x} \cup ItemsOf(x))
           ELSE /\ Stores(row, Back(replica, x))
                /\ Loosened({x})
                /\ UNCHANGED manual
        /\ open' = [open EXCEPT ![x] = 0]
    /\ Done(p)
    /\ UNCHANGED <<ops, remotes>>

-----------------------------------------------------------------------------
(***************************************************************************)
(* What the commit of an extraction finds or creates by name.  A deleted   *)
(* row of that name is restored with no look at its parents; a live one is *)
(* taken as it is, but for the contact of a vendor.                        *)
(***************************************************************************)
Revives(x, v) ==
    /\ Counts
    /\ Exists(x)
    /\ row[x].gone
    /\ Stores(Put(row, x, [row[x] EXCEPT !.gone = FALSE, !.val = v]), Back(replica, x))
    /\ open' = RecordsClosed({x})
    /\ Loosened(IF Restorable(x) THEN {} ELSE {x})
    /\ UNCHANGED <<pending, remotes, manual>>

CommitVendor(v, c) ==
    \/ CreateVendor(v, c)
    \/ Alive(v) /\ UpdateVendor(v, c)
    \/ Revives(v, c)

CommitAppliance(a) == CreateAppliance(a) \/ Revives(a, None)

\* No date comes with it: what a deleted item said it says again.
CommitMaintenance(m, ps) ==
    \/ CreateMaintenance(m, ps, None)
    \/ Exists(m) /\ Revives(m, row[m].val)

-----------------------------------------------------------------------------
(***************************************************************************)
(* Permanent deletion, of an item with its service log, or an incident.    *)
(***************************************************************************)

\* detachDocumentsAndCleanup, of deleted documents too.
Detached(rows, xs) ==
    [y \in Ids |-> IF y \in Documents /\ rows[y] # None THEN [rows[y] EXCEPT !.of = @ \ xs] ELSE rows[y]]

HardDeletes(xs) ==
    /\ Stores([y \in Ids |-> IF y \in xs THEN None ELSE Detached(row, xs)[y]],
              [y \in Ids |-> IF y \in xs THEN [replica[y] EXCEPT !.gone = TRUE] ELSE replica[y]])
    /\ open' = RecordsClosed(xs)

HardDeleteIncident(i) ==
    /\ Counts
    /\ Exists(i)
    /\ HardDeletes({i})
    /\ UNCHANGED <<pending, remotes, manual, loose>>

\* Its service log goes with it (OnDelete:CASCADE).
HardDeleteMaintenance(m) ==
    /\ Counts
    /\ Exists(m)
    /\ HardDeletes({m} \cup {l \in Logs : Exists(l) /\ m \in row[l].of})
    /\ UNCHANGED <<pending, remotes, manual, loose>>

-----------------------------------------------------------------------------
(***************************************************************************)
(* Operations of other devices: no guard, no status, no deletion record.   *)
(* Foreign keys hold all the same; documents have none.                    *)
(***************************************************************************)
Remote(xs) ==
    /\ remotes < MaxRemote
    /\ remotes' = remotes + 1
    /\ Loosened(xs)
    /\ UNCHANGED <<pending, ops, manual, open>>

RemoteInsert(x, r) ==
    /\ row[x] = None /\ replica[x] = None
    /\ \A e \in r.of : IF x \in Documents THEN replica[e] # None ELSE Exists(e)
    /\ Stores(Put(row, x, r), Put(replica, x, r))
    /\ Remote({x} \cup ((r.of \cap Items)))

RemoteDelete(x) ==
    /\ Exists(x)
    /\ Stores(Gone(row, x), Gone(replica, x))
    /\ Remote({x} \cup ItemsOf(x))

RemoteRestore(x) ==
    /\ Exists(x)
    /\ Stores(Back(row, x), Back(replica, x))
    /\ Remote({x} \cup ItemsOf(x))

-----------------------------------------------------------------------------
(* Operations on the rows of xs. *)

DocumentParents(xs) == OptionalParents(xs \ Documents)

VendorStep(xs) == \E v \in Vendors \cap xs, c \in Contacts : CreateVendor(v, c) \/ UpdateVendor(v, c)

QuoteStep(xs) ==
    \E q \in Quotes \cap xs, p \in Projects \cap xs, v \in Vendors \cap xs, c \in Contacts :
        CreateQuote(q, p, v, c) \/ UpdateQuote(q, p, v, c)

IncidentStep(xs) == \E i \in Incidents \cap xs, ps \in IncidentParents(xs) :
    CreateIncident(i, ps) \/ \E s \in Statuses : UpdateIncident(i, ps, s)

MaintenanceStep(xs) ==
    \E m \in Items \cap xs, ps \in OptionalParents(Appliances \cap xs), last \in Dates \cup {None} :
        CreateMaintenance(m, ps, last) \/ UpdateMaintenance(m, ps, last)

ServiceLogStep(xs) ==
    \E l \in Logs \cap xs, m \in Items \cap xs, vs \in OptionalParents(Vendors \cap xs) :
        \E date \in Dates, c \in Contacts :
            CreateServiceLog(l, m, vs, c, date) \/ UpdateServiceLog(l, m, vs, c, date)

DocumentStep(xs) == \E x \in Documents \cap xs, ps \in DocumentParents(xs) : CreateDocument(x, ps)

CommitStep(xs) ==
    \/ \E v \in Vendors \cap xs, c \in Contacts : CommitVendor(v, c)
    \/ \E a \in Appliances \cap xs : CommitAppliance(a)
    \/ \E m \in Items \cap xs, ps \in OptionalParents(Appliances \cap xs) : CommitMaintenance(m, ps)

DeletionStep(xs) == \E x \in xs :
    \/ Delete(x)
    \/ \E p \in Callers : CheckDelete(p, x) \/ CheckRestore(p, x)

RemoteStep(xs) == \E x \in xs :
    \/ RemoteDelete(x) \/ RemoteRestore(x)
    \/ \E ps \in DocumentParents(xs), v \in Value(x) :
        /\ \/ x \in Documents
           \/ x \in Logs /\ ps # {} /\ ps \subseteq Items
           \/ x \in Items /\ ps \subseteq Appliances
        /\ RemoteInsert(x, New(ps, v))

Step(xs) ==
    \/ VendorStep(xs) \/ QuoteStep(xs) \/ IncidentStep(xs) \/ MaintenanceStep(xs)
    \/ ServiceLogStep(xs) \/ DocumentStep(xs)
    \/ \E x \in Projects \cap xs : CreateProject(x)
    \/ \E x \in Appliances \cap xs : CreateAppliance(x)
    \/ DeletionStep(xs) \/ CommitStep(xs)
    \/ \E p \in Callers : DeleteChecked(p) \/ RestoreChecked(p)
    \/ \E i \in Incidents \cap xs : HardDeleteIncident(i)
    \/ \E m \in Items \cap xs : HardDeleteMaintenance(m)
    \/ RemoteStep(xs)

Next == Step(Ids)
Spec == Init /\ [][Next]_vars

-----------------------------------------------------------------------------
(* Properties *)

\* No sequence of deletions and restores, of vendors brought back by a quote or
\* of cascades, leaves a live row under a deleted parent it guards ("Delete
\* guards", "Restore guards" of data-storage.md), unless a check was stale when
\* it was used, another device acted, the parent was deleted when chosen, or an
\* extraction found the row by its name: that restore has no guard (Revives).
LiveParents == \A e \in Parents \ loose : \A c \in Guards(e) \ loose :
    Alive(c) /\ e \in row[c].of => Alive(e)

\* Nothing refers to a row that is gone for good, deleted documents included.
NoDangling == \A x \in Ids \ loose : Exists(x) => \A e \in row[x].of : Exists(e)

\* Both: whatever was deleted, restored or purged, references lead where they may.
References == LiveParents /\ NoDangling

\* The audit trail: a deleted row has one open deletion record, a live one none.
RecordsMatch == \A x \in Ids \ loose :
    open[x] = IF Exists(x) /\ row[x].gone THEN 1 ELSE 0

\* last_serviced_at is the date of the latest live entry, wherever entries were
\* moved, deleted and restored, until somebody types another date.
LastServiced == \A m \in Items \ (loose \cup manual) :
    Alive(m) /\ Serviced(row, m) # {} => row[m].val = Max(Serviced(row, m))

\* A device that applies the oplog has the same live rows under the same
\* parents, with the same dates and statuses (an incident deleted and restored
\* has its status back); entity links of documents, last_serviced_at and contact
\* fields travel with no operation and are left out.
ReplicaFollows == \A x \in Ids \ loose :
    /\ Alive(x) <=> AliveIn(replica, x)
    /\ Alive(x) =>
        /\ x \notin Documents => row[x].of = replica[x].of
        /\ x \notin Vendors \cup Items => row[x].val = replica[x].val

\* Both traces of a deletion, its record and its operation, tell what was done.
Traces == RecordsMatch /\ ReplicaFollows
=============================================================================
