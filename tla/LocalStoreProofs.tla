-------------------------- MODULE LocalStoreProofs --------------------------
(***************************************************************************)
(* Proofs about LocalStore, for any rows, callers and operations: what     *)
(* refers to what stays alive or at least stored, last_serviced_at follows *)
(* the service log, and a deletion's two traces tell what was done.        *)
(*                                                                         *)
(* StoreInv is inductive. LiveParents is not by itself: a live log keeps   *)
(* its item alive even if the log is loose, since a restored item must     *)
(* not bring back a date that went stale meanwhile (Guarded).  What the    *)
(* replica says of deleted rows has to agree too (Followed), because a     *)
(* restore brings it back, for an incident with the status its row still   *)
(* remembers.                                                              *)
(*                                                                         *)
(* And about Records, for any values typed into any form of any entity:    *)
(* a record stays one of its table's, and an edit keeps the columns that   *)
(* were not typed into. RecordsTypeOK is what the second proof needs: an   *)
(* area is any that a metric form may have rounded, and rounding it again  *)
(* must not move it (AreaRoundTrip).                                       *)
(*                                                                         *)
(* And about Agenda, for any calendar, chores and screen: three rounds of  *)
(* fitting settle the dashboard's window around the cursor's line (FitIs), *)
(* and its first rows are the soonest (CapSliceIs). AgendaInv is inductive.*)
(***************************************************************************)
EXTENDS LocalStore, Records, Agenda, FiniteSetTheorems, SequenceTheorems, WellFoundedInduction, TLAPS

TypeOK ==
    /\ row \in [Ids -> Row \cup {None}] /\ replica \in [Ids -> Row \cup {None}]
    /\ \A x \in Ids : Exists(x) => row[x].val \in Value(x)
    /\ \A x \in Ids : replica[x] # None => replica[x].val \in Value(x)
    /\ open \in [Ids -> Nat]
    /\ pending \in [Callers -> Checked \cup {None}]
    /\ ops \in 0..MaxOps /\ remotes \in 0..MaxRemote
    /\ manual \subseteq Items
    /\ loose \subseteq Ids

\* The tables a row may refer to.
MayRefer(x) ==
    CASE x \in Quotes    -> Projects \cup Vendors
      [] x \in Logs      -> Items \cup Vendors
      [] x \in Incidents -> Appliances \cup Vendors
      [] x \in Items     -> Appliances
      [] x \in Documents -> Ids \ Documents
      [] OTHER           -> {}

Shaped ==
    /\ \A x \in Ids : Exists(x) => row[x].of \subseteq MayRefer(x)
    /\ \A l \in Logs : Exists(l) => \A m, n \in row[l].of \cap Items : m = n

Stored ==
    /\ \A x \in Ids : Exists(x) => replica[x] # None
    /\ \A x \in Vendors : replica[x] # None => Exists(x)
    /\ \A p \in Callers : pending[p] # None => replica[pending[p].id] # None

Awaited ==
    \A p \in Callers : pending[p] # None /\ pending[p].act = "delete" =>
        pending[p].seen = {} /\ Guards(pending[p].id) # {}

Guarded ==
    \A e \in Parents \ loose : \A c \in Guards(e) :
        (c \in Logs \/ c \notin loose) /\ Alive(c) /\ e \in row[c].of => Alive(e)

\* What the row x would say if it were restored: an incident has its status back.
Said(x) == IF x \in Incidents /\ row[x].gone THEN row[x].prev ELSE row[x].val

Followed ==
    \A x \in Ids \ loose :
        /\ Alive(x) <=> AliveIn(replica, x)
        /\ Exists(x) =>
            /\ x \notin Documents => row[x].of = replica[x].of
            /\ x \notin Vendors \cup Items => Said(x) = replica[x].val

StoreInv ==
    /\ TypeOK /\ Shaped /\ Stored /\ Awaited
    /\ Guarded /\ NoDangling /\ LastServiced /\ RecordsMatch /\ Followed

-----------------------------------------------------------------------------
(* Tables, rows and the highest date. *)

LEMMA Apart ==
    /\ Parents \subseteq Ids /\ Logs \subseteq Ids /\ Incidents \subseteq Ids
    /\ Quotes \subseteq Ids /\ Documents \subseteq Ids
    /\ Vendors \subseteq Parents /\ Projects \subseteq Parents
    /\ Appliances \subseteq Parents /\ Items \subseteq Parents
    /\ \A x \in Vendors : x \notin Items \cup Logs \cup Incidents \cup Documents \cup Quotes
    /\ \A x \in Items : x \notin Logs \cup Incidents \cup Documents \cup Quotes
    /\ \A x \in Logs : x \notin Incidents \cup Documents \cup Quotes \cup Parents
    /\ \A x \in Incidents : x \notin Documents \cup Quotes \cup Parents
    /\ \A x \in Documents : x \notin Quotes \cup Parents
BY LocalStoreAssumption DEF Ids, Parents

LEMMA Guarding ==
    ASSUME NEW e \in Ids, NEW c \in Guards(e)
    PROVE  /\ e \in Parents /\ c \in Ids /\ c \notin Documents /\ c \notin Vendors
           /\ c \in Logs <=> e \in Items
BY LocalStoreAssumption DEF Guards, Ids, Parents

LEMMA ItemsGuard == \A e \in Items : Guards(e) = Logs
BY LocalStoreAssumption DEF Guards

LEMMA Referring ==
    ASSUME NEW x \in Ids
    PROVE  /\ MayRefer(x) \subseteq Ids
           /\ x \in Quotes => MayRefer(x) = Projects \cup Vendors
           /\ x \in Logs => MayRefer(x) = Items \cup Vendors
           /\ x \in Incidents => MayRefer(x) = Appliances \cup Vendors
           /\ x \in Items => MayRefer(x) = Appliances
           /\ x \in Documents => MayRefer(x) = Ids \ Documents
           /\ x \notin Documents => MayRefer(x) \subseteq Parents
           /\ x \notin Documents \cup Logs => MayRefer(x) \cap Items = {}
BY LocalStoreAssumption DEF MayRefer, Ids, Parents

LEMMA Valued ==
    ASSUME NEW x \in Ids
    PROVE  /\ Value(x) \subseteq Contacts \cup Statuses \cup Dates \cup {None}
           /\ x \in Vendors => Value(x) = Contacts
           /\ x \in Incidents => Value(x) = Statuses
           /\ x \in Logs => Value(x) = Dates
           /\ x \in Items => Value(x) = Dates \cup {None}
           /\ x \notin Vendors \cup Incidents \cup Logs \cup Items => Value(x) = {None}
BY LocalStoreAssumption DEF Value, Ids, Parents

\* What the fields of a row may be changed to.
LEMMA RowFields ==
    ASSUME NEW r \in Row
    PROVE  /\ r # None
           /\ r.gone \in BOOLEAN /\ r.of \subseteq Ids /\ r.prev \in Statuses \cup {None}
           /\ r.val \in Contacts \cup Statuses \cup Dates \cup {None}
BY LocalStoreAssumption DEF Row

LEMMA RowGone ==
    ASSUME NEW r \in Row, NEW s, s = [r EXCEPT !.gone = TRUE]
    PROVE  s \in Row /\ s.gone /\ s.of = r.of /\ s.val = r.val /\ s.prev = r.prev
BY DEF Row

LEMMA RowBack ==
    ASSUME NEW r \in Row, NEW s, s = [r EXCEPT !.gone = FALSE]
    PROVE  s \in Row /\ ~s.gone /\ s.of = r.of /\ s.val = r.val /\ s.prev = r.prev
BY DEF Row

LEMMA RowGoneAs ==
    ASSUME NEW r \in Row, NEW g \in BOOLEAN, NEW s, s = [r EXCEPT !.gone = g]
    PROVE  s \in Row /\ (s.gone <=> g) /\ s.of = r.of /\ s.val = r.val /\ s.prev = r.prev
BY DEF Row

LEMMA RowVal ==
    ASSUME NEW r \in Row, NEW v \in Contacts \cup Statuses \cup Dates \cup {None},
           NEW s, s = [r EXCEPT !.val = v]
    PROVE  s \in Row /\ s.gone = r.gone /\ s.of = r.of /\ s.val = v /\ s.prev = r.prev
BY DEF Row

LEMMA NewRow ==
    ASSUME NEW ps \in SUBSET Ids, NEW v \in Contacts \cup Statuses \cup Dates \cup {None},
           NEW r, r = New(ps, v)
    PROVE  r \in Row /\ ~r.gone /\ r.of = ps /\ r.val = v /\ r.prev = None
BY DEF New, Row

StoredRows == [Ids -> Row \cup {None}]

\* Every service log entry has a date.
Dated(rows) == \A l \in Logs : rows[l] # None => rows[l].val \in Dates

\* A finite set of logs has a latest date: of the sets of logs that are later
\* than one of them, some is minimal.
LEMMA LatestDate ==
    ASSUME NEW rows \in StoredRows, Dated(rows), NEW m, Serviced(rows, m) # {}
    PROVE  Max(Serviced(rows, m)) \in Dates
<1> DEFINE K == {k \in Logs : AliveIn(rows, k) /\ m \in rows[k].of}
           Later(l) == {k \in K : rows[k].val > rows[l].val}
           T == {Later(l) : l \in K}
           R == StrictSubsetOrdering(K)
<1>1. IsFiniteSet(K) /\ K # {} /\ (\A k \in K : rows[k].val \in Dates)
  <2>1. K \in SUBSET Logs /\ K # {}
    BY DEF Serviced
  <2>2. \A k \in K : rows[k].val \in Dates
    BY DEF Dated, AliveIn
  <2> QED BY <2>1, <2>2, FS_Subset, LocalStoreAssumption
<1>2. Serviced(rows, m) = {rows[k].val : k \in K}
  BY DEF Serviced
<1>3. \A k \in K : rows[k].val \in Nat
  BY <1>1, LocalStoreAssumption
<1> HIDE DEF K
<1>4. IsWellFoundedOn(R, SUBSET K)
  BY <1>1, FS_StrictSubsetOrderingWellFounded, FS_FiniteSubsetsOfFinite
<1>5. \A u, w \in SUBSET K : u \subseteq w /\ u # w => <<u, w>> \in R
  BY DEF StrictSubsetOrdering
<1>6. T \subseteq SUBSET K /\ T # {}
  BY <1>1
<1> HIDE DEF R
<1>7. PICK w \in T : \A u \in T : ~(<<u, w>> \in R)
  BY <1>4, <1>6, WFMin
<1>8. PICK l \in K : w = Later(l)
  BY <1>7
<1>9. \A k \in K : rows[l].val >= rows[k].val
  <2> SUFFICES ASSUME NEW k \in K, rows[k].val > rows[l].val
               PROVE  FALSE
    BY <1>3
  <2>1. Later(k) \subseteq Later(l)
    BY <1>3
  <2>2. k \in Later(l) /\ k \notin Later(k)
    BY <1>3
  <2>3. Later(k) \in T /\ Later(k) \in SUBSET K /\ Later(l) \in SUBSET K
    OBVIOUS
  <2>4. <<Later(k), Later(l)>> \in R
    BY <1>5, <2>1, <2>2, <2>3
  <2> QED BY <1>7, <1>8, <2>3, <2>4
<1>10. \E x \in Serviced(rows, m) : \A y \in Serviced(rows, m) : x >= y
  BY <1>2, <1>9
<1>11. Max(Serviced(rows, m)) \in Serviced(rows, m)
  BY <1>10 DEF Max
<1> QED BY <1>1, <1>2, <1>11

-----------------------------------------------------------------------------
(* What the helpers make of the rows. *)

\* syncLastServiced changes a date of items, and leaves the service log alone.
LEMMA SyncedRows ==
    ASSUME NEW rows \in StoredRows, Dated(rows), NEW ms \in SUBSET Items, NEW new,
           new = LastSynced(rows, ms)
    PROVE  /\ new \in StoredRows
           /\ \A y \in Ids :
                /\ new[y] = None <=> rows[y] = None
                /\ rows[y] # None =>
                      new[y].gone = rows[y].gone /\ new[y].of = rows[y].of /\ new[y].prev = rows[y].prev
                /\ y \notin ms => new[y] = rows[y]
                /\ y \in ms /\ rows[y] # None => new[y].val \in {rows[y].val} \cup Dates
           /\ \A m \in Ids : Serviced(new, m) = Serviced(rows, m)
           /\ \A m \in ms : AliveIn(new, m) /\ Serviced(new, m) # {} => new[m].val = Max(Serviced(new, m))
<1> DEFINE Syncs(y) == y \in ms /\ AliveIn(rows, y) /\ Serviced(rows, y) # {}
<1>1. \A y \in Ids : /\ Syncs(y) => new[y] = [rows[y] EXCEPT !.val = Max(Serviced(rows, y))]
                     /\ ~Syncs(y) => new[y] = rows[y]
  BY DEF LastSynced
<1>2. ASSUME NEW y \in Ids, Syncs(y)
      PROVE  /\ new[y] \in Row /\ rows[y] \in Row /\ new[y] # None /\ rows[y] # None
             /\ new[y].gone = rows[y].gone /\ new[y].of = rows[y].of /\ new[y].prev = rows[y].prev
             /\ new[y].val = Max(Serviced(rows, y)) /\ new[y].val \in Dates
  <2>1. rows[y] \in Row
    BY <1>2 DEF AliveIn, StoredRows
  <2>2. PICK v : v = Max(Serviced(rows, y))
    OBVIOUS
  <2>3. v \in Dates
    BY <1>2, <2>2, LatestDate
  <2>4. new[y] = [rows[y] EXCEPT !.val = v]
    BY <1>1, <1>2, <2>2
  <2>5. new[y] \in Row /\ new[y].gone = rows[y].gone /\ new[y].of = rows[y].of
        /\ new[y].val = v /\ new[y].prev = rows[y].prev
    BY <2>1, <2>3, <2>4, RowVal
  <2> QED BY <2>1, <2>2, <2>3, <2>5, RowFields
<1>3. new \in StoredRows
  <2>1. new = [x \in Ids |-> new[x]]
    BY DEF LastSynced
  <2>2. \A y \in Ids : new[y] \in Row \cup {None}
    BY <1>1, <1>2 DEF StoredRows
  <2> QED BY <2>1, <2>2 DEF StoredRows
<1> HIDE DEF Syncs
<1>4. \A y \in Ids :
                /\ new[y] = None <=> rows[y] = None
                /\ rows[y] # None =>
                      new[y].gone = rows[y].gone /\ new[y].of = rows[y].of /\ new[y].prev = rows[y].prev
                /\ y \in ms /\ rows[y] # None => new[y].val \in {rows[y].val} \cup Dates
  BY <1>1, <1>2
<1>5. \A y \in Ids : y \notin ms => new[y] = rows[y]
  BY <1>1 DEF Syncs
<1>6. \A m \in Ids : Serviced(new, m) = Serviced(rows, m)
  <2>1. \A k \in Logs : k \in Ids /\ k \notin ms
    BY Apart
  <2>2. \A k \in Logs : new[k] = rows[k]
    BY <1>5, <2>1
  <2> QED BY <2>2 DEF Serviced, AliveIn
<1>7. ASSUME NEW m \in ms, AliveIn(new, m), Serviced(new, m) # {}
      PROVE  new[m].val = Max(Serviced(new, m))
  <2>1. m \in Ids
    BY Apart
  <2>2. Serviced(new, m) = Serviced(rows, m)
    BY <1>6, <2>1
  <2>3. AliveIn(rows, m)
    BY <1>4, <1>7, <2>1 DEF AliveIn
  <2>4. Syncs(m)
    BY <1>7, <2>2, <2>3 DEF Syncs
  <2> QED BY <1>2, <2>1, <2>2, <2>4
<1> QED BY <1>3, <1>4, <1>5, <1>6, <1>7

LEMMA OneVendor ==
    ASSUME NEW vs \in OptionalParents(Vendors)
    PROVE  vs \subseteq Vendors /\ (vs # {} => vs = {CHOOSE v \in vs : TRUE})
<1>1. CASE vs = {}
  BY <1>1
<1>2. CASE \E v \in Vendors : vs = {v}
  <2>1. PICK v \in Vendors : vs = {v}
    BY <1>2
  <2>2. (CHOOSE w \in vs : TRUE) = v
    BY <2>1
  <2> QED BY <2>1, <2>2
<1> QED BY <1>1, <1>2 DEF OptionalParents

\* findOrCreateVendor: the vendor is there and alive, with these contact fields.
LEMMA FoundRows ==
    ASSUME NEW rows \in StoredRows, NEW vs \in OptionalParents(Vendors), NEW c \in Contacts, NEW new,
           new = Found(rows, vs, c)
    PROVE  /\ new \in StoredRows
           /\ \A y \in Ids : y \notin vs => new[y] = rows[y]
           /\ \A v \in vs :
                /\ new[v] \in Row /\ new[v] # None /\ ~new[v].gone /\ new[v].val = c
                /\ new[v].of = IF rows[v] = None THEN {} ELSE rows[v].of
<1>1. CASE vs = {}
  BY <1>1 DEF Found
<1>2. CASE vs # {}
  <2>1. PICK v \in Vendors : v = (CHOOSE w \in vs : TRUE) /\ vs = {v}
    BY <1>2, OneVendor
  <2>2. new = [rows EXCEPT ![v] = IF rows[v] = None THEN New({}, c)
                                  ELSE [rows[v] EXCEPT !.gone = FALSE, !.val = c]]
    BY <1>2, <2>1 DEF Found, WithVendor
  <2>3. PICK s : s = IF rows[v] = None THEN New({}, c)
                     ELSE [rows[v] EXCEPT !.gone = FALSE, !.val = c]
    OBVIOUS
  <2>4. v \in Ids
    BY Apart
  <2>5. /\ s \in Row /\ ~s.gone /\ s.val = c
        /\ s.of = IF rows[v] = None THEN {} ELSE rows[v].of
    <3>1. CASE rows[v] = None
      BY <2>3, <3>1 DEF New, Row
    <3>2. CASE rows[v] # None
      <4>1. rows[v] \in Row
        BY <2>4, <3>2 DEF StoredRows
      <4>2. s = [rows[v] EXCEPT !.gone = FALSE, !.val = c]
        BY <2>3, <3>2
      <4>3. s \in Row /\ ~s.gone /\ s.val = c /\ s.of = rows[v].of
        BY <4>1, <4>2 DEF Row
      <4> QED BY <3>2, <4>3
    <3> QED BY <3>1, <3>2
  <2>6. new = [rows EXCEPT ![v] = s]
    BY <2>2, <2>3
  <2>7. new \in StoredRows /\ new[v] = s /\ (\A y \in Ids : y # v => new[y] = rows[y])
    BY <2>4, <2>5, <2>6 DEF StoredRows
  <2> QED BY <2>1, <2>5, <2>7, RowFields
<1> QED BY <1>1, <1>2

\* What the oplog tells of that vendor.
LEMMA FoundToldRows ==
    ASSUME NEW reps \in StoredRows, NEW vs \in OptionalParents(Vendors), NEW c \in Contacts, NEW new,
           new = FoundTold(reps, vs, c),
           \A v \in vs : reps[v] # None <=> Exists(v)
    PROVE  /\ new \in StoredRows
           /\ \A y \in Ids : y \notin vs => new[y] = reps[y]
           /\ \A v \in vs :
                /\ new[v] \in Row /\ new[v] # None
                /\ ~(Exists(v) /\ ~row[v].gone /\ reps[v].gone) => ~new[v].gone
                /\ new[v].of = IF reps[v] = None THEN {} ELSE reps[v].of
                /\ new[v].val \in {c, reps[v].val}
                /\ reps[v] = None => new[v].val = c
<1>1. CASE vs = {}
  BY <1>1 DEF FoundTold
<1>2. CASE vs # {}
  <2>1. PICK v \in Vendors : v = (CHOOSE w \in vs : TRUE) /\ vs = {v}
    BY <1>2, OneVendor
  <2>2. PICK s : s = IF Exists(v) /\ row[v].gone THEN [reps[v] EXCEPT !.gone = FALSE]
                     ELSE IF reps[v] = None THEN New({}, c) ELSE [reps[v] EXCEPT !.val = c]
    OBVIOUS
  <2>3. new = [reps EXCEPT ![v] = s]
    BY <1>2, <2>1, <2>2 DEF FoundTold, VendorTold
  <2>4. v \in Ids /\ (reps[v] # None => reps[v] \in Row)
    BY Apart DEF StoredRows
  <2>5. /\ s \in Row
        /\ ~(Exists(v) /\ ~row[v].gone /\ reps[v].gone) => ~s.gone
        /\ s.of = IF reps[v] = None THEN {} ELSE reps[v].of
        /\ s.val \in {c, reps[v].val}
        /\ reps[v] = None => s.val = c
    <3>1. CASE Exists(v) /\ row[v].gone
      <4>1. reps[v] # None /\ reps[v] \in Row /\ s = [reps[v] EXCEPT !.gone = FALSE]
        BY <2>1, <2>2, <2>4, <3>1
      <4>2. s \in Row /\ ~s.gone /\ s.of = reps[v].of /\ s.val = reps[v].val
        BY <4>1, RowBack
      <4> QED BY <4>1, <4>2
    <3>2. CASE ~(Exists(v) /\ row[v].gone) /\ reps[v] = None
      BY <2>2, <3>2, NewRow
    <3>3. CASE ~(Exists(v) /\ row[v].gone) /\ reps[v] # None
      <4>1. Exists(v) /\ ~row[v].gone /\ reps[v] \in Row /\ s = [reps[v] EXCEPT !.val = c]
        BY <2>1, <2>2, <2>4, <3>3
      <4>2. s \in Row /\ s.gone = reps[v].gone /\ s.of = reps[v].of /\ s.val = c
        BY <4>1, RowVal
      <4> QED BY <3>3, <4>1, <4>2
    <3> QED BY <3>1, <3>2, <3>3
  <2>6. new \in StoredRows /\ new[v] = s /\ (\A y \in Ids : y # v => new[y] = reps[y])
    BY <2>3, <2>4, <2>5 DEF StoredRows
  <2> QED BY <2>1, <2>5, <2>6, RowFields
<1> QED BY <1>1, <1>2

-----------------------------------------------------------------------------
(***************************************************************************)
(* Steps that write a row.  The row x becomes s, which is r unless x was   *)
(* deleted meanwhile; the oplog carries r.  The vendor of vs is found or   *)
(* created with it, and the items of ms are dated anew.                    *)
(***************************************************************************)

\* What a step does to the callers and to the counters.
Attended ==
    /\ ops' \in 0..MaxOps /\ remotes' \in 0..MaxRemote
    /\ manual' \subseteq Items
    /\ pending' \in [Callers -> Checked \cup {None}]
    /\ \A p \in Callers : pending'[p] # None => pending'[p] = pending[p]

Written(x, r, s, vs, c, ms, ls) ==
    /\ row' = LastSynced(Put(Found(row, vs, c), x, s), ms)
    /\ replica' = Told(FoundTold(replica, vs, c), x, r)
    /\ open' = RecordsClosed(Revived(vs))
    /\ loose' = loose \cup ls
    /\ manual \ ms \subseteq manual'
    /\ Attended

\* What may be written, and for which items and rows nothing is answered for.
Writable(x, r, s, vs, ms, ls) ==
    /\ x \notin vs /\ x \notin ms
    /\ ~r.gone /\ r.of \subseteq MayRefer(x) /\ r.val \in Value(x)
    /\ \/ s = r /\ row[x] = None /\ replica[x] = None
       \/ s = r /\ Alive(x)
       \/ s = row[x] /\ Exists(x) /\ row[x].gone /\ x \in ls /\ x \notin Logs
    /\ x \in ls \/ \A e \in r.of : Exists(e) \/ e \in vs
    /\ x \in Logs => /\ \A m, n \in r.of \cap Items : m = n
                     /\ r.of \cap Items \subseteq ms \cup ls
                     /\ Exists(x) => row[x].of \cap Items \subseteq ms \cup ls
    /\ x \in Items => x \in manual' \cup ls
    /\ \A e \in r.of \ (loose \cup ls) :
        x \in Logs \/ x \notin ls => Alive(e) \/ e \in vs \/ (Alive(x) /\ e \in row[x].of)

\* The rows after such a step.
RowsWritten(x, s, vs, c, ms) ==
    /\ row' \in StoredRows
    /\ row'[x] = s
    /\ \A y \in Ids : y \in vs =>
        row'[y] \in Row /\ ~row'[y].gone /\ row'[y].of = {} /\ row'[y].val = c
    /\ \A y \in Ids : y \notin vs /\ y # x =>
        /\ row'[y] = None <=> row[y] = None
        /\ row[y] # None =>
              row'[y].gone = row[y].gone /\ row'[y].of = row[y].of /\ row'[y].prev = row[y].prev
        /\ y \notin ms => row'[y] = row[y]
        /\ y \in ms /\ row[y] # None => row'[y].val \in {row[y].val} \cup Dates
    /\ \A m \in ms : Alive(m)' /\ Serviced(row', m) # {} => row'[m].val = Max(Serviced(row', m))

LEMMA WrittenRows ==
    ASSUME TypeOK, Shaped, NEW x \in Ids, NEW r \in Row, NEW s \in Row,
           NEW vs \in OptionalParents(Vendors), NEW c \in Contacts,
           NEW ms \in SUBSET Items, NEW ls \in SUBSET Ids,
           Written(x, r, s, vs, c, ms, ls), Writable(x, r, s, vs, ms, ls)
    PROVE  RowsWritten(x, s, vs, c, ms)
<1>1. row \in StoredRows
  BY DEF TypeOK, StoredRows
<1>2. PICK f : f = Found(row, vs, c)
  OBVIOUS
<1>3. /\ f \in StoredRows
      /\ \A y \in Ids : y \notin vs => f[y] = row[y]
      /\ \A v \in vs : /\ f[v] \in Row /\ f[v] # None /\ ~f[v].gone /\ f[v].val = c
                       /\ f[v].of = IF row[v] = None THEN {} ELSE row[v].of
  BY <1>1, <1>2, FoundRows
<1>4. PICK g : g = Put(f, x, s)
  OBVIOUS
<1>5. g \in StoredRows /\ g[x] = s /\ \A y \in Ids : y # x => g[y] = f[y]
  BY <1>3, <1>4 DEF Put, StoredRows
<1>6. x \notin vs /\ x \notin ms /\ vs \subseteq Vendors
  BY OneVendor DEF Writable
<1>7. x \in Logs => s.val \in Dates
  BY Valued DEF Writable
<1>8. Dated(g)
  <2> SUFFICES ASSUME NEW l \in Logs, g[l] # None
               PROVE  g[l].val \in Dates
    BY DEF Dated
  <2>1. l \in Ids /\ l \notin vs
    BY <1>6, Apart
  <2>2. CASE l = x
    BY <1>5, <1>7, <2>2
  <2>3. CASE l # x
    BY <1>3, <1>5, <2>1, <2>3, Valued DEF TypeOK, Exists
  <2> QED BY <2>2, <2>3
<1>9. row' = LastSynced(g, ms)
  BY <1>2, <1>4 DEF Written
<1>10. /\ row' \in StoredRows
       /\ \A y \in Ids :
            /\ row'[y] = None <=> g[y] = None
            /\ g[y] # None => row'[y].gone = g[y].gone /\ row'[y].of = g[y].of /\ row'[y].prev = g[y].prev
            /\ y \notin ms => row'[y] = g[y]
            /\ y \in ms /\ g[y] # None => row'[y].val \in {g[y].val} \cup Dates
       /\ \A m \in ms : AliveIn(row', m) /\ Serviced(row', m) # {} => row'[m].val = Max(Serviced(row', m))
  BY <1>5, <1>8, <1>9, SyncedRows
<1>11. ASSUME NEW y \in Ids, y \in vs
       PROVE  row'[y] \in Row /\ ~row'[y].gone /\ row'[y].of = {} /\ row'[y].val = c
  <2>1. y \in Vendors /\ y \notin ms /\ y # x
    BY <1>6, <1>11, Apart
  <2>2. row[y] # None => row[y].of = {}
    BY <2>1, LocalStoreAssumption DEF Shaped, MayRefer, Exists
  <2> QED BY <1>3, <1>5, <1>10, <1>11, <2>1, <2>2
<1>12. ASSUME NEW y \in Ids, y \notin vs, y # x
       PROVE  g[y] = row[y]
  BY <1>3, <1>5, <1>12
<1> QED BY <1>5, <1>6, <1>10, <1>11, <1>12 DEF Alive, RowsWritten

\* The replica after it.
ReplicaWritten(x, r, vs, c) ==
    /\ replica' \in StoredRows
    /\ replica'[x] \in Row /\ replica'[x] # None
    /\ replica'[x].of = r.of /\ replica'[x].val = r.val
    /\ replica'[x].gone => replica[x] # None /\ replica[x].gone
    /\ \A y \in Ids : y \in vs =>
        /\ replica'[y] \in Row /\ replica'[y] # None
        /\ ~(Exists(y) /\ ~row[y].gone /\ replica[y].gone) => ~replica'[y].gone
        /\ replica'[y].of = IF replica[y] = None THEN {} ELSE replica[y].of
        /\ replica'[y].val \in {c, replica[y].val}
        /\ replica[y] = None => replica'[y].val = c
    /\ \A y \in Ids : y \notin vs /\ y # x => replica'[y] = replica[y]

LEMMA WrittenReplica ==
    ASSUME TypeOK, Shaped, Stored, NEW x \in Ids, NEW r \in Row, NEW s \in Row,
           NEW vs \in OptionalParents(Vendors), NEW c \in Contacts,
           NEW ms \in SUBSET Items, NEW ls \in SUBSET Ids,
           Written(x, r, s, vs, c, ms, ls), Writable(x, r, s, vs, ms, ls)
    PROVE  ReplicaWritten(x, r, vs, c)
<1>1. replica \in StoredRows
  BY DEF TypeOK, StoredRows
<1>2. x \notin vs /\ vs \subseteq Vendors /\ ~r.gone
  BY OneVendor DEF Writable
<1>3. \A v \in vs : replica[v] # None <=> Exists(v)
  BY <1>2, Apart DEF Stored
<1>4. PICK f : f = FoundTold(replica, vs, c)
  OBVIOUS
<1>5. /\ f \in StoredRows
      /\ \A y \in Ids : y \notin vs => f[y] = replica[y]
      /\ \A v \in vs :
           /\ f[v] \in Row /\ f[v] # None
           /\ ~(Exists(v) /\ ~row[v].gone /\ replica[v].gone) => ~f[v].gone
           /\ f[v].of = IF replica[v] = None THEN {} ELSE replica[v].of
           /\ f[v].val \in {c, replica[v].val}
           /\ replica[v] = None => f[v].val = c
  BY <1>1, <1>3, <1>4, FoundToldRows
<1>6. PICK t : t = IF f[x] = None THEN r ELSE [r EXCEPT !.gone = f[x].gone]
  OBVIOUS
<1>7. replica' = [f EXCEPT ![x] = t]
  BY <1>4, <1>6 DEF Written, Told
<1>8. f[x] = replica[x]
  BY <1>2, <1>5
<1>9. t \in Row /\ t.of = r.of /\ t.val = r.val /\ (t.gone => replica[x] # None /\ replica[x].gone)
  <2>1. CASE f[x] = None
    BY <1>2, <1>6, <2>1
  <2>2. CASE f[x] # None
    <3>1. f[x] \in Row
      BY <1>5, <2>2 DEF StoredRows
    <3>2. PICK g \in BOOLEAN : g = f[x].gone
      BY <3>1, RowFields
    <3>3. t = [r EXCEPT !.gone = g]
      BY <1>6, <2>2, <3>2
    <3> QED BY <1>8, <2>2, <3>2, <3>3, RowGoneAs
  <2> QED BY <2>1, <2>2
<1>10. replica' \in StoredRows /\ replica'[x] = t /\ (\A y \in Ids : y # x => replica'[y] = f[y])
  BY <1>5, <1>7, <1>9 DEF StoredRows
<1> QED BY <1>2, <1>5, <1>9, <1>10, RowFields DEF ReplicaWritten

\* Such a step keeps the invariant.
LEMMA WritesKeep ==
    ASSUME StoreInv, NEW x \in Ids, NEW r \in Row, NEW s \in Row,
           NEW vs \in OptionalParents(Vendors), NEW c \in Contacts,
           NEW ms \in SUBSET Items, NEW ls \in SUBSET Ids,
           Written(x, r, s, vs, c, ms, ls), Writable(x, r, s, vs, ms, ls)
    PROVE  StoreInv'
<1> DEFINE Same(y) ==
        /\ row'[y] = None <=> row[y] = None
        /\ row[y] # None =>
              row'[y].gone = row[y].gone /\ row'[y].of = row[y].of /\ row'[y].prev = row[y].prev
        /\ y \notin ms => row'[y] = row[y]
        /\ y \in ms /\ row[y] # None => row'[y].val \in {row[y].val} \cup Dates
<1>0. /\ TypeOK /\ Shaped /\ Stored /\ Awaited
      /\ Guarded /\ NoDangling /\ LastServiced /\ RecordsMatch /\ Followed
  BY DEF StoreInv
<1>a. RowsWritten(x, s, vs, c, ms)
  BY <1>0, WrittenRows
<1>b. ReplicaWritten(x, r, vs, c)
  BY <1>0, WrittenReplica
<1>1. /\ row' \in StoredRows
      /\ row'[x] = s
      /\ \A y \in Ids : y \in vs =>
           row'[y] \in Row /\ ~row'[y].gone /\ row'[y].of = {} /\ row'[y].val = c
      /\ \A y \in Ids : y \notin vs /\ y # x => Same(y)
      /\ \A m \in ms : Alive(m)' /\ Serviced(row', m) # {} => row'[m].val = Max(Serviced(row', m))
  BY <1>a DEF RowsWritten
<1>2. ASSUME NEW y \in Ids, y \notin vs, y # x
      PROVE  Same(y)
  BY <1>1, <1>2
<1>3. /\ replica' \in StoredRows
      /\ replica'[x] \in Row /\ replica'[x] # None
      /\ replica'[x].of = r.of /\ replica'[x].val = r.val
      /\ replica'[x].gone => replica[x] # None /\ replica[x].gone
      /\ \A y \in Ids : y \in vs =>
                /\ replica'[y] \in Row /\ replica'[y] # None
                /\ ~(Exists(y) /\ ~row[y].gone /\ replica[y].gone) => ~replica'[y].gone
                /\ replica'[y].of = IF replica[y] = None THEN {} ELSE replica[y].of
                /\ replica'[y].val \in {c, replica[y].val}
                /\ replica[y] = None => replica'[y].val = c
      /\ \A y \in Ids : y \notin vs /\ y # x => replica'[y] = replica[y]
  BY <1>b DEF ReplicaWritten
<1>4. /\ x \notin vs /\ x \notin ms /\ vs \subseteq Vendors
      /\ ~r.gone /\ r.of \subseteq MayRefer(x) /\ r.val \in Value(x)
  BY OneVendor DEF Writable
<1>5. /\ open' = RecordsClosed(Revived(vs)) /\ loose' = loose \cup ls
      /\ manual \ ms \subseteq manual' /\ Attended
  BY DEF Written
<1>6. \/ s = r /\ row[x] = None /\ replica[x] = None
      \/ s = r /\ Alive(x)
      \/ s = row[x] /\ Exists(x) /\ row[x].gone /\ x \in ls /\ x \notin Logs
  BY DEF Writable
<1>7. s # None /\ r # None
  BY RowFields
<1>8. Exists(x)' /\ (\A y \in Ids : Exists(y)' <=> Exists(y) \/ y \in vs \/ y = x)
  BY <1>1, <1>2, <1>7, RowFields DEF Exists
<1>9. \A y \in Ids : y # x \/ x \notin ls => (Alive(y)' <=> Alive(y) \/ y \in vs \/ y = x)
  <2> SUFFICES ASSUME NEW y \in Ids, y # x \/ x \notin ls
               PROVE  Alive(y)' <=> Alive(y) \/ y \in vs \/ y = x
    OBVIOUS
  <2>1. CASE y = x
    BY <1>1, <1>4, <1>6, <1>7, <2>1 DEF Alive, AliveIn
  <2>2. CASE y \in vs
    BY <1>1, <2>2, RowFields DEF Alive, AliveIn
  <2>3. CASE y # x /\ y \notin vs
    BY <1>2, <2>3 DEF Alive, AliveIn
  <2> QED BY <2>1, <2>2, <2>3
<1>10. TypeOK'
  <2>1. row' \in [Ids -> Row \cup {None}] /\ replica' \in [Ids -> Row \cup {None}]
    BY <1>1, <1>3 DEF StoredRows
  <2>2. \A y \in Ids : Exists(y)' => row'[y].val \in Value(y)
    <3> SUFFICES ASSUME NEW y \in Ids, Exists(y)'
                 PROVE  row'[y].val \in Value(y)
      OBVIOUS
    <3>1. CASE y = x
      BY <1>0, <1>1, <1>4, <1>6, <3>1 DEF TypeOK
    <3>2. CASE y \in vs
      BY <1>1, <1>4, <3>2, Valued
    <3>3. CASE y # x /\ y \notin vs
      <4>1. Exists(y) /\ row[y].val \in Value(y)
        BY <1>0, <1>8, <3>3 DEF TypeOK
      <4>2. y \in ms => y \in Items
        OBVIOUS
      <4> QED BY <1>2, <3>3, <4>1, <4>2, Valued DEF Exists
    <3> QED BY <3>1, <3>2, <3>3
  <2>3. \A y \in Ids : replica'[y] # None => replica'[y].val \in Value(y)
    <3> SUFFICES ASSUME NEW y \in Ids, replica'[y] # None
                 PROVE  replica'[y].val \in Value(y)
      OBVIOUS
    <3>1. CASE y = x
      BY <1>3, <1>4, <3>1
    <3>2. CASE y \in vs
      BY <1>0, <1>3, <1>4, <3>2, Valued DEF TypeOK
    <3>3. CASE y # x /\ y \notin vs
      BY <1>0, <1>3, <3>3 DEF TypeOK
    <3> QED BY <3>1, <3>2, <3>3
  <2>4. open' \in [Ids -> Nat]
    BY <1>0, <1>5 DEF RecordsClosed, TypeOK
  <2>5. loose' \subseteq Ids
    BY <1>0, <1>5 DEF TypeOK
  <2> QED BY <1>5, <2>1, <2>2, <2>3, <2>4, <2>5 DEF TypeOK, Attended
<1>11. Shaped'
  <2>1. ASSUME NEW y \in Ids, Exists(y)'
        PROVE  row'[y].of \subseteq MayRefer(y)
    <3>1. CASE y = x
      BY <1>0, <1>1, <1>4, <1>6, <3>1 DEF Shaped
    <3>2. CASE y \in vs
      BY <1>1, <3>2
    <3>3. CASE y # x /\ y \notin vs
      <4>1. Exists(y) /\ Same(y)
        BY <1>2, <1>8, <2>1, <3>3
      <4> QED BY <1>0, <4>1 DEF Shaped, Exists
    <3> QED BY <3>1, <3>2, <3>3
  <2>2. ASSUME NEW l \in Logs, Exists(l)', NEW m \in row'[l].of \cap Items, NEW n \in row'[l].of \cap Items
        PROVE  m = n
    <3>1. l \in Ids /\ l \notin vs
      BY <1>4, Apart
    <3>2. CASE l = x
      BY <1>1, <1>6, <2>2, <3>2 DEF Writable
    <3>3. CASE l # x
      BY <1>0, <1>2, <1>8, <2>2, <3>1, <3>3 DEF Shaped, Exists
    <3> QED BY <3>2, <3>3
  <2> QED BY <2>1, <2>2 DEF Shaped
<1>12. Stored'
  <2>1. ASSUME NEW y \in Ids, Exists(y)'
        PROVE  replica'[y] # None
    BY <1>0, <1>3, <1>8, <2>1 DEF Stored
  <2>2. ASSUME NEW y \in Vendors, replica'[y] # None
        PROVE  Exists(y)'
    BY <1>0, <1>3, <1>8, <2>2, Apart DEF Stored
  <2>3. ASSUME NEW p \in Callers, pending'[p] # None
        PROVE  replica'[pending'[p].id] # None
    <3>1. pending'[p] = pending[p] /\ pending[p] \in Checked
      BY <1>0, <1>5, <2>3 DEF Attended, TypeOK
    <3>2. pending[p].id \in Ids /\ replica[pending[p].id] # None
      BY <1>0, <2>3, <3>1 DEF Stored, Checked
    <3> QED BY <1>3, <3>1, <3>2
  <2> QED BY <2>1, <2>2, <2>3 DEF Stored
<1>13. Awaited'
  BY <1>0, <1>5 DEF Awaited, Attended
<1>14. Guarded'
  <2> SUFFICES ASSUME NEW e \in Parents, e \notin loose', NEW k \in Guards(e),
                      k \in Logs \/ k \notin loose', Alive(k)', e \in row'[k].of
               PROVE  Alive(e)'
    BY DEF Guarded
  <2>1. e \in Ids /\ e \notin loose /\ e \notin ls
    BY <1>5, Apart
  <2>2. k \in Ids /\ k \notin Vendors
    BY <2>1, Guarding
  <2>3. Alive(e) \/ e \in vs \/ e = x => Alive(e)'
    BY <1>9, <2>1
  <2>4. CASE Alive(k) /\ e \in row[k].of
    BY <1>0, <1>5, <2>3, <2>4 DEF Guarded
  <2>5. CASE k # x
    BY <1>2, <1>4, <1>9, <2>2, <2>4, <2>5 DEF Alive, AliveIn
  <2>6. CASE k = x /\ ~(Alive(k) /\ e \in row[k].of)
    <3>1. s = r
      BY <1>1, <1>6, <2>6 DEF Alive, AliveIn
    <3>2. Alive(e) \/ e \in vs
      BY <1>1, <1>5, <2>1, <2>6, <3>1 DEF Writable
    <3> QED BY <2>3, <3>2
  <2> QED BY <2>4, <2>5, <2>6
<1>15. NoDangling'
  <2> SUFFICES ASSUME NEW y \in Ids, y \notin loose', Exists(y)', NEW e \in row'[y].of
               PROVE  Exists(e)'
    BY DEF NoDangling
  <2>1. e \in Ids
    BY <1>11, Referring DEF Shaped
  <2>2. CASE y = x
    BY <1>1, <1>5, <1>6, <1>8, <2>1, <2>2 DEF Writable
  <2>3. CASE y \in vs
    BY <1>1, <2>3
  <2>4. CASE y # x /\ y \notin vs
    BY <1>0, <1>2, <1>5, <1>8, <2>1, <2>4 DEF NoDangling, Exists
  <2> QED BY <2>2, <2>3, <2>4
<1>16. RecordsMatch'
  <2> SUFFICES ASSUME NEW y \in Ids, y \notin loose'
               PROVE  open'[y] = IF Exists(y)' /\ row'[y].gone THEN 1 ELSE 0
    BY DEF RecordsMatch
  <2>1. y \notin loose /\ y \notin ls /\ open[y] = IF Exists(y) /\ row[y].gone THEN 1 ELSE 0
    BY <1>0, <1>5 DEF RecordsMatch
  <2>2. open'[y] = IF y \in Revived(vs) THEN 0 ELSE open[y]
    BY <1>5 DEF RecordsClosed
  <2>3. y \in Revived(vs) <=> y \in vs /\ Exists(y) /\ row[y].gone
    BY DEF Revived
  <2>4. CASE y = x
    BY <1>1, <1>4, <1>6, <2>1, <2>2, <2>3, <2>4 DEF Exists, Alive, AliveIn
  <2>5. CASE y \in vs
    BY <1>1, <2>1, <2>2, <2>3, <2>5
  <2>6. CASE y # x /\ y \notin vs
    BY <1>2, <2>1, <2>2, <2>3, <2>6 DEF Exists
  <2> QED BY <2>4, <2>5, <2>6
<1>17. Followed'
  <2> SUFFICES ASSUME NEW y \in Ids, y \notin loose'
               PROVE  /\ Alive(y)' <=> AliveIn(replica', y)
                      /\ Exists(y)' =>
                            /\ y \notin Documents => row'[y].of = replica'[y].of
                            /\ y \notin Vendors \cup Items => Said(y)' = replica'[y].val
    BY DEF Followed
  <2>1. /\ y \notin loose /\ y \notin ls
        /\ Alive(y) <=> AliveIn(replica, y)
        /\ Exists(y) =>
              /\ y \notin Documents => row[y].of = replica[y].of
              /\ y \notin Vendors \cup Items => Said(y) = replica[y].val
    BY <1>0, <1>5 DEF Followed
  <2>2. CASE y = x
    <3>1. s = r /\ Alive(y)' /\ row'[y] = r /\ ~row'[y].gone
      BY <1>1, <1>4, <1>6, <1>9, <2>1, <2>2
    <3>2. AliveIn(replica', y)
      BY <1>3, <1>6, <2>1, <2>2 DEF Alive, AliveIn
    <3>3. Said(y)' = r.val
      BY <3>1 DEF Said
    <3> QED BY <1>3, <2>2, <3>1, <3>2, <3>3
  <2>3. CASE y \in vs
    <3>1. y \in Vendors /\ (Exists(y) <=> replica[y] # None)
      BY <1>0, <1>4, <2>3, Apart DEF Stored
    <3>2. Alive(y)' /\ row'[y].of = {}
      BY <1>1, <1>8, <2>3 DEF Alive, AliveIn, Exists
    <3>3. AliveIn(replica', y)
      BY <1>3, <2>1, <2>3 DEF Alive, AliveIn, Exists
    <3>4. Exists(y) => row[y].of = {}
      BY <1>0, <3>1, LocalStoreAssumption DEF Shaped, MayRefer
    <3>5. replica'[y].of = {}
      BY <1>3, <2>1, <2>3, <3>1, <3>4, Apart
    <3> QED BY <3>1, <3>2, <3>3, <3>5
  <2>4. CASE y # x /\ y \notin vs
    <3>1. Same(y) /\ replica'[y] = replica[y] /\ (Exists(y)' <=> Exists(y)) /\ (Alive(y)' <=> Alive(y))
      BY <1>2, <1>3, <1>8, <1>9, <2>4
    <3>2. AliveIn(replica', y) <=> AliveIn(replica, y)
      BY <3>1 DEF AliveIn
    <3>3. y \notin Items => Said(y)' = Said(y)
      BY <3>1 DEF Said
    <3> QED BY <2>1, <3>1, <3>2, <3>3 DEF Exists
  <2> QED BY <2>2, <2>3, <2>4
<1>18. LastServiced'
  <2> SUFFICES ASSUME NEW m \in Items, m \notin loose', m \notin manual', Alive(m)', Serviced(row', m) # {}
               PROVE  row'[m].val = Max(Serviced(row', m))
    BY DEF LastServiced
  <2>1. CASE m \in ms
    BY <1>1, <2>1
  <2>2. CASE m \notin ms
    <3>1. m \in Ids /\ m \notin vs /\ m # x /\ m \notin manual /\ m \notin loose /\ m \notin ls
      BY <1>4, <1>5, <2>2, Apart DEF Writable
    <3>2. row'[m] = row[m] /\ Alive(m)
      BY <1>2, <1>9, <2>2, <3>1
    <3>3. \A k \in Logs : /\ AliveIn(row', k) /\ m \in row'[k].of <=> AliveIn(row, k) /\ m \in row[k].of
                          /\ AliveIn(row, k) /\ m \in row[k].of => row'[k].val = row[k].val
      <4> SUFFICES ASSUME NEW k \in Logs
                   PROVE  /\ AliveIn(row', k) /\ m \in row'[k].of <=> AliveIn(row, k) /\ m \in row[k].of
                          /\ AliveIn(row, k) /\ m \in row[k].of => row'[k].val = row[k].val
        OBVIOUS
      <4>1. CASE k = x
        <5>1. m \notin r.of /\ (Exists(k) => m \notin row[k].of) /\ s = r
          BY <2>2, <3>1, <4>1, <1>6 DEF Writable
        <5> QED BY <1>1, <4>1, <5>1 DEF Exists, AliveIn
      <4>2. CASE k # x
        <5>1. k \in Ids /\ k \notin vs /\ k \notin ms
          BY <1>4, Apart
        <5>2. row'[k] = row[k]
          BY <1>2, <4>2, <5>1
        <5> QED BY <5>2 DEF AliveIn
      <4> QED BY <4>1, <4>2
    <3>4. Serviced(row', m) = Serviced(row, m)
      BY <3>3 DEF Serviced
    <3> QED BY <1>0, <3>1, <3>2, <3>4 DEF LastServiced
  <2> QED BY <2>1, <2>2
<1> QED BY <1>10, <1>11, <1>12, <1>13, <1>14, <1>15, <1>16, <1>17, <1>18 DEF StoreInv

-----------------------------------------------------------------------------
(***************************************************************************)
(* Steps that delete or restore a row.  The row x becomes s, deleted or    *)
(* not as g says, and the items of ms are dated anew.                      *)
(***************************************************************************)
Flipped(x, g, s, ms, ls) ==
    /\ row' = LastSynced(Put(row, x, s), ms)
    /\ replica' = [replica EXCEPT ![x].gone = g]
    /\ open' \in [Ids -> Nat]
    /\ \A y \in Ids : y # x => open'[y] = open[y]
    /\ loose' = loose \cup ls
    /\ manual \ ms \subseteq manual'
    /\ Attended

Flippable(x, g, s, ms, ls) ==
    /\ Exists(x)
    /\ s \in Row /\ s.of = row[x].of /\ (s.gone <=> g) /\ s.val \in Value(x)
    /\ x \notin ms
    /\ x \notin Incidents \cup Vendors => s.val = row[x].val
    /\ x \notin loose \cup ls => open'[x] = IF g THEN 1 ELSE 0
    /\ x \in Incidents \ (loose \cup ls) => Said(x) = IF g THEN s.prev ELSE s.val
    /\ g /\ x \notin ls => \A c \in Guards(x) : ~(Alive(c) /\ x \in row[c].of)
    /\ ~g => \A e \in Parents \ ls : x \in Guards(e) /\ e \in row[x].of =>
                (x \notin Logs /\ x \in ls) \/ Alive(e)
    /\ x \in Logs => row[x].of \cap Items \subseteq ms \cup ls

LEMMA FlipsKeep ==
    ASSUME StoreInv, NEW x \in Ids, NEW g \in BOOLEAN, NEW s,
           NEW ms \in SUBSET Items, NEW ls \in SUBSET Ids,
           Flipped(x, g, s, ms, ls), Flippable(x, g, s, ms, ls)
    PROVE  StoreInv'
<1>0. /\ TypeOK /\ Shaped /\ Stored /\ Awaited
      /\ Guarded /\ NoDangling /\ LastServiced /\ RecordsMatch /\ Followed
  BY DEF StoreInv
<1>1. /\ Exists(x) /\ s \in Row /\ s.of = row[x].of /\ (s.gone <=> g) /\ s.val \in Value(x)
      /\ x \notin ms /\ s # None
      /\ x \notin Incidents \cup Vendors => s.val = row[x].val
  BY RowFields DEF Flippable
<1>2. /\ loose' = loose \cup ls /\ manual \ ms \subseteq manual' /\ Attended
      /\ open' \in [Ids -> Nat] /\ \A y \in Ids : y # x => open'[y] = open[y]
  BY DEF Flipped
<1>3. PICK f : f = Put(row, x, s)
  OBVIOUS
<1>4. f \in StoredRows /\ f[x] = s /\ (\A y \in Ids : y # x => f[y] = row[y])
  BY <1>0, <1>1, <1>3 DEF Put, StoredRows, TypeOK
<1>5. Dated(f)
  <2> SUFFICES ASSUME NEW l \in Logs, f[l] # None
               PROVE  f[l].val \in Dates
    BY DEF Dated
  <2>1. l \in Ids /\ Value(l) = Dates
    BY Apart, Valued
  <2> QED BY <1>0, <1>1, <1>4, <2>1 DEF TypeOK, Exists
<1>6. row' = LastSynced(f, ms)
  BY <1>3 DEF Flipped
<1>7. /\ row' \in StoredRows
      /\ \A y \in Ids :
            /\ row'[y] = None <=> f[y] = None
            /\ f[y] # None => row'[y].gone = f[y].gone /\ row'[y].of = f[y].of /\ row'[y].prev = f[y].prev
            /\ y \notin ms => row'[y] = f[y]
            /\ y \in ms /\ f[y] # None => row'[y].val \in {f[y].val} \cup Dates
      /\ \A m \in Ids : Serviced(row', m) = Serviced(f, m)
      /\ \A m \in ms : AliveIn(row', m) /\ Serviced(row', m) # {} => row'[m].val = Max(Serviced(row', m))
  BY <1>4, <1>5, <1>6, SyncedRows
<1>8. row'[x] = s
  BY <1>1, <1>4, <1>7
<1>9. ASSUME NEW y \in Ids, y # x
      PROVE  /\ row'[y] = None <=> row[y] = None
             /\ row[y] # None =>
                   row'[y].gone = row[y].gone /\ row'[y].of = row[y].of /\ row'[y].prev = row[y].prev
             /\ y \notin ms => row'[y] = row[y]
             /\ y \in ms /\ row[y] # None => row'[y].val \in {row[y].val} \cup Dates
  BY <1>4, <1>7, <1>9
<1>10. /\ \A y \in Ids : Exists(y)' <=> Exists(y)
       /\ \A y \in Ids : Exists(y) => row'[y].of = row[y].of
  BY <1>1, <1>8, <1>9 DEF Exists
<1>11. \A y \in Ids : y # x => (Alive(y)' <=> Alive(y))
  BY <1>9 DEF Alive, AliveIn
<1>12. Alive(x)' <=> ~g
  BY <1>1, <1>8 DEF Alive, AliveIn
<1>13. /\ replica' \in StoredRows
       /\ replica'[x] \in Row /\ replica'[x] # None /\ (replica'[x].gone <=> g)
       /\ replica'[x].of = replica[x].of /\ replica'[x].val = replica[x].val
       /\ \A y \in Ids : y # x => replica'[y] = replica[y]
       /\ replica[x] # None
  <2>1. replica[x] \in Row /\ replica[x] # None
    BY <1>0, <1>1 DEF TypeOK, Stored
  <2>2. PICK t : t = [replica[x] EXCEPT !.gone = g]
    OBVIOUS
  <2>3. t \in Row /\ (t.gone <=> g) /\ t.of = replica[x].of /\ t.val = replica[x].val
    BY <2>1, <2>2, RowGoneAs
  <2>4. replica' = [replica EXCEPT ![x] = t]
    BY <2>2 DEF Flipped
  <2>5. replica' \in StoredRows /\ replica'[x] = t /\ \A y \in Ids : y # x => replica'[y] = replica[y]
    BY <1>0, <2>3, <2>4 DEF StoredRows, TypeOK
  <2> QED BY <2>1, <2>3, <2>5, RowFields
<1>14. TypeOK'
  <2>1. row' \in [Ids -> Row \cup {None}] /\ replica' \in [Ids -> Row \cup {None}]
    BY <1>7, <1>13 DEF StoredRows
  <2>2. \A y \in Ids : Exists(y)' => row'[y].val \in Value(y)
    <3> SUFFICES ASSUME NEW y \in Ids, Exists(y)'
                 PROVE  row'[y].val \in Value(y)
      OBVIOUS
    <3>1. CASE y = x
      BY <1>1, <1>8, <3>1
    <3>2. CASE y # x
      <4>1. Exists(y) /\ row[y].val \in Value(y)
        BY <1>0, <1>10 DEF TypeOK
      <4>2. y \in ms => y \in Items
        OBVIOUS
      <4> QED BY <1>9, <3>2, <4>1, <4>2, Valued DEF Exists
    <3> QED BY <3>1, <3>2
  <2>3. \A y \in Ids : replica'[y] # None => replica'[y].val \in Value(y)
    BY <1>0, <1>13 DEF TypeOK
  <2>4. loose' \subseteq Ids
    BY <1>0, <1>2 DEF TypeOK
  <2> QED BY <1>2, <2>1, <2>2, <2>3, <2>4 DEF TypeOK, Attended
<1>15. Shaped'
  <2>1. \A y \in Ids : Exists(y)' => row'[y].of \subseteq MayRefer(y)
    BY <1>0, <1>10 DEF Shaped
  <2>2. ASSUME NEW l \in Logs, Exists(l)', NEW m \in row'[l].of \cap Items, NEW n \in row'[l].of \cap Items
        PROVE  m = n
    <3>1. Exists(l) /\ row'[l].of = row[l].of
      BY <1>10, <2>2, Apart
    <3> QED BY <1>0, <3>1 DEF Shaped
  <2> QED BY <2>1, <2>2 DEF Shaped
<1>16. Stored'
  <2>1. \A y \in Ids : Exists(y)' => replica'[y] # None
    BY <1>0, <1>10, <1>13 DEF Stored
  <2>2. \A y \in Vendors : replica'[y] # None => Exists(y)'
    BY <1>0, <1>10, <1>13, Apart DEF Stored
  <2>3. ASSUME NEW p \in Callers, pending'[p] # None
        PROVE  replica'[pending'[p].id] # None
    <3>1. pending'[p] = pending[p] /\ pending[p] \in Checked
      BY <1>0, <1>2, <2>3 DEF Attended, TypeOK
    <3>2. pending[p].id \in Ids /\ replica[pending[p].id] # None
      BY <1>0, <2>3, <3>1 DEF Stored, Checked
    <3> QED BY <1>13, <3>1, <3>2
  <2> QED BY <2>1, <2>2, <2>3 DEF Stored
<1>17. Awaited'
  BY <1>0, <1>2 DEF Awaited, Attended
<1>18. Guarded'
  <2> SUFFICES ASSUME NEW e \in Parents, e \notin loose', NEW k \in Guards(e),
                      k \in Logs \/ k \notin loose', Alive(k)', e \in row'[k].of
               PROVE  Alive(e)'
    BY DEF Guarded
  <2>1. e \in Ids /\ e \notin loose /\ e \notin ls
    BY <1>2, Apart
  <2>2. k \in Ids /\ k # e
    BY <2>1, Guarding, LocalStoreAssumption DEF Guards
  <2>3. Exists(k) /\ e \in row[k].of
    BY <1>10, <2>2 DEF Alive, AliveIn, Exists
  <2>4. CASE k = x
    <3>1. ~g /\ ~(k \notin Logs /\ k \in ls)
      BY <1>2, <1>12, <2>4
    <3>2. Alive(e)
      BY <2>1, <2>3, <2>4, <3>1 DEF Flippable
    <3> QED BY <1>11, <2>1, <2>2, <2>4, <3>2
  <2>5. CASE k # x
    <3>1. Alive(k)
      BY <1>11, <2>2, <2>5
    <3>2. Alive(e)
      BY <1>0, <1>2, <2>1, <2>3, <3>1 DEF Guarded
    <3>3. e = x => ~g
      BY <2>1, <2>3, <3>1 DEF Flippable
    <3> QED BY <1>11, <1>12, <2>1, <3>2, <3>3
  <2> QED BY <2>4, <2>5
<1>19. NoDangling'
  <2> SUFFICES ASSUME NEW y \in Ids, y \notin loose', Exists(y)', NEW e \in row'[y].of
               PROVE  Exists(e)'
    BY DEF NoDangling
  <2>1. e \in Ids
    BY <1>15, Referring DEF Shaped
  <2> QED BY <1>0, <1>2, <1>10, <2>1 DEF NoDangling
<1>20. RecordsMatch'
  <2> SUFFICES ASSUME NEW y \in Ids, y \notin loose'
               PROVE  open'[y] = IF Exists(y)' /\ row'[y].gone THEN 1 ELSE 0
    BY DEF RecordsMatch
  <2>1. y \notin loose /\ y \notin ls /\ open[y] = IF Exists(y) /\ row[y].gone THEN 1 ELSE 0
    BY <1>0, <1>2 DEF RecordsMatch
  <2>2. CASE y = x
    BY <1>1, <1>8, <1>10, <2>1, <2>2 DEF Flippable
  <2>3. CASE y # x
    BY <1>2, <1>9, <2>1, <2>3 DEF Exists
  <2> QED BY <2>2, <2>3
<1>21. Followed'
  <2> SUFFICES ASSUME NEW y \in Ids, y \notin loose'
               PROVE  /\ Alive(y)' <=> AliveIn(replica', y)
                      /\ Exists(y)' =>
                            /\ y \notin Documents => row'[y].of = replica'[y].of
                            /\ y \notin Vendors \cup Items => Said(y)' = replica'[y].val
    BY DEF Followed
  <2>1. /\ y \notin loose /\ y \notin ls
        /\ Alive(y) <=> AliveIn(replica, y)
        /\ Exists(y) =>
              /\ y \notin Documents => row[y].of = replica[y].of
              /\ y \notin Vendors \cup Items => Said(y) = replica[y].val
    BY <1>0, <1>2 DEF Followed
  <2>2. CASE y = x
    <3>1. Alive(y)' <=> AliveIn(replica', y)
      BY <1>12, <1>13, <2>2 DEF AliveIn
    <3>2. Said(y)' = IF y \in Incidents /\ g THEN s.prev ELSE s.val
      BY <1>1, <1>8, <2>2 DEF Said
    <3>3. y \notin Vendors => Said(y)' = Said(y)
      <4>1. CASE y \in Incidents
        BY <2>1, <2>2, <3>2, <4>1 DEF Flippable
      <4>2. CASE y \notin Incidents
        BY <1>1, <2>2, <3>2, <4>2 DEF Said
      <4> QED BY <4>1, <4>2
    <3> QED BY <1>1, <1>10, <1>13, <2>1, <2>2, <3>1, <3>3
  <2>3. CASE y # x
    <3>1. AliveIn(replica', y) <=> AliveIn(replica, y)
      BY <1>13, <2>3 DEF AliveIn
    <3>2. y \notin Items => Said(y)' = Said(y)
      BY <1>9, <2>3 DEF Said
    <3> QED BY <1>10, <1>11, <1>13, <2>1, <2>3, <3>1, <3>2
  <2> QED BY <2>2, <2>3
<1>22. LastServiced'
  <2> SUFFICES ASSUME NEW m \in Items, m \notin loose', m \notin manual', Alive(m)', Serviced(row', m) # {}
               PROVE  row'[m].val = Max(Serviced(row', m))
    BY DEF LastServiced
  <2>1. CASE m \in ms
    BY <1>7, <2>1 DEF Alive
  <2>2. CASE m \notin ms
    <3>1. m \in Ids /\ m \notin manual /\ m \notin loose /\ m \notin ls /\ m \notin Incidents \cup Vendors
      BY <1>2, <2>2, Apart
    <3>2. row'[m].val = row[m].val
      BY <1>1, <1>8, <1>9, <2>2, <3>1
    <3>3. \A k \in Logs : k = x => m \notin row[k].of
      BY <2>2, <3>1 DEF Flippable
    <3>4. \A k \in Logs : /\ AliveIn(row', k) /\ m \in row'[k].of <=> AliveIn(row, k) /\ m \in row[k].of
                          /\ AliveIn(row, k) /\ m \in row[k].of => row'[k].val = row[k].val
      <4> SUFFICES ASSUME NEW k \in Logs
                   PROVE  /\ AliveIn(row', k) /\ m \in row'[k].of <=> AliveIn(row, k) /\ m \in row[k].of
                          /\ AliveIn(row, k) /\ m \in row[k].of => row'[k].val = row[k].val
        OBVIOUS
      <4>1. CASE k = x
        <5>1. ~(m \in row[k].of) /\ row'[k].of = row[k].of
          BY <1>1, <1>8, <3>3, <4>1
        <5> QED BY <5>1
      <4>2. CASE k # x
        <5>1. k \in Ids /\ k \notin ms
          BY Apart
        <5>2. row'[k] = row[k]
          BY <1>9, <4>2, <5>1
        <5> QED BY <5>2 DEF AliveIn
      <4> QED BY <4>1, <4>2
    <3>5. Serviced(row', m) = Serviced(row, m)
      BY <3>4 DEF Serviced
    <3>6. Alive(m)
      <4>1. PICK k \in Logs : AliveIn(row, k) /\ m \in row[k].of
        BY <2>2, <3>5 DEF Serviced
      <4>2. m \in Parents /\ k \in Guards(m) /\ Alive(k)
        BY <4>1, ItemsGuard, Apart DEF Alive
      <4> QED BY <1>0, <3>1, <4>1, <4>2 DEF Guarded
    <3> QED BY <1>0, <3>1, <3>2, <3>5, <3>6 DEF LastServiced
  <2> QED BY <2>1, <2>2
<1> QED BY <1>14, <1>15, <1>16, <1>17, <1>18, <1>19, <1>20, <1>21, <1>22 DEF StoreInv

-----------------------------------------------------------------------------
(***************************************************************************)
(* Permanent deletion of the rows xs: no other row but a document refers   *)
(* to them, and their items are among them.                                *)
(***************************************************************************)
Purged(xs) ==
    /\ \A x \in xs : Exists(x) /\ x \notin Vendors
    /\ \A y \in Ids \ (xs \cup Documents) : Exists(y) => row[y].of \cap xs = {}
    /\ \A l \in xs \cap Logs : row[l].of \cap Items \subseteq xs
    /\ HardDeletes(xs)
    /\ Attended
    /\ UNCHANGED <<loose, manual>>

LEMMA PurgesKeep ==
    ASSUME StoreInv, NEW xs \in SUBSET Ids, Purged(xs)
    PROVE  StoreInv'
<1>0. /\ TypeOK /\ Shaped /\ Stored /\ Awaited
      /\ Guarded /\ NoDangling /\ LastServiced /\ RecordsMatch /\ Followed
  BY DEF StoreInv
<1>1. /\ \A x \in xs : Exists(x) /\ x \notin Vendors
      /\ \A y \in Ids \ (xs \cup Documents) : Exists(y) => row[y].of \cap xs = {}
      /\ \A l \in xs \cap Logs : row[l].of \cap Items \subseteq xs
      /\ Attended /\ loose' = loose /\ manual' = manual
  BY DEF Purged
<1>2. /\ row' = [y \in Ids |-> IF y \in xs THEN None
                               ELSE IF y \in Documents /\ row[y] # None
                               THEN [row[y] EXCEPT !.of = @ \ xs] ELSE row[y]]
      /\ replica' = [y \in Ids |-> IF y \in xs THEN [replica[y] EXCEPT !.gone = TRUE] ELSE replica[y]]
      /\ open' = [y \in Ids |-> IF y \in xs THEN 0 ELSE open[y]]
  BY DEF Purged, HardDeletes, Stores, Detached, RecordsClosed
<1>3. \A x \in xs : row'[x] = None
  BY <1>2
<1>4. ASSUME NEW y \in Ids, y \notin xs, row[y] # None
      PROVE  /\ row'[y] \in Row /\ row'[y] # None
             /\ row'[y].gone = row[y].gone /\ row'[y].val = row[y].val /\ row'[y].prev = row[y].prev
             /\ y \in Documents => row'[y].of = row[y].of \ xs
             /\ y \notin Documents => row'[y] = row[y]
  <2>1. row[y] \in Row
    BY <1>0, <1>4 DEF TypeOK
  <2>2. CASE y \in Documents
    <3>1. PICK t : t = [row[y] EXCEPT !.of = @ \ xs]
      OBVIOUS
    <3>2. row'[y] = t
      BY <1>2, <1>4, <2>2, <3>1
    <3>3. t \in Row /\ t.gone = row[y].gone /\ t.val = row[y].val /\ t.prev = row[y].prev
          /\ t.of = row[y].of \ xs
      BY <2>1, <3>1 DEF Row
    <3> QED BY <2>2, <3>2, <3>3, RowFields
  <2>3. CASE y \notin Documents
    BY <1>2, <1>4, <2>1, <2>3, RowFields
  <2> QED BY <2>2, <2>3
<1>5. \A y \in Ids : y \notin xs /\ row[y] = None => row'[y] = None
  BY <1>2
<1>6. \A y \in Ids : Exists(y)' <=> Exists(y) /\ y \notin xs
  BY <1>3, <1>4, <1>5 DEF Exists
<1>7. \A y \in Ids : Alive(y)' <=> Alive(y) /\ y \notin xs
  BY <1>3, <1>4, <1>5 DEF Alive, AliveIn
<1>8. ASSUME NEW x \in xs
      PROVE  /\ replica'[x] \in Row /\ replica'[x] # None /\ replica'[x].gone
             /\ replica'[x].val = replica[x].val /\ replica[x] # None
  <2>1. replica[x] \in Row /\ replica[x] # None
    BY <1>0, <1>1 DEF TypeOK, Stored
  <2>2. replica'[x] = [replica[x] EXCEPT !.gone = TRUE]
    BY <1>2
  <2>3. PICK t : t = [replica[x] EXCEPT !.gone = TRUE]
    OBVIOUS
  <2>4. t \in Row /\ t.gone /\ t.val = replica[x].val
    BY <2>1, <2>3, RowGone
  <2> QED BY <2>1, <2>2, <2>3, <2>4, RowFields
<1>9. \A y \in Ids : y \notin xs => replica'[y] = replica[y]
  BY <1>2
<1>10. TypeOK'
  <2>1. row' \in [Ids -> Row \cup {None}]
    <3>1. row' = [y \in Ids |-> row'[y]]
      BY <1>2
    <3>2. \A y \in Ids : row'[y] \in Row \cup {None}
      BY <1>3, <1>4, <1>5
    <3> QED BY <3>1, <3>2
  <2>2. replica' \in [Ids -> Row \cup {None}]
    <3>1. replica' = [y \in Ids |-> replica'[y]]
      BY <1>2
    <3>2. \A y \in Ids : replica'[y] \in Row \cup {None}
      BY <1>0, <1>8, <1>9 DEF TypeOK
    <3> QED BY <3>1, <3>2
  <2>3. \A y \in Ids : Exists(y)' => row'[y].val \in Value(y)
    BY <1>0, <1>4, <1>6 DEF TypeOK, Exists
  <2>4. \A y \in Ids : replica'[y] # None => replica'[y].val \in Value(y)
    BY <1>0, <1>8, <1>9 DEF TypeOK
  <2>5. open' \in [Ids -> Nat]
    BY <1>0, <1>2 DEF TypeOK
  <2> QED BY <1>0, <1>1, <2>1, <2>2, <2>3, <2>4, <2>5 DEF TypeOK, Attended
<1>11. \A y \in Ids : Exists(y)' => /\ Exists(y) /\ y \notin xs /\ row'[y].of \subseteq row[y].of
                                    /\ y \notin Documents => row'[y].of = row[y].of
  BY <1>4, <1>6 DEF Exists
<1>12. Shaped'
  <2>1. \A y \in Ids : Exists(y)' => row'[y].of \subseteq MayRefer(y)
    BY <1>0, <1>11 DEF Shaped
  <2>2. ASSUME NEW l \in Logs, Exists(l)', NEW m \in row'[l].of \cap Items, NEW n \in row'[l].of \cap Items
        PROVE  m = n
    <3>1. Exists(l) /\ row'[l].of \subseteq row[l].of
      BY <1>11, <2>2, Apart
    <3>2. m \in row[l].of \cap Items /\ n \in row[l].of \cap Items
      BY <3>1
    <3> QED BY <1>0, <3>1, <3>2 DEF Shaped
  <2> QED BY <2>1, <2>2 DEF Shaped
<1>13. Stored'
  <2>1. \A y \in Ids : Exists(y)' => replica'[y] # None
    BY <1>0, <1>9, <1>11 DEF Stored
  <2>2. \A y \in Vendors : replica'[y] # None => Exists(y)'
    BY <1>0, <1>1, <1>6, <1>9, Apart DEF Stored
  <2>3. ASSUME NEW p \in Callers, pending'[p] # None
        PROVE  replica'[pending'[p].id] # None
    <3>1. pending'[p] = pending[p] /\ pending[p] \in Checked
      BY <1>0, <1>1, <2>3 DEF Attended, TypeOK
    <3>2. pending[p].id \in Ids /\ replica[pending[p].id] # None
      BY <1>0, <2>3, <3>1 DEF Stored, Checked
    <3> QED BY <1>8, <1>9, <3>1, <3>2
  <2> QED BY <2>1, <2>2, <2>3 DEF Stored
<1>14. Awaited'
  BY <1>0, <1>1 DEF Awaited, Attended
<1>15. Guarded'
  <2> SUFFICES ASSUME NEW e \in Parents, e \notin loose', NEW k \in Guards(e),
                      k \in Logs \/ k \notin loose', Alive(k)', e \in row'[k].of
               PROVE  Alive(e)'
    BY DEF Guarded
  <2>1. e \in Ids /\ e \notin loose
    BY <1>1, Apart
  <2>2. k \in Ids /\ k \notin Documents
    BY <2>1, Guarding
  <2>3. Alive(k) /\ k \notin xs /\ Exists(k) /\ e \in row[k].of
    BY <1>7, <1>11, <2>2 DEF Alive, AliveIn, Exists
  <2>4. Alive(e) /\ e \notin xs
    BY <1>0, <1>1, <2>1, <2>2, <2>3 DEF Guarded
  <2> QED BY <1>7, <2>1, <2>4
<1>16. NoDangling'
  <2> SUFFICES ASSUME NEW y \in Ids, y \notin loose', Exists(y)', NEW e \in row'[y].of
               PROVE  Exists(e)'
    BY DEF NoDangling
  <2>1. e \in Ids /\ Exists(y) /\ y \notin xs /\ e \in row[y].of
    BY <1>11, <1>12, Referring DEF Shaped
  <2>2. Exists(e)
    BY <1>0, <1>1, <2>1 DEF NoDangling
  <2>3. e \notin xs
    BY <1>1, <1>4, <2>1 DEF Exists
  <2> QED BY <1>6, <2>1, <2>2, <2>3
<1>17. RecordsMatch'
  <2> SUFFICES ASSUME NEW y \in Ids, y \notin loose'
               PROVE  open'[y] = IF Exists(y)' /\ row'[y].gone THEN 1 ELSE 0
    BY DEF RecordsMatch
  <2>1. open[y] = IF Exists(y) /\ row[y].gone THEN 1 ELSE 0
    BY <1>0, <1>1 DEF RecordsMatch
  <2>2. open'[y] = IF y \in xs THEN 0 ELSE open[y]
    BY <1>2
  <2> QED BY <1>4, <1>6, <2>1, <2>2 DEF Exists
<1>18. Followed'
  <2> SUFFICES ASSUME NEW y \in Ids, y \notin loose'
               PROVE  /\ Alive(y)' <=> AliveIn(replica', y)
                      /\ Exists(y)' =>
                            /\ y \notin Documents => row'[y].of = replica'[y].of
                            /\ y \notin Vendors \cup Items => Said(y)' = replica'[y].val
    BY DEF Followed
  <2>1. /\ Alive(y) <=> AliveIn(replica, y)
        /\ Exists(y) =>
              /\ y \notin Documents => row[y].of = replica[y].of
              /\ y \notin Vendors \cup Items => Said(y) = replica[y].val
    BY <1>0, <1>1 DEF Followed
  <2>2. CASE y \in xs
    BY <1>6, <1>7, <1>8, <2>2 DEF AliveIn
  <2>3. CASE y \notin xs
    <3>1. AliveIn(replica', y) <=> AliveIn(replica, y)
      BY <1>9, <2>3 DEF AliveIn
    <3>2. Exists(y) => Said(y)' = Said(y)
      BY <1>4, <2>3 DEF Said, Exists
    <3> QED BY <1>7, <1>9, <1>11, <2>1, <2>3, <3>1, <3>2
  <2> QED BY <2>2, <2>3
<1>19. LastServiced'
  <2> SUFFICES ASSUME NEW m \in Items, m \notin loose', m \notin manual', Alive(m)', Serviced(row', m) # {}
               PROVE  row'[m].val = Max(Serviced(row', m))
    BY DEF LastServiced
  <2>1. m \in Ids /\ m \notin xs /\ Alive(m) /\ m \notin Documents
    BY <1>7, Apart
  <2>2. row'[m] = row[m]
    BY <1>4, <2>1 DEF Alive, AliveIn
  <2>3. \A k \in Logs : /\ AliveIn(row', k) /\ m \in row'[k].of <=> AliveIn(row, k) /\ m \in row[k].of
                        /\ AliveIn(row, k) /\ m \in row[k].of => row'[k].val = row[k].val
    <3> SUFFICES ASSUME NEW k \in Logs
                 PROVE  /\ AliveIn(row', k) /\ m \in row'[k].of <=> AliveIn(row, k) /\ m \in row[k].of
                        /\ AliveIn(row, k) /\ m \in row[k].of => row'[k].val = row[k].val
      OBVIOUS
    <3>1. k \in Ids /\ k \notin Documents
      BY Apart
    <3>2. CASE k \in xs
      BY <1>1, <1>3, <2>1, <3>2 DEF AliveIn
    <3>3. CASE k \notin xs /\ row[k] = None
      BY <1>5, <3>1, <3>3 DEF AliveIn
    <3>4. CASE k \notin xs /\ row[k] # None
      BY <1>4, <3>1, <3>4 DEF AliveIn
    <3> QED BY <3>2, <3>3, <3>4
  <2>4. Serviced(row', m) = Serviced(row, m)
    BY <2>3 DEF Serviced
  <2> QED BY <1>0, <1>1, <2>1, <2>2, <2>4 DEF LastServiced
<1> QED BY <1>10, <1>12, <1>13, <1>14, <1>15, <1>16, <1>17, <1>18, <1>19 DEF StoreInv

-----------------------------------------------------------------------------
(* The operations. *)

\* Steps that only wait for, or give up, a guarded operation.
LEMMA WaitsKeep ==
    ASSUME StoreInv, UNCHANGED <<row, replica, open, manual, loose>>,
           ops' \in 0..MaxOps, remotes' \in 0..MaxRemote,
           pending' \in [Callers -> Checked \cup {None}],
           \A p \in Callers : pending'[p] # None =>
               /\ replica[pending'[p].id] # None
               /\ pending'[p].act = "delete" => pending'[p].seen = {} /\ Guards(pending'[p].id) # {}
    PROVE  StoreInv'
<1>1. row' = row /\ replica' = replica /\ open' = open /\ manual' = manual /\ loose' = loose
  OBVIOUS
<1>2. /\ TypeOK /\ Shaped /\ Stored /\ Awaited
      /\ Guarded /\ NoDangling /\ LastServiced /\ RecordsMatch /\ Followed
  BY DEF StoreInv
<1>3. TypeOK'
  BY <1>1, <1>2 DEF TypeOK, Exists
<1>4. Shaped' /\ NoDangling' /\ RecordsMatch'
  BY <1>1, <1>2 DEF Shaped, NoDangling, RecordsMatch, Exists
<1>5. Stored' /\ Awaited'
  BY <1>1, <1>2 DEF Stored, Awaited, Exists
<1>6. Guarded' /\ Followed'
  BY <1>1, <1>2 DEF Guarded, Followed, Said, Alive, AliveIn, Exists
<1>7. LastServiced'
  BY <1>1, <1>2 DEF LastServiced, Serviced, Alive, AliveIn
<1> QED BY <1>3, <1>4, <1>5, <1>6, <1>7 DEF StoreInv

LEMMA Counted ==
    ASSUME TypeOK, Counts
    PROVE  ops' \in 0..MaxOps
BY LocalStoreAssumption DEF TypeOK, Counts

\* A step without a vendor to be found and without an item to be dated.
LEMMA Plain ==
    ASSUME NEW f \in StoredRows, NEW c, TypeOK
    PROVE  /\ {} \in OptionalParents(Vendors) /\ {} \in SUBSET Items
           /\ Found(row, {}, c) = row /\ FoundTold(replica, {}, c) = replica
           /\ LastSynced(f, {}) = f
           /\ RecordsClosed(Revived({})) = open
<1>1. LastSynced(f, {}) = [x \in Ids |-> f[x]]
  BY DEF LastSynced
<1>2. f = [x \in Ids |-> f[x]]
  BY DEF StoredRows
<1>3. RecordsClosed(Revived({})) = [x \in Ids |-> open[x]]
  BY DEF RecordsClosed, Revived
<1>4. open = [x \in Ids |-> open[x]]
  BY DEF TypeOK
<1> QED BY <1>1, <1>2, <1>3, <1>4 DEF OptionalParents, Found, FoundTold

LEMMA CreatesKeep ==
    ASSUME StoreInv, NEW x \in Ids, x \notin Logs, NEW ps, ps \subseteq MayRefer(x),
           NEW v \in Value(x), Creates(x, New(ps, v)),
           manual \subseteq manual', manual' \subseteq Items, x \in Items => x \in manual'
    PROVE  StoreInv'
<1>0. TypeOK
  BY DEF StoreInv
<1>1. PICK r : r = New(ps, v)
  OBVIOUS
<1>2. r \in Row /\ ~r.gone /\ r.of = ps /\ r.val = v
  <2>1. ps \in SUBSET Ids /\ v \in Contacts \cup Statuses \cup Dates \cup {None}
    BY Referring, Valued
  <2> QED BY <1>1, <2>1, NewRow
<1>3. PICK c \in Contacts : TRUE
  BY LocalStoreAssumption
<1>4. PICK ls \in SUBSET Ids : ls = IF DeadParents(r.of) = {} THEN {} ELSE {x}
  OBVIOUS
<1>5. /\ row[x] = None /\ replica[x] = None
      /\ \A e \in r.of : Exists(e)
      /\ row' = Put(row, x, r) /\ replica' = Told(replica, x, r)
      /\ loose' = loose \cup ls
      /\ open' = open /\ pending' = pending /\ remotes' = remotes /\ Counts
  BY <1>1, <1>4 DEF Creates, Stores, Loosened
<1>6. Put(row, x, r) \in StoredRows
  BY <1>0, <1>2 DEF TypeOK, Put, StoredRows
<1>7. Attended
  BY <1>0, <1>5, Counted DEF Attended, TypeOK
<1>8. Written(x, r, r, {}, c, {}, ls)
  BY <1>0, <1>5, <1>6, <1>7, Plain DEF Written
<1>9. Writable(x, r, r, {}, {}, ls)
  <2>1. \A e \in r.of : x \notin ls => Alive(e)
    BY <1>4 DEF DeadParents
  <2> QED BY <1>2, <1>5, <2>1 DEF Writable
<1>10. {} \in OptionalParents(Vendors) /\ {} \in SUBSET Items
  BY DEF OptionalParents
<1> QED BY <1>2, <1>8, <1>9, <1>10, WritesKeep

LEMMA UpdatesKeep ==
    ASSUME StoreInv, NEW x \in Ids, x \notin Logs, NEW ps, ps \subseteq MayRefer(x),
           NEW v \in Value(x), Updates(x, New(ps, v)),
           manual \subseteq manual', manual' \subseteq Items, x \in Items => x \in manual'
    PROVE  StoreInv'
<1>0. TypeOK
  BY DEF StoreInv
<1>1. PICK r : r = New(ps, v)
  OBVIOUS
<1>2. r \in Row /\ ~r.gone /\ r.of = ps /\ r.val = v
  <2>1. ps \in SUBSET Ids /\ v \in Contacts \cup Statuses \cup Dates \cup {None}
    BY Referring, Valued
  <2> QED BY <1>1, <2>1, NewRow
<1>3. PICK c \in Contacts : TRUE
  BY LocalStoreAssumption
<1>4. PICK ls \in SUBSET Ids : ls = IF Alive(x) /\ DeadParents(r.of \ row[x].of) = {} THEN {} ELSE {x}
  OBVIOUS
<1>5. /\ Exists(x)
      /\ \A e \in r.of : Exists(e)
      /\ row' = Changed(row, x, r) /\ replica' = Told(replica, x, r)
      /\ loose' = loose \cup ls
      /\ open' = open /\ pending' = pending /\ remotes' = remotes /\ Counts
  BY <1>1, <1>4 DEF Updates, Stores, Loosened
<1>6. PICK s : s = IF Alive(x) THEN r ELSE row[x]
  OBVIOUS
<1>7. s \in Row /\ row' = Put(row, x, s) /\ Put(row, x, s) \in StoredRows
  <2>1. CASE Alive(x)
    BY <1>0, <1>2, <1>5, <1>6, <2>1 DEF TypeOK, Put, StoredRows, Changed, Alive
  <2>2. CASE ~Alive(x)
    <3>1. s = row[x] /\ s \in Row
      BY <1>0, <1>5, <1>6, <2>2 DEF TypeOK, Exists
    <3>2. row' = row
      BY <1>5, <2>2 DEF Changed, Alive
    <3>3. Put(row, x, s) = row
      BY <1>0, <3>1 DEF Put, TypeOK
    <3> QED BY <1>0, <3>1, <3>2, <3>3 DEF TypeOK, StoredRows
  <2> QED BY <2>1, <2>2
<1>8. Attended
  BY <1>0, <1>5, Counted DEF Attended, TypeOK
<1>9. Written(x, r, s, {}, c, {}, ls)
  BY <1>0, <1>5, <1>7, <1>8, Plain DEF Written
<1>10. Writable(x, r, s, {}, {}, ls)
  <2>1. x \notin ls => Alive(x) /\ \A e \in r.of : Alive(e) \/ e \in row[x].of
    BY <1>4 DEF DeadParents
  <2>2. \/ s = r /\ Alive(x)
        \/ s = row[x] /\ Exists(x) /\ row[x].gone /\ x \in ls /\ x \notin Logs
    BY <1>5, <1>6, <2>1 DEF Alive, AliveIn, Exists
  <2> QED BY <1>2, <1>5, <2>1, <2>2 DEF Writable
<1>11. {} \in OptionalParents(Vendors) /\ {} \in SUBSET Items
  BY DEF OptionalParents
<1> QED BY <1>2, <1>7, <1>9, <1>10, <1>11, WritesKeep

LEMMA OneFound ==
    ASSUME NEW v \in Vendors, NEW c
    PROVE  /\ {v} \in OptionalParents(Vendors)
           /\ Found(row, {v}, c) = WithVendor(row, v, c)
           /\ FoundTold(replica, {v}, c) = VendorTold(replica, v, c)
<1>1. (CHOOSE w \in {v} : TRUE) = v
  OBVIOUS
<1> QED BY <1>1 DEF OptionalParents, Found, FoundTold

LEMMA QuoteKeeps ==
    ASSUME StoreInv, NEW q \in Quotes, NEW p \in Projects, NEW v \in Vendors, NEW c \in Contacts,
           CreateQuote(q, p, v, c) \/ UpdateQuote(q, p, v, c)
    PROVE  StoreInv'
<1>0. TypeOK /\ q \in Ids /\ p \in Ids /\ v \in Ids /\ q \notin {v} /\ q \notin Items /\ q \notin Logs
  BY Apart DEF StoreInv
<1>1. PICK r : r = New({p, v}, None)
  OBVIOUS
<1>2. r \in Row /\ ~r.gone /\ r.of = {p, v} /\ r.val = None
  <2>1. {p, v} \in SUBSET Ids
    BY <1>0
  <2> QED BY <1>1, <2>1, NewRow
<1>3. r.of \subseteq MayRefer(q) /\ r.val \in Value(q)
  BY <1>0, <1>2, Referring, Valued, Apart
<1>4. PICK f : f = Found(row, {v}, c)
  OBVIOUS
<1>5. f \in StoredRows /\ f[q] = row[q] /\ f = WithVendor(row, v, c)
  <2>1. PICK vs \in OptionalParents(Vendors) : vs = {v}
    BY OneFound
  <2>2. row \in StoredRows /\ f = Found(row, vs, c)
    BY <1>0, <1>4, <2>1 DEF TypeOK, StoredRows
  <2>3. f \in StoredRows /\ \A y \in Ids : y \notin vs => f[y] = row[y]
    BY <2>2, FoundRows
  <2> QED BY <1>0, <1>4, <2>1, <2>3, OneFound
<1>6. PICK s : s = IF AliveIn(f, q) \/ row[q] = None THEN r ELSE row[q]
  OBVIOUS
<1>7. s \in Row /\ Put(f, q, s) \in StoredRows
  BY <1>0, <1>2, <1>5, <1>6 DEF TypeOK, Put, StoredRows
<1>8. PICK ls \in SUBSET Ids :
        ls = IF (Alive(p) /\ (row[q] = None \/ Alive(q))) \/ (Alive(q) /\ p \in row[q].of) THEN {} ELSE {q}
  BY <1>0
<1>9. /\ (row[q] = None /\ replica[q] = None) \/ Exists(q)
      /\ Exists(p)
      /\ row' = Put(f, q, s)
      /\ replica' = Told(FoundTold(replica, {v}, c), q, r)
      /\ open' = RecordsClosed(Revived({v}))
      /\ loose' = loose \cup ls
      /\ pending' = pending /\ remotes' = remotes /\ manual' = manual /\ Counts
  <2>1. CASE CreateQuote(q, p, v, c)
    <3>1. row[q] = None
      BY <2>1 DEF CreateQuote
    <3>2. s = r /\ ~Alive(q)
      BY <1>6, <3>1 DEF Alive, AliveIn
    <3>3. ls = IF Alive(p) THEN {} ELSE {q}
      <4>1. CASE Alive(p)
        BY <1>8, <3>1, <4>1
      <4>2. CASE ~Alive(p)
        BY <1>8, <3>2, <4>2
      <4> QED BY <4>1, <4>2
    <3>4. /\ replica[q] = None /\ Exists(p) /\ Counts
          /\ row' = Put(WithVendor(row, v, c), q, r)
          /\ replica' = Told(VendorTold(replica, v, c), q, r)
          /\ open' = RecordsClosed(Revived({v}))
          /\ loose' = loose \cup IF Alive(p) THEN {} ELSE {q}
          /\ pending' = pending /\ remotes' = remotes /\ manual' = manual
      BY <1>1, <2>1 DEF CreateQuote, Stores, Loosened
    <3> QED BY <1>5, <3>1, <3>2, <3>3, <3>4, OneFound
  <2>2. CASE UpdateQuote(q, p, v, c)
    <3>1. row[q] # None /\ (AliveIn(f, q) <=> Alive(q))
      BY <1>5, <2>2 DEF UpdateQuote, Exists, Alive, AliveIn
    <3>2. ls = IF Alive(q) /\ (Alive(p) \/ p \in row[q].of) THEN {} ELSE {q}
      <4>1. CASE Alive(q) /\ (Alive(p) \/ p \in row[q].of)
        BY <1>8, <4>1
      <4>2. CASE ~(Alive(q) /\ (Alive(p) \/ p \in row[q].of))
        BY <1>8, <3>1, <4>2
      <4> QED BY <4>1, <4>2
    <3>3. Changed(f, q, r) = Put(f, q, s)
      <4>1. CASE AliveIn(f, q)
        BY <1>6, <4>1 DEF Changed
      <4>2. CASE ~AliveIn(f, q)
        BY <1>5, <1>6, <3>1, <4>2 DEF Changed, Put, StoredRows
      <4> QED BY <4>1, <4>2
    <3> QED BY <1>1, <1>5, <2>2, <3>1, <3>2, <3>3, OneFound DEF UpdateQuote, Stores, Loosened, Exists
  <2> QED BY <2>1, <2>2
<1>10. Attended
  BY <1>0, <1>9, Counted DEF Attended, TypeOK
<1>11. Written(q, r, s, {v}, c, {}, ls)
  BY <1>0, <1>4, <1>7, <1>9, <1>10, Plain DEF Written
<1>12. Writable(q, r, s, {v}, {}, ls)
  <2>1. AliveIn(f, q) <=> Alive(q)
    BY <1>5 DEF Alive, AliveIn
  <2>2. \/ s = r /\ row[q] = None /\ replica[q] = None
        \/ s = r /\ Alive(q)
        \/ s = row[q] /\ Exists(q) /\ row[q].gone /\ q \in ls /\ q \notin Logs
    BY <1>0, <1>6, <1>8, <1>9, <2>1 DEF Alive, AliveIn, Exists
  <2>3. q \notin ls => Alive(p) \/ (Alive(q) /\ p \in row[q].of)
    BY <1>8
  <2> QED BY <1>0, <1>2, <1>3, <1>9, <2>2, <2>3 DEF Writable
<1>13. {v} \in OptionalParents(Vendors) /\ {} \in SUBSET Items
  BY OneFound
<1> QED BY <1>0, <1>2, <1>7, <1>11, <1>12, <1>13, WritesKeep

LEMMA ServiceLogKeeps ==
    ASSUME StoreInv, NEW l \in Logs, NEW m \in Items, NEW vs \in OptionalParents(Vendors),
           NEW c \in Contacts, NEW date \in Dates,
           CreateServiceLog(l, m, vs, c, date) \/ UpdateServiceLog(l, m, vs, c, date)
    PROVE  StoreInv'
<1>0. TypeOK /\ l \in Ids /\ m \in Ids /\ vs \subseteq Vendors /\ l \notin vs /\ l \notin Items
      /\ m \notin Vendors
  BY Apart, OneVendor DEF StoreInv
<1>1. PICK r : r = New({m} \cup vs, date)
  OBVIOUS
<1>2. r \in Row /\ ~r.gone /\ r.of = {m} \cup vs /\ r.val = date
  <2>1. {m} \cup vs \in SUBSET Ids
    BY <1>0, Apart
  <2> QED BY <1>1, <2>1, NewRow
<1>3. r.of \subseteq MayRefer(l) /\ r.val \in Value(l) /\ r.of \cap Items = {m}
  BY <1>0, <1>2, Referring, Valued, Apart
<1>4. PICK ms \in SUBSET Items :
        ms = IF row[l] = None THEN {m} ELSE {m} \cup (row[l].of \cap Items)
  OBVIOUS
<1>5. PICK ls \in SUBSET Ids : ls = IF Alive(m) THEN {} ELSE {l, m}
  BY <1>0
<1>6. /\ (row[l] = None /\ replica[l] = None) \/ Alive(l)
      /\ Exists(m)
      /\ row' = LastSynced(Put(Found(row, vs, c), l, r), ms)
      /\ replica' = Told(FoundTold(replica, vs, c), l, r)
      /\ open' = RecordsClosed(Revived(vs))
      /\ manual' = manual \ {m}
      /\ loose' = loose \cup ls
      /\ pending' = pending /\ remotes' = remotes /\ Counts
  <2>1. CASE CreateServiceLog(l, m, vs, c, date)
    BY <1>1, <1>4, <1>5, <2>1 DEF CreateServiceLog, Stores, Loosened
  <2>2. CASE UpdateServiceLog(l, m, vs, c, date)
    <3>1. ms = BothItems(l, m)
      BY <1>4, <2>2 DEF UpdateServiceLog, Alive, AliveIn, BothItems
    <3> QED BY <1>1, <1>5, <2>2, <3>1 DEF UpdateServiceLog, Stores, Loosened
  <2> QED BY <2>1, <2>2
<1>7. Attended
  BY <1>0, <1>6, Counted DEF Attended, TypeOK
<1>8. Written(l, r, r, vs, c, ms, ls)
  BY <1>4, <1>6, <1>7 DEF Written
<1>9. Writable(l, r, r, vs, ms, ls)
  <2>1. \A a, b \in r.of \cap Items : a = b
    BY <1>3
  <2>2. r.of \cap Items \subseteq ms \cup ls /\ (Exists(l) => row[l].of \cap Items \subseteq ms \cup ls)
    BY <1>3, <1>4 DEF Exists
  <2>3. \A e \in r.of \ (loose \cup ls) : Alive(e) \/ e \in vs
    BY <1>2, <1>5
  <2> QED BY <1>0, <1>2, <1>3, <1>6, <2>1, <2>2, <2>3 DEF Writable
<1> QED BY <1>0, <1>2, <1>8, <1>9, WritesKeep

LEMMA DeletesKeep ==
    ASSUME StoreInv, NEW x \in Ids, NEW ls \in SUBSET Ids, Deletes(x), loose' = loose \cup ls, Attended,
           x \notin ls => \A c \in Guards(x) : ~(Alive(c) /\ x \in row[c].of)
    PROVE  StoreInv'
<1>0. TypeOK /\ RecordsMatch
  BY DEF StoreInv
<1>1. PICK ms \in SUBSET Items : ms = ItemsOf(x)
  BY DEF ItemsOf
<1>2. /\ Alive(x) /\ Exists(x)
      /\ row' = LastSynced(Gone(StatusKept(row, x), x), ms)
      /\ replica' = [replica EXCEPT ![x].gone = TRUE]
      /\ open' = [open EXCEPT ![x] = @ + 1]
      /\ manual' = manual \ {m \in ms : Serviced(row', m) # {}}
  BY <1>1 DEF Deletes, Stores, Gone, Alive, AliveIn, Exists
<1>3. row[x] \in Row /\ ~row[x].gone /\ row[x].val \in Value(x)
  BY <1>0, <1>2 DEF TypeOK, Alive, AliveIn, Exists
<1>4. PICK t : t = IF x \in Incidents THEN [row[x] EXCEPT !.prev = row[x].val, !.val = StatusResolved] ELSE row[x]
  OBVIOUS
<1>5. /\ t \in Row /\ t.of = row[x].of /\ t.val \in Value(x)
      /\ x \in Incidents => t.prev = row[x].val
      /\ x \notin Incidents => t = row[x]
  <2>1. CASE x \in Incidents
    <3>1. row[x].val \in Statuses /\ StatusResolved \in Statuses /\ Value(x) = Statuses
      BY <1>3, <2>1, Valued, LocalStoreAssumption
    <3>2. t = [row[x] EXCEPT !.prev = row[x].val, !.val = StatusResolved]
      BY <1>4, <2>1
    <3>3. t \in Row /\ t.of = row[x].of /\ t.val = StatusResolved /\ t.prev = row[x].val
      BY <1>3, <3>1, <3>2 DEF Row
    <3> QED BY <2>1, <3>1, <3>3
  <2>2. CASE x \notin Incidents
    BY <1>3, <1>4, <2>2
  <2> QED BY <2>1, <2>2
<1>6. StatusKept(row, x) = [row EXCEPT ![x] = t]
  BY <1>0, <1>4 DEF StatusKept, TypeOK
<1>7. PICK s : s = [t EXCEPT !.gone = TRUE]
  OBVIOUS
<1>8. s \in Row /\ s.gone /\ s.of = row[x].of /\ s.val = t.val /\ s.prev = t.prev
  BY <1>5, <1>7, RowGone
<1>9. Gone(StatusKept(row, x), x) = Put(row, x, s)
  <2>1. Gone([row EXCEPT ![x] = t], x) = [[row EXCEPT ![x] = t] EXCEPT ![x] = s]
    BY <1>0, <1>7 DEF Gone, TypeOK
  <2>2. [[row EXCEPT ![x] = t] EXCEPT ![x] = s] = Put(row, x, s)
    BY <1>0 DEF Put, TypeOK
  <2> QED BY <1>6, <2>1, <2>2
<1>10. PICK g \in BOOLEAN : g
  OBVIOUS
<1>11. Flipped(x, g, s, ms, ls)
  <2>1. row' = LastSynced(Put(row, x, s), ms)
    BY <1>2, <1>9
  <2>2. replica' = [replica EXCEPT ![x].gone = g]
    BY <1>2, <1>10
  <2>3. open' \in [Ids -> Nat] /\ \A y \in Ids : y # x => open'[y] = open[y]
    BY <1>0, <1>2 DEF TypeOK
  <2>4. manual \ ms \subseteq manual'
    BY <1>2
  <2> QED BY <2>1, <2>2, <2>3, <2>4 DEF Flipped
<1>12. Flippable(x, g, s, ms, ls)
  <2>1. x \notin loose => open'[x] = 1
    BY <1>0, <1>2, <1>3 DEF RecordsMatch, TypeOK
  <2>2. x \in Incidents => s.prev = Said(x)
    BY <1>3, <1>5, <1>8 DEF Said
  <2>3. x \notin ms /\ (x \in Logs => row[x].of \cap Items \subseteq ms)
    BY <1>1, Apart DEF ItemsOf
  <2> QED BY <1>2, <1>5, <1>8, <1>10, <2>1, <2>2, <2>3 DEF Flippable
<1> QED BY <1>10, <1>11, <1>12, FlipsKeep

LEMMA RestoreKeeps ==
    ASSUME StoreInv, NEW p \in Callers, RestoreChecked(p)
    PROVE  StoreInv'
<1>0. TypeOK /\ Stored /\ RecordsMatch /\ Followed
  BY DEF StoreInv
<1>1. PICK x : x = pending[p].id
  OBVIOUS
<1>2. PICK read : read = pending[p].read
  OBVIOUS
<1>3. x \in Ids /\ read \in Row /\ replica[x] # None
  <2>1. pending[p] \in Checked
    BY <1>0 DEF RestoreChecked, TypeOK
  <2> QED BY <1>0, <1>1, <1>2, <2>1 DEF Checked, Stored, RestoreChecked
<1>4. PICK ms \in SUBSET Items : ms = IF x \in Logs THEN read.of \cap Items ELSE {}
  OBVIOUS
<1>5. /\ Exists(x) =>
           /\ row' = LastSynced(Back(StatusBack(row, x, read), x), ms)
           /\ replica' = [replica EXCEPT ![x].gone = FALSE]
           /\ manual' = manual \ ms
           /\ loose' = loose \cup IF read.gone /\ row[x] = read /\ Restorable(x) THEN {} ELSE {x} \cup ItemsOf(x)
      /\ ~Exists(x) =>
           /\ row' = row /\ replica' = [replica EXCEPT ![x].gone = FALSE]
           /\ manual' = manual /\ loose' = loose \cup {x}
      /\ open' = [open EXCEPT ![x] = 0]
      /\ pending' = [pending EXCEPT ![p] = None] /\ ops' = ops /\ remotes' = remotes
  BY <1>1, <1>2, <1>4 DEF RestoreChecked, Done, Stores, Loosened, Back
<1>6. Attended
  BY <1>0, <1>4, <1>5 DEF Attended, TypeOK
<1>7. open' \in [Ids -> Nat] /\ open'[x] = 0 /\ \A y \in Ids : y # x => open'[y] = open[y]
  BY <1>0, <1>3, <1>5 DEF TypeOK
<1>8. CASE Exists(x)
  <2>1. row[x] \in Row /\ row[x].val \in Value(x)
    BY <1>0, <1>3, <1>8 DEF TypeOK, Exists
  <2>2. PICK w : w = IF read.prev = None THEN StatusOpen ELSE read.prev
    OBVIOUS
  <2>3. w \in Statuses
    BY <1>3, <2>2, RowFields, LocalStoreAssumption
  <2>4. PICK t : t = IF x \in Incidents THEN [row[x] EXCEPT !.prev = None, !.val = w] ELSE row[x]
    OBVIOUS
  <2>5. /\ t \in Row /\ t.of = row[x].of /\ t.val \in Value(x)
        /\ x \in Incidents => t.val = w
        /\ x \notin Incidents => t = row[x]
    <3>1. CASE x \in Incidents
      <4>1. t = [row[x] EXCEPT !.prev = None, !.val = w]
        BY <2>4, <3>1
      <4>2. t \in Row /\ t.of = row[x].of /\ t.val = w
        BY <2>1, <2>3, <4>1 DEF Row
      <4> QED BY <1>3, <2>3, <3>1, <4>2, Valued
    <3>2. CASE x \notin Incidents
      BY <2>1, <2>4, <3>2
    <3> QED BY <3>1, <3>2
  <2>6. StatusBack(row, x, read) = [row EXCEPT ![x] = t]
    <3>1. CASE x \in Incidents
      <4>1. StatusBack(row, x, read) = [row EXCEPT ![x].prev = None, ![x].val = w]
        BY <2>2, <3>1 DEF StatusBack
      <4>2. t = [row[x] EXCEPT !.prev = None, !.val = w]
        BY <2>4, <3>1
      <4> QED BY <1>0, <1>3, <4>1, <4>2 DEF TypeOK
    <3>2. CASE x \notin Incidents
      BY <1>0, <1>3, <2>5, <3>2 DEF StatusBack, TypeOK
    <3> QED BY <3>1, <3>2
  <2>7. PICK s : s = [t EXCEPT !.gone = FALSE]
    OBVIOUS
  <2>8. s \in Row /\ ~s.gone /\ s.of = row[x].of /\ s.val = t.val
    BY <2>5, <2>7, RowBack
  <2>9. Back(StatusBack(row, x, read), x) = Put(row, x, s)
    <3>1. Back([row EXCEPT ![x] = t], x) = [[row EXCEPT ![x] = t] EXCEPT ![x] = s]
      BY <1>0, <1>3, <2>7 DEF Back, TypeOK
    <3>2. [[row EXCEPT ![x] = t] EXCEPT ![x] = s] = Put(row, x, s)
      BY <1>0 DEF Put, TypeOK
    <3> QED BY <2>6, <3>1, <3>2
  <2>10. PICK g \in BOOLEAN : ~g
    OBVIOUS
  <2>11. PICK ls \in SUBSET Ids :
           ls = IF read.gone /\ row[x] = read /\ Restorable(x) THEN {} ELSE {x} \cup ItemsOf(x)
    <3>1. {x} \cup ItemsOf(x) \subseteq Ids
      BY <1>3, Apart DEF ItemsOf
    <3> QED BY <3>1
  <2>12. Flipped(x, g, s, ms, ls)
    <3>1. row' = LastSynced(Put(row, x, s), ms) /\ loose' = loose \cup ls
      BY <1>5, <1>8, <2>9, <2>11
    <3>2. replica' = [replica EXCEPT ![x].gone = g]
      BY <1>5, <1>8, <2>10
    <3>3. manual \ ms \subseteq manual'
      BY <1>5, <1>8
    <3> QED BY <1>6, <1>7, <3>1, <3>2, <3>3 DEF Flipped
  <2>13. Flippable(x, g, s, ms, ls)
    <3>1. x \notin ms /\ x \in Ids
      BY <1>3, <1>4, Apart
    <3>2. x \notin ls => ls = {} /\ read.gone /\ row[x] = read /\ Restorable(x)
      BY <2>11
    <3>3. x \in ls => ItemsOf(x) \subseteq ls
      BY <2>11
    <3>4. x \in Logs => row[x].of \cap Items \subseteq ms \cup ls
      BY <1>4, <3>2, <3>3 DEF ItemsOf
    <3>5. ASSUME x \in Incidents, x \notin loose, x \notin ls
          PROVE  Said(x) = s.val
      <4>1. Said(x) = row[x].prev /\ s.val = w /\ read = row[x]
        BY <2>5, <2>8, <3>2, <3>5 DEF Said
      <4>2. row[x].prev # None
        <5>1. Said(x) = replica[x].val /\ replica[x].val \in Statuses
          BY <1>0, <1>3, <1>8, <3>5, Valued, Apart DEF Followed, TypeOK
        <5>2. None \notin Statuses
          BY LocalStoreAssumption
        <5> QED BY <4>1, <5>1, <5>2
      <4> QED BY <2>2, <4>1, <4>2
    <3>6. ASSUME NEW e \in Parents \ ls, x \in Guards(e), e \in row[x].of
          PROVE  (x \notin Logs /\ x \in ls) \/ Alive(e)
      <4>1. x \in Logs => e \in Items
        BY <3>6, Guarding, Apart
      <4>2. x \notin ls => Alive(e)
        BY <3>2, <3>6 DEF Restorable
      <4> QED BY <3>3, <3>6, <4>1, <4>2 DEF ItemsOf
    <3>7. x \notin Incidents => s.val = row[x].val
      BY <2>5, <2>8
    <3> QED BY <1>7, <1>8, <2>5, <2>8, <2>10, <3>1, <3>4, <3>5, <3>6, <3>7 DEF Flippable
  <2> QED BY <1>3, <2>10, <2>12, <2>13, FlipsKeep
<1>9. CASE ~Exists(x)
  <2>0. /\ Shaped /\ Awaited /\ Guarded /\ NoDangling /\ LastServiced
        /\ row' = row /\ manual' = manual /\ loose' = loose \cup {x}
    BY <1>5, <1>9 DEF StoreInv
  <2>1. PICK t : t = [replica[x] EXCEPT !.gone = FALSE]
    OBVIOUS
  <2>2. t \in Row /\ t # None /\ t.val = replica[x].val
    BY <1>0, <1>3, <2>1, RowBack, RowFields DEF TypeOK
  <2>3. replica' \in StoredRows /\ replica'[x] = t /\ \A y \in Ids : y # x => replica'[y] = replica[y]
    BY <1>0, <1>3, <1>5, <1>9, <2>1, <2>2 DEF TypeOK, StoredRows
  <2>4. \A y \in Ids : y \notin loose' => y # x /\ y \notin loose /\ replica'[y] = replica[y] /\ open'[y] = open[y]
    BY <1>7, <2>0, <2>3
  <2>5. TypeOK'
    <3>1. \A y \in Ids : replica'[y] # None => replica'[y].val \in Value(y)
      BY <1>0, <1>3, <2>2, <2>3 DEF TypeOK
    <3>2. loose' \subseteq Ids /\ replica' \in [Ids -> Row \cup {None}]
      BY <1>0, <1>3, <2>0, <2>3 DEF TypeOK, StoredRows
    <3> QED BY <1>0, <1>6, <1>7, <2>0, <3>1, <3>2 DEF TypeOK, Attended, Exists
  <2>6. Shaped'
    BY <2>0 DEF Shaped, Exists
  <2>7. Stored'
    <3>1. \A y \in Ids : replica'[y] # None <=> replica[y] # None
      BY <1>3, <2>2, <2>3
    <3>2. \A q \in Callers : pending'[q] # None => pending'[q] = pending[q] /\ pending[q].id \in Ids
      BY <1>0, <1>6 DEF Attended, TypeOK, Checked
    <3> QED BY <1>0, <2>0, <3>1, <3>2, Apart DEF Stored, Exists
  <2>8. Awaited'
    BY <1>6, <2>0 DEF Awaited, Attended
  <2>9. Guarded' /\ NoDangling'
    BY <2>0 DEF Guarded, NoDangling, Alive, AliveIn, Exists
  <2>10. LastServiced'
    BY <2>0 DEF LastServiced, Serviced, Alive, AliveIn
  <2>11. RecordsMatch'
    BY <1>0, <2>0, <2>4 DEF RecordsMatch, Exists
  <2>12. Followed'
    BY <1>0, <2>0, <2>4 DEF Followed, Said, Alive, AliveIn, Exists
  <2> QED BY <2>5, <2>6, <2>7, <2>8, <2>9, <2>10, <2>11, <2>12 DEF StoreInv
<1> QED BY <1>8, <1>9

LEMMA DeletionKeeps ==
    ASSUME StoreInv, NEW x \in Ids, Delete(x) \/ \E p \in Callers : CheckDelete(p, x) \/ CheckRestore(p, x)
    PROVE  StoreInv'
<1>0. TypeOK /\ Stored /\ Awaited
  BY DEF StoreInv
<1>1. CASE Delete(x)
  <2>1. PICK ls \in SUBSET Ids : ls = {}
    OBVIOUS
  <2>2. Deletes(x) /\ loose' = loose \cup ls /\ Guards(x) = {}
    BY <1>1, <2>1 DEF Delete
  <2>3. manual' \subseteq Items
    BY <1>0, <2>2 DEF Deletes, TypeOK
  <2>4. Attended
    BY <1>0, <1>1, <2>3, Counted DEF Delete, Attended, TypeOK
  <2> QED BY <2>2, <2>4, DeletesKeep
<1>2. ASSUME NEW p \in Callers, CheckDelete(p, x) \/ CheckRestore(p, x)
      PROVE  StoreInv'
  <2>1. PICK w : w = IF CheckDelete(p, x)
                     THEN [act |-> "delete", id |-> x, read |-> row[x], seen |-> DependentsIn(row, x)]
                     ELSE [act |-> "restore", id |-> x, read |-> row[x], seen |-> {}]
    OBVIOUS
  <2>2. /\ UNCHANGED <<row, replica, open, manual, loose, remotes>> /\ Counts /\ Exists(x)
        /\ pending' = [pending EXCEPT ![p] = w]
    BY <1>2, <2>1 DEF CheckDelete, CheckRestore
  <2>3. row[x] \in Row
    BY <1>0, <2>2 DEF TypeOK, Exists
  <2>4. /\ w \in Checked /\ w.id = x
        /\ w.act = "delete" => w.seen = {} /\ Guards(x) # {}
    <3>1. CASE CheckDelete(p, x)
      <4>1. DependentsIn(row, x) = {} /\ Guards(x) # {}
        BY <3>1 DEF CheckDelete, Deletable
      <4>2. w = [act |-> "delete", id |-> x, read |-> row[x], seen |-> {}]
        BY <2>1, <3>1, <4>1
      <4> QED BY <2>3, <4>1, <4>2 DEF Checked
    <3>2. CASE ~CheckDelete(p, x)
      <4>1. w = [act |-> "restore", id |-> x, read |-> row[x], seen |-> {}]
        BY <2>1, <3>2
      <4> QED BY <2>3, <4>1 DEF Checked
    <3> QED BY <3>1, <3>2
  <2>5. pending' \in [Callers -> Checked \cup {None}]
    BY <1>0, <2>2, <2>4 DEF TypeOK
  <2>6. ASSUME NEW q \in Callers, pending'[q] # None
        PROVE  /\ replica[pending'[q].id] # None
               /\ pending'[q].act = "delete" => pending'[q].seen = {} /\ Guards(pending'[q].id) # {}
    <3>1. CASE q = p
      <4>1. pending'[q] = w
        BY <1>0, <2>2, <3>1 DEF TypeOK
      <4> QED BY <1>0, <2>2, <2>4, <4>1 DEF Stored
    <3>2. CASE q # p
      <4>1. pending'[q] = pending[q]
        BY <1>0, <2>2, <3>2 DEF TypeOK
      <4> QED BY <1>0, <2>6, <4>1 DEF Stored, Awaited
    <3> QED BY <3>1, <3>2
  <2>7. ops' \in 0..MaxOps /\ remotes' \in 0..MaxRemote
    BY <1>0, <2>2, Counted DEF TypeOK
  <2> QED BY <2>2, <2>5, <2>6, <2>7, WaitsKeep
<1> QED BY <1>1, <1>2

LEMMA DeleteCheckedKeeps ==
    ASSUME StoreInv, NEW p \in Callers, DeleteChecked(p)
    PROVE  StoreInv'
<1>0. TypeOK /\ Stored /\ Awaited
  BY DEF StoreInv
<1>1. PICK x : x = pending[p].id
  OBVIOUS
<1>2. x \in Ids /\ pending[p].seen = {}
  <2>1. pending[p] \in Checked
    BY <1>0 DEF DeleteChecked, TypeOK
  <2> QED BY <1>0, <1>1, <2>1 DEF Checked, Awaited, DeleteChecked
<1>3. /\ pending' = [pending EXCEPT ![p] = None] /\ ops' = ops /\ remotes' = remotes
      /\ \/ Deletes(x) /\ Loosened(IF DependentsIn(row, x) = {} THEN {} ELSE {x})
         \/ UNCHANGED <<row, replica, open, manual, loose>>
  BY <1>1, <1>2 DEF DeleteChecked, Done
<1>4. /\ pending' \in [Callers -> Checked \cup {None}]
      /\ \A q \in Callers : pending'[q] # None => pending'[q] = pending[q]
      /\ ops' \in 0..MaxOps /\ remotes' \in 0..MaxRemote
  BY <1>0, <1>3 DEF TypeOK
<1>5. CASE Deletes(x) /\ Loosened(IF DependentsIn(row, x) = {} THEN {} ELSE {x})
  <2>1. PICK ls \in SUBSET Ids : ls = IF DependentsIn(row, x) = {} THEN {} ELSE {x}
    BY <1>2
  <2>2. loose' = loose \cup ls
    BY <1>5, <2>1 DEF Loosened
  <2>3. manual' \subseteq Items
    BY <1>0, <1>5 DEF Deletes, TypeOK
  <2>4. x \notin ls => \A c \in Guards(x) : ~(Alive(c) /\ x \in row[c].of)
    BY <2>1 DEF DependentsIn, Alive
  <2>5. Attended
    BY <1>4, <2>3 DEF Attended
  <2> QED BY <1>2, <1>5, <2>2, <2>4, <2>5, DeletesKeep
<1>6. CASE UNCHANGED <<row, replica, open, manual, loose>>
  <2>1. ASSUME NEW q \in Callers, pending'[q] # None
        PROVE  /\ replica[pending'[q].id] # None
               /\ pending'[q].act = "delete" => pending'[q].seen = {} /\ Guards(pending'[q].id) # {}
    BY <1>0, <1>4, <2>1 DEF Stored, Awaited
  <2> QED BY <1>4, <1>6, <2>1, WaitsKeep
<1> QED BY <1>3, <1>5, <1>6

LEMMA HardDeleteKeeps ==
    ASSUME StoreInv,
           \/ \E i \in Incidents : HardDeleteIncident(i)
           \/ \E m \in Items : HardDeleteMaintenance(m)
    PROVE  StoreInv'
<1>0. TypeOK /\ Shaped
  BY DEF StoreInv
<1>1. ASSUME NEW i \in Incidents, HardDeleteIncident(i)
      PROVE  StoreInv'
  <2>1. PICK xs \in SUBSET Ids : xs = {i}
    BY Apart
  <2>2. \A x \in xs : Exists(x) /\ x \notin Vendors /\ x \notin Parents /\ x \notin Logs
    BY <1>1, <2>1, Apart DEF HardDeleteIncident
  <2>3. \A y \in Ids \ (xs \cup Documents) : Exists(y) => row[y].of \cap xs = {}
    BY <1>0, <2>2, Referring DEF Shaped
  <2>4. Attended
    BY <1>0, <1>1, Counted DEF HardDeleteIncident, Attended, TypeOK
  <2>5. Purged(xs)
    BY <1>1, <2>1, <2>2, <2>3, <2>4 DEF Purged, HardDeleteIncident
  <2> QED BY <2>5, PurgesKeep
<1>2. ASSUME NEW m \in Items, HardDeleteMaintenance(m)
      PROVE  StoreInv'
  <2>1. PICK xs \in SUBSET Ids : xs = {m} \cup {l \in Logs : Exists(l) /\ m \in row[l].of}
    BY Apart
  <2>2. \A x \in xs : Exists(x) /\ x \notin Vendors /\ (x \in Parents => x = m)
    BY <1>2, <2>1, Apart DEF HardDeleteMaintenance
  <2>3. ASSUME NEW y \in Ids, y \notin xs, y \notin Documents, Exists(y), NEW e \in row[y].of, e \in xs
        PROVE  FALSE
    <3>1. e = m
      BY <1>0, <2>2, <2>3, Referring DEF Shaped
    <3>2. y \in Logs
      BY <1>0, <2>3, <3>1, Referring DEF Shaped
    <3> QED BY <2>1, <2>3, <3>1, <3>2
  <2>4. ASSUME NEW l \in xs \cap Logs
        PROVE  row[l].of \cap Items \subseteq xs
    <3>1. Exists(l) /\ m \in row[l].of
      BY <2>1, <2>4, Apart
    <3>2. \A n \in row[l].of \cap Items : n = m
      BY <1>0, <3>1 DEF Shaped
    <3> QED BY <2>1, <3>2
  <2>5. Attended
    BY <1>0, <1>2, Counted DEF HardDeleteMaintenance, Attended, TypeOK
  <2>6. Purged(xs)
    BY <1>2, <2>1, <2>2, <2>3, <2>4, <2>5 DEF Purged, HardDeleteMaintenance
  <2> QED BY <2>6, PurgesKeep
<1> QED BY <1>1, <1>2

LEMMA RemoteIn ==
    ASSUME TypeOK, NEW ls, Remote(ls)
    PROVE  Attended /\ loose' = loose \cup ls /\ manual' = manual /\ open' = open
BY LocalStoreAssumption DEF TypeOK, Remote, Loosened, Attended

LEMMA RemoteInsertKeeps ==
    ASSUME StoreInv, NEW x \in Ids, NEW ps \in OptionalParents(Ids \ Documents), NEW v \in Value(x),
           \/ x \in Documents
           \/ x \in Logs /\ ps # {} /\ ps \subseteq Items
           \/ x \in Items /\ ps \subseteq Appliances,
           RemoteInsert(x, New(ps, v))
    PROVE  StoreInv'
<1>0. TypeOK
  BY DEF StoreInv
<1>1. PICK r : r = New(ps, v)
  OBVIOUS
<1>2. ps \in SUBSET (Ids \ Documents) /\ \A a, b \in ps : a = b
  BY DEF OptionalParents
<1>3. r \in Row /\ ~r.gone /\ r.of = ps /\ r.val = v
  <2>1. ps \in SUBSET Ids /\ v \in Contacts \cup Statuses \cup Dates \cup {None}
    BY <1>2, Valued
  <2> QED BY <1>1, <2>1, NewRow
<1>4. r.of \subseteq MayRefer(x)
  BY <1>2, <1>3, Referring
<1>5. PICK ls \in SUBSET Ids : ls = {x} \cup (r.of \cap Items)
  BY <1>2, <1>3
<1>6. PICK c \in Contacts : TRUE
  BY LocalStoreAssumption
<1>7. /\ row[x] = None /\ replica[x] = None
      /\ row' = Put(row, x, r) /\ replica' = Put(replica, x, r)
      /\ Attended /\ loose' = loose \cup ls /\ manual' = manual /\ open' = open
  <2>1. Remote(ls)
    BY <1>1, <1>5 DEF RemoteInsert
  <2> QED BY <1>0, <1>1, <2>1, RemoteIn DEF RemoteInsert, Stores
<1>8. Told(replica, x, r) = Put(replica, x, r)
  BY <1>7 DEF Told, Put
<1>9. Put(row, x, r) \in StoredRows
  BY <1>0, <1>3 DEF TypeOK, Put, StoredRows
<1>10. Written(x, r, r, {}, c, {}, ls)
  BY <1>0, <1>7, <1>8, <1>9, Plain DEF Written
<1>11. Writable(x, r, r, {}, {}, ls)
  <2>1. x \in Logs => r.of \cap Items \subseteq ls /\ \A e \in r.of : e \in ls
    BY <1>3, <1>5, Apart
  <2> QED BY <1>2, <1>3, <1>4, <1>5, <1>7, <2>1 DEF Writable, Exists
<1>12. {} \in OptionalParents(Vendors) /\ {} \in SUBSET Items
  BY DEF OptionalParents
<1> QED BY <1>3, <1>10, <1>11, <1>12, WritesKeep

LEMMA RemoteFlipKeeps ==
    ASSUME StoreInv, NEW x \in Ids, RemoteDelete(x) \/ RemoteRestore(x)
    PROVE  StoreInv'
<1>0. TypeOK
  BY DEF StoreInv
<1>1. PICK g \in BOOLEAN : g <=> RemoteDelete(x)
  OBVIOUS
<1>2. PICK ls \in SUBSET Ids : ls = {x} \cup ItemsOf(x)
  BY Apart DEF ItemsOf
<1>3. PICK ms \in SUBSET Items : ms = {}
  OBVIOUS
<1>4. PICK s : s = [row[x] EXCEPT !.gone = g]
  OBVIOUS
<1>5. Exists(x) /\ Remote(ls)
  BY <1>2 DEF RemoteDelete, RemoteRestore
<1>6. row[x] \in Row /\ row[x].val \in Value(x)
  BY <1>0, <1>5 DEF TypeOK, Exists
<1>7. s \in Row /\ s.of = row[x].of /\ (s.gone <=> g) /\ s.val = row[x].val
  BY <1>4, <1>6, RowGoneAs
<1>8. row' = Put(row, x, s) /\ replica' = [replica EXCEPT ![x].gone = g]
  <2>1. CASE RemoteDelete(x)
    <3>1. g = TRUE
      BY <1>1, <2>1
    <3> QED BY <1>4, <2>1, <3>1 DEF RemoteDelete, Stores, Gone, Put
  <2>2. CASE ~RemoteDelete(x)
    <3>1. g = FALSE /\ RemoteRestore(x)
      BY <1>1, <2>2
    <3> QED BY <1>4, <3>1 DEF RemoteRestore, Stores, Back, Put
  <2> QED BY <2>1, <2>2
<1>9. Put(row, x, s) \in StoredRows
  BY <1>0, <1>7 DEF TypeOK, Put, StoredRows
<1>10. Attended /\ loose' = loose \cup ls /\ manual' = manual /\ open' = open
  BY <1>0, <1>5, RemoteIn
<1>11. Flipped(x, g, s, ms, ls)
  BY <1>0, <1>3, <1>8, <1>9, <1>10, Plain DEF Flipped, TypeOK
<1>12. Flippable(x, g, s, ms, ls)
  <2>1. x \in Logs => row[x].of \cap Items \subseteq ls
    BY <1>2 DEF ItemsOf
  <2>2. \A e \in Parents : x \in Guards(e) /\ e \in row[x].of /\ e \notin ls => x \notin Logs
    BY <2>1, Guarding, Apart
  <2> QED BY <1>2, <1>3, <1>5, <1>6, <1>7, <2>1, <2>2 DEF Flippable
<1> QED BY <1>11, <1>12, FlipsKeep

\* A row found by its name and restored: only a vendor says something else then.
LEMMA RevivesKeep ==
    ASSUME StoreInv, NEW x \in Parents, NEW v \in Value(x), Revives(x, v),
           x \notin Vendors => v = row[x].val
    PROVE  StoreInv'
<1>0. TypeOK
  BY DEF StoreInv
<1>1. x \in Ids /\ x \notin Logs /\ x \notin Incidents
  BY Apart
<1>2. PICK ms \in SUBSET Items : ms = {}
  OBVIOUS
<1>3. PICK ls \in SUBSET Ids : ls = IF Restorable(x) THEN {} ELSE {x}
  BY <1>1
<1>4. PICK t : t = [row[x] EXCEPT !.gone = FALSE]
  OBVIOUS
<1>5. PICK s : s = [row[x] EXCEPT !.gone = FALSE, !.val = v]
  OBVIOUS
<1>6. /\ Exists(x) /\ row[x].gone /\ Counts
      /\ row' = Put(row, x, s) /\ replica' = [replica EXCEPT ![x].gone = FALSE]
      /\ open' = RecordsClosed({x}) /\ loose' = loose \cup ls
      /\ pending' = pending /\ remotes' = remotes /\ manual' = manual
  BY <1>3, <1>5 DEF Revives, Stores, Back, Loosened
<1>7. row[x] \in Row /\ v \in Contacts \cup Statuses \cup Dates \cup {None}
  BY <1>0, <1>1, <1>6, Valued DEF TypeOK, Exists
<1>8. s \in Row /\ ~s.gone /\ s.of = row[x].of /\ s.val = v
  <2>1. t \in Row /\ ~t.gone /\ t.of = row[x].of
    BY <1>4, <1>7, RowBack
  <2>2. s = [t EXCEPT !.val = v]
    BY <1>4, <1>5, <1>7 DEF Row
  <2> QED BY <1>7, <2>1, <2>2, RowVal
<1>9. Put(row, x, s) \in StoredRows
  BY <1>0, <1>8 DEF TypeOK, Put, StoredRows
<1>10. Attended
  BY <1>0, <1>6, Counted DEF Attended, TypeOK
<1>11. PICK g \in BOOLEAN : g = FALSE
  OBVIOUS
<1>12. open' \in [Ids -> Nat] /\ open'[x] = 0 /\ \A y \in Ids : y # x => open'[y] = open[y]
  BY <1>0, <1>1, <1>6 DEF RecordsClosed, TypeOK
<1>13. Flipped(x, g, s, ms, ls)
  <2>1. row' = LastSynced(Put(row, x, s), ms)
    BY <1>0, <1>2, <1>6, <1>9, Plain
  <2>2. replica' = [replica EXCEPT ![x].gone = g]
    BY <1>6, <1>11
  <2>3. open' \in [Ids -> Nat] /\ \A y \in Ids : y # x => open'[y] = open[y]
    BY <1>12
  <2>4. loose' = loose \cup ls /\ manual \ ms \subseteq manual'
    BY <1>6
  <2> QED BY <1>10, <2>1, <2>2, <2>3, <2>4 DEF Flipped
<1>14. Flippable(x, g, s, ms, ls)
  <2>1. \A e \in Parents \ ls : e \in row[x].of => x \in ls \/ Alive(e)
    BY <1>3 DEF Restorable
  <2> QED BY <1>1, <1>2, <1>6, <1>8, <1>11, <1>12, <2>1 DEF Flippable
<1> QED BY <1>1, <1>11, <1>13, <1>14, FlipsKeep

\* The rows that only have what they are created or updated with.
LEMMA WriteStepKeeps ==
    ASSUME StoreInv,
           \/ VendorStep(Ids) \/ QuoteStep(Ids) \/ IncidentStep(Ids) \/ MaintenanceStep(Ids)
           \/ ServiceLogStep(Ids) \/ DocumentStep(Ids)
           \/ \E x \in Projects \cap Ids : CreateProject(x)
           \/ \E x \in Appliances \cap Ids : CreateAppliance(x)
    PROVE  StoreInv'
<1>0. TypeOK
  BY DEF StoreInv
<1>1. CASE VendorStep(Ids)
  <2>1. PICK v \in Vendors, c \in Contacts : CreateVendor(v, c) \/ UpdateVendor(v, c)
    BY <1>1 DEF VendorStep
  <2>2. v \in Ids /\ v \notin Logs /\ v \notin Items /\ {} \subseteq MayRefer(v) /\ c \in Value(v)
    BY Apart, Valued
  <2>3. manual' = manual /\ (Creates(v, New({}, c)) \/ Updates(v, New({}, c)))
    BY <2>1 DEF CreateVendor, UpdateVendor
  <2> QED BY <1>0, <2>2, <2>3, CreatesKeep, UpdatesKeep DEF TypeOK
<1>2. CASE QuoteStep(Ids)
  BY <1>2, QuoteKeeps DEF QuoteStep
<1>3. CASE IncidentStep(Ids)
  <2>1. PICK i \in Incidents, ps \in IncidentParents(Ids), s \in Statuses :
          CreateIncident(i, ps) \/ UpdateIncident(i, ps, s)
    BY <1>3, LocalStoreAssumption DEF IncidentStep
  <2>2. ps \subseteq Appliances \cup Vendors
    BY DEF IncidentParents, OptionalParents
  <2>3. i \in Ids /\ i \notin Logs /\ i \notin Items /\ ps \subseteq MayRefer(i)
        /\ s \in Value(i) /\ StatusOpen \in Value(i)
    BY <2>2, Apart, Referring, Valued, LocalStoreAssumption
  <2>4. manual' = manual /\ (Creates(i, New(ps, StatusOpen)) \/ Updates(i, New(ps, s)))
    BY <2>1 DEF CreateIncident, UpdateIncident
  <2> QED BY <1>0, <2>3, <2>4, CreatesKeep, UpdatesKeep DEF TypeOK
<1>4. CASE MaintenanceStep(Ids)
  <2>1. PICK m \in Items, ps \in OptionalParents(Appliances \cap Ids), latest \in Dates \cup {None} :
          CreateMaintenance(m, ps, latest) \/ UpdateMaintenance(m, ps, latest)
    BY <1>4 DEF MaintenanceStep
  <2>2. ps \subseteq Appliances
    BY DEF OptionalParents
  <2>3. m \in Ids /\ m \notin Logs /\ ps \subseteq MayRefer(m) /\ latest \in Value(m)
    BY <2>2, Apart, Referring, Valued
  <2>4. manual' = manual \cup {m} /\ (Creates(m, New(ps, latest)) \/ Updates(m, New(ps, latest)))
    BY <2>1 DEF CreateMaintenance, UpdateMaintenance
  <2>5. manual \subseteq manual' /\ manual' \subseteq Items /\ m \in manual'
    BY <1>0, <2>4 DEF TypeOK
  <2> QED BY <2>3, <2>4, <2>5, CreatesKeep, UpdatesKeep
<1>5. CASE ServiceLogStep(Ids)
  <2>1. PICK l \in Logs, m \in Items, vs \in OptionalParents(Vendors \cap Ids), date \in Dates, c \in Contacts :
          CreateServiceLog(l, m, vs, c, date) \/ UpdateServiceLog(l, m, vs, c, date)
    BY <1>5 DEF ServiceLogStep
  <2>2. vs \in OptionalParents(Vendors)
    BY DEF OptionalParents
  <2> QED BY <2>1, <2>2, ServiceLogKeeps
<1>6. CASE DocumentStep(Ids)
  <2>1. PICK x \in Documents, ps \in OptionalParents(Ids \ Documents) : CreateDocument(x, ps)
    BY <1>6 DEF DocumentStep, DocumentParents
  <2>2. ps \subseteq Ids \ Documents
    BY DEF OptionalParents
  <2>3. x \in Ids /\ x \notin Logs /\ x \notin Items /\ ps \subseteq MayRefer(x) /\ None \in Value(x)
    BY <2>2, Apart, Referring, Valued
  <2>4. manual' = manual /\ Creates(x, New(ps, None))
    BY <2>1 DEF CreateDocument
  <2> QED BY <1>0, <2>3, <2>4, CreatesKeep DEF TypeOK
<1>7. ASSUME NEW x \in Projects \cup Appliances, CreateProject(x) \/ CreateAppliance(x)
      PROVE  StoreInv'
  <2>1. x \in Ids /\ x \notin Logs /\ x \notin Items /\ {} \subseteq MayRefer(x) /\ None \in Value(x)
    BY LocalStoreAssumption, Apart, Valued
  <2>2. manual' = manual /\ Creates(x, New({}, None))
    BY <1>7 DEF CreateProject, CreateAppliance
  <2> QED BY <1>0, <2>1, <2>2, CreatesKeep DEF TypeOK
<1> QED BY <1>1, <1>2, <1>3, <1>4, <1>5, <1>6, <1>7

\* A commit of an extraction creates, updates or revives.
LEMMA CommitStepKeeps ==
    ASSUME StoreInv, CommitStep(Ids)
    PROVE  StoreInv'
<1>0. TypeOK
  BY DEF StoreInv
<1>1. ASSUME NEW v \in Vendors, NEW c \in Contacts, CommitVendor(v, c)
      PROVE  StoreInv'
  <2>1. v \in Ids /\ v \in Parents /\ c \in Value(v)
    BY Apart, Valued
  <2>2. CASE CreateVendor(v, c) \/ UpdateVendor(v, c)
    BY <2>1, <2>2, WriteStepKeeps DEF VendorStep
  <2>3. CASE Revives(v, c)
    BY <2>1, <2>3, RevivesKeep
  <2> QED BY <1>1, <2>2, <2>3 DEF CommitVendor
<1>2. ASSUME NEW a \in Appliances, CommitAppliance(a)
      PROVE  StoreInv'
  <2>1. a \in Ids /\ a \in Parents /\ Value(a) = {None}
    BY LocalStoreAssumption, Apart, Valued
  <2>2. CASE CreateAppliance(a)
    BY <2>1, <2>2, WriteStepKeeps
  <2>3. CASE Revives(a, None)
    <3>1. row[a].val = None
      BY <1>0, <2>1, <2>3 DEF Revives, TypeOK
    <3> QED BY <2>1, <2>3, <3>1, RevivesKeep
  <2> QED BY <1>2, <2>2, <2>3 DEF CommitAppliance
<1>3. ASSUME NEW m \in Items, NEW ps \in OptionalParents(Appliances \cap Ids), CommitMaintenance(m, ps)
      PROVE  StoreInv'
  <2>1. m \in Ids /\ m \in Parents
    BY Apart
  <2>2. CASE CreateMaintenance(m, ps, None)
    <3>1. MaintenanceStep(Ids)
      BY <1>3, <2>1, <2>2 DEF MaintenanceStep
    <3> QED BY <3>1, WriteStepKeeps
  <2>3. CASE Exists(m) /\ Revives(m, row[m].val)
    <3>1. PICK v \in Value(m) : v = row[m].val
      BY <1>0, <2>1, <2>3 DEF TypeOK
    <3>2. Revives(m, v)
      BY <2>3, <3>1
    <3> QED BY <2>1, <3>1, <3>2, RevivesKeep
  <2> QED BY <1>3, <2>2, <2>3 DEF CommitMaintenance
<1> QED BY <1>1, <1>2, <1>3 DEF CommitStep

LEMMA RemoteStepKeeps ==
    ASSUME StoreInv, RemoteStep(Ids)
    PROVE  StoreInv'
<1>1. PICK x \in Ids :
        \/ RemoteDelete(x) \/ RemoteRestore(x)
        \/ \E ps \in DocumentParents(Ids), v \in Value(x) :
            /\ \/ x \in Documents
               \/ x \in Logs /\ ps # {} /\ ps \subseteq Items
               \/ x \in Items /\ ps \subseteq Appliances
            /\ RemoteInsert(x, New(ps, v))
  BY DEF RemoteStep
<1>2. CASE RemoteDelete(x) \/ RemoteRestore(x)
  BY <1>2, RemoteFlipKeeps
<1>3. ASSUME NEW ps \in DocumentParents(Ids), NEW v \in Value(x),
             \/ x \in Documents
             \/ x \in Logs /\ ps # {} /\ ps \subseteq Items
             \/ x \in Items /\ ps \subseteq Appliances,
             RemoteInsert(x, New(ps, v))
      PROVE  StoreInv'
  BY <1>3, RemoteInsertKeeps DEF DocumentParents
<1> QED BY <1>1, <1>2, <1>3

-----------------------------------------------------------------------------
(* The invariant. *)

LEMMA InitHolds == Init => StoreInv
<1> SUFFICES ASSUME Init
             PROVE  StoreInv
  OBVIOUS
<1>1. PICK c \in Contacts : c = CHOOSE d \in Contacts : TRUE
  BY LocalStoreAssumption
<1>2. /\ row = [x \in Ids |-> IF x \in Seeded THEN New({}, IF x \in Vendors THEN c ELSE None) ELSE None]
      /\ replica = row /\ open = [x \in Ids |-> 0] /\ pending = [p \in Callers |-> None]
      /\ ops = 0 /\ remotes = 0 /\ manual = {} /\ loose = {}
  BY <1>1 DEF Init
<1>3. ASSUME NEW x \in Ids, row[x] # None
      PROVE  /\ x \in Parents /\ row[x] \in Row /\ ~row[x].gone /\ row[x].of = {} /\ row[x].val \in Value(x)
  <2>1. PICK v : v = IF x \in Vendors THEN c ELSE None
    OBVIOUS
  <2>2. x \in Seeded /\ x \in Parents /\ row[x] = New({}, v)
    BY <1>2, <1>3, <2>1, LocalStoreAssumption
  <2>3. v \in Value(x)
    BY <2>1, <2>2, Valued, Apart
  <2>4. {} \in SUBSET Ids /\ v \in Contacts \cup Statuses \cup Dates \cup {None}
    BY <2>3, Valued
  <2> QED BY <2>2, <2>3, <2>4, NewRow
<1>4. TypeOK
  <2>1. row \in [Ids -> Row \cup {None}]
    <3>1. row = [x \in Ids |-> row[x]]
      BY <1>2
    <3> QED BY <1>3, <3>1
  <2> QED BY <1>2, <1>3, <2>1, LocalStoreAssumption DEF TypeOK, Exists
<1>5. Shaped /\ NoDangling
  BY <1>3, Apart DEF Shaped, NoDangling, Exists
<1>6. Stored /\ Awaited
  BY <1>2, Apart DEF Stored, Awaited, Exists
<1>7. Guarded
  BY <1>3, Guarding, Apart DEF Guarded, Alive, AliveIn
<1>8. LastServiced
  BY <1>3, Apart DEF LastServiced, Serviced, AliveIn
<1>9. RecordsMatch
  BY <1>2, <1>3 DEF RecordsMatch, Exists
<1>10. Followed
  BY <1>2, <1>3 DEF Followed, Said, Alive, AliveIn, Exists
<1> QED BY <1>4, <1>5, <1>6, <1>7, <1>8, <1>9, <1>10 DEF StoreInv

LEMMA NextHolds == StoreInv /\ [Next]_vars => StoreInv'
<1> SUFFICES ASSUME StoreInv, [Next]_vars
             PROVE  StoreInv'
  OBVIOUS
<1>1. CASE \/ VendorStep(Ids) \/ QuoteStep(Ids) \/ IncidentStep(Ids) \/ MaintenanceStep(Ids)
           \/ ServiceLogStep(Ids) \/ DocumentStep(Ids)
           \/ \E x \in Projects \cap Ids : CreateProject(x)
           \/ \E x \in Appliances \cap Ids : CreateAppliance(x)
  BY <1>1, WriteStepKeeps
<1>2. CASE DeletionStep(Ids)
  BY <1>2, DeletionKeeps DEF DeletionStep
<1>3. CASE \E p \in Callers : DeleteChecked(p) \/ RestoreChecked(p)
  BY <1>3, DeleteCheckedKeeps, RestoreKeeps
<1>4. CASE \/ \E i \in Incidents \cap Ids : HardDeleteIncident(i)
           \/ \E m \in Items \cap Ids : HardDeleteMaintenance(m)
  BY <1>4, HardDeleteKeeps
<1>5. CASE RemoteStep(Ids)
  BY <1>5, RemoteStepKeeps
<1>6. CASE CommitStep(Ids)
  BY <1>6, CommitStepKeeps
<1>7. CASE UNCHANGED vars
  <2>1. TypeOK /\ Stored /\ Awaited
    BY DEF StoreInv
  <2>2. UNCHANGED <<row, replica, open, manual, loose, pending, ops, remotes>>
    BY <1>7 DEF vars
  <2>3. ops' \in 0..MaxOps /\ remotes' \in 0..MaxRemote /\ pending' \in [Callers -> Checked \cup {None}]
    BY <2>1, <2>2 DEF TypeOK
  <2>4. \A p \in Callers : pending'[p] # None =>
          /\ replica[pending'[p].id] # None
          /\ pending'[p].act = "delete" => pending'[p].seen = {} /\ Guards(pending'[p].id) # {}
    BY <2>1, <2>2 DEF Stored, Awaited
  <2> QED BY <2>2, <2>3, <2>4, WaitsKeep
<1> QED BY <1>1, <1>2, <1>3, <1>4, <1>5, <1>6, <1>7 DEF Next, Step

LEMMA StoreHolds == Spec => []StoreInv
BY InitHolds, NextHolds, PTL DEF Spec

-----------------------------------------------------------------------------
\* Rows, deletion records, waiting operations and counters stay in their types,
\* whatever is created, deleted, restored or purged.
THEOREM StoreTypeCorrect == Spec => []TypeOK
<1>1. StoreInv => TypeOK
  BY DEF StoreInv
<1> QED BY <1>1, StoreHolds, PTL

\* What a live row refers to is alive where a guard answers for it, and what any
\* row refers to is there: for any rows, any callers between their checks and
\* their transactions, and any operations of other devices.
THEOREM ReferencesHold == Spec => []References
<1>1. StoreInv => References
  BY DEF StoreInv, References, LiveParents, Guarded
<1> QED BY <1>1, StoreHolds, PTL

\* last_serviced_at of an item is the latest date of its live service log,
\* wherever entries were moved, deleted and restored.
THEOREM LastServicedHolds == Spec => []LastServiced
<1>1. StoreInv => LastServiced
  BY DEF StoreInv
<1> QED BY <1>1, StoreHolds, PTL

\* The deletion records and the oplog both tell which rows are deleted, and the
\* oplog tells what the live ones say.
THEOREM TracesHold == Spec => []Traces
<1>1. StoreInv => ReplicaFollows
  <2> SUFFICES ASSUME StoreInv, NEW x \in Ids, x \notin loose
               PROVE  /\ Alive(x) <=> AliveIn(replica, x)
                      /\ Alive(x) =>
                            /\ x \notin Documents => row[x].of = replica[x].of
                            /\ x \notin Vendors \cup Items => row[x].val = replica[x].val
    BY DEF ReplicaFollows
  <2>1. /\ Alive(x) <=> AliveIn(replica, x)
        /\ Exists(x) =>
              /\ x \notin Documents => row[x].of = replica[x].of
              /\ x \notin Vendors \cup Items => Said(x) = replica[x].val
    BY DEF StoreInv, Followed
  <2>2. Alive(x) => Exists(x) /\ Said(x) = row[x].val
    BY DEF Alive, AliveIn, Exists, Said
  <2> QED BY <2>1, <2>2
<1>2. StoreInv => Traces
  BY <1>1 DEF StoreInv, Traces
<1> QED BY <1>2, StoreHolds, PTL


-----------------------------------------------------------------------------
(***************************************************************************)
(* Records: conversions.                                                   *)
(***************************************************************************)
LEMMA Halves ==
    ASSUME NEW x \in Int, NEW n \in Nat \ {0}
    PROVE  x \div n \in Int /\ n * (x \div n) <= x /\ x < n * (x \div n) + n
OBVIOUS

\* What a metric form shows of an area, typed back, is shown as it was.
LEMMA AreaRoundTrip ==
    ASSUME NEW a \in Nat, metric
    PROVE  /\ ToDisplay(a) \in Nat /\ ToSqFt(ToDisplay(a)) \in Nat
           /\ ToDisplay(ToSqFt(ToDisplay(a))) = ToDisplay(a)
<1> DEFINE d == (20000 * a + 107639) \div 215278
           s == (107639 * d + 5000) \div 10000
           e == (20000 * s + 107639) \div 215278
<1>1. d \in Int /\ 215278 * d <= 20000 * a + 107639 /\ 20000 * a + 107639 < 215278 * d + 215278
  OBVIOUS
<1>2. d \in Nat
  <2> HIDE DEF d
  <2> QED BY <1>1
<1>3. s \in Int /\ 10000 * s <= 107639 * d + 5000 /\ 107639 * d + 5000 < 10000 * s + 10000
  <2> HIDE DEF d
  <2> QED BY <1>2
<1>4. s \in Nat
  <2> HIDE DEF d, s
  <2> QED BY <1>2, <1>3
<1>5. e \in Int /\ 215278 * e <= 20000 * s + 107639 /\ 20000 * s + 107639 < 215278 * e + 215278
  <2> HIDE DEF s
  <2> QED BY <1>4
<1>6. e = d
  <2> HIDE DEF d, s, e
  <2> QED BY <1>2, <1>3, <1>4, <1>5
<1>7. ToDisplay(a) = d /\ ToSqFt(d) = s /\ ToDisplay(s) = e
  <2>1. ToDisplay(a) = d
    BY DEF ToDisplay
  <2>2. ToSqFt(d) = s
    <3> HIDE DEF d
    <3> QED BY DEF ToSqFt
  <2>3. ToDisplay(s) = e
    <3> HIDE DEF s
    <3> QED BY DEF ToDisplay
  <2> QED BY <2>1, <2>2, <2>3
<1> QED
  <2> HIDE DEF d, s, e
  <2> QED BY <1>2, <1>4, <1>6, <1>7

-----------------------------------------------------------------------------
(***************************************************************************)
(* Records: columns.                                                       *)
(***************************************************************************)
EntityNames == {"house", "project", "quote", "maintenance", "incident", "appliance",
                "vendor", "serviceLog", "document"}

KindNames == {"text", "required", "choice", "status", "ref", "date", "money", "total",
              "int", "interval", "area", "vendor"}

LEMMA EntityIs == Entities = EntityNames
BY DEF Entities, EntityNames, Columns

\* What the proofs know of the columns and their kinds.
Facts(e) ==
    /\ \A c \in Cols(e) : Kind(e, c) \in KindNames /\ Kind(e, c) = Columns[e][c]
    /\ \A c \in Cols(e) : Kind(e, c) = "vendor" <=> c = "vendor"
    /\ "vendor" \in Cols(e) <=> e \in {"quote", "serviceLog"}
    /\ e = "maintenance" =>
           /\ {"interval", "dueDate"} \subseteq Cols(e)
           /\ Kind(e, "interval") = "interval" /\ Kind(e, "dueDate") = "date"
    /\ \A c \in Cols(e) : Kind(e, c) = "interval" => c = "interval"
    /\ \A c \in Selects(e) : c \in Cols(e) /\ Kind(e, c) \in {"choice", "ref"}
    /\ e = "incident" => "status" \in Cols(e) /\ Kind(e, "status") = "status"
    /\ e = "document" => "entity" \in Cols(e) /\ Kind(e, "entity") = "ref"
    /\ "contact" \notin Cols(e) /\ Cols(e) # {}
    /\ "entity" \in Cols(e) => e = "document"
    /\ {"file", "season"} \cap Cols(e) \subseteq {c \in Cols(e) : Kind(e, c) = "choice"}
    /\ "extractedText" \in Cols(e) => Kind(e, "extractedText") = "text"
    /\ "status" \in Cols(e) => Kind(e, "status") \in {"status", "choice"}
    /\ \A c \in Unheld(e) : c \in Cols(e) /\ Kind(e, c) \in {"text", "status"}
    /\ Unheld(e) # {} => e \in {"document", "incident"}

LEMMA HouseFacts == Facts("house")
BY DEF Facts, Kind, Cols, Columns, Unheld, Selects, KindNames, HouseColumns
LEMMA ProjectFacts == Facts("project")
BY DEF Facts, Kind, Cols, Columns, Unheld, Selects, KindNames, ProjectColumns
LEMMA QuoteFacts == Facts("quote")
BY DEF Facts, Kind, Cols, Columns, Unheld, Selects, KindNames, QuoteColumns
LEMMA MaintenanceFacts == Facts("maintenance")
BY DEF Facts, Kind, Cols, Columns, Unheld, Selects, KindNames, MaintenanceColumns
LEMMA IncidentFacts == Facts("incident")
BY DEF Facts, Kind, Cols, Columns, Unheld, Selects, KindNames, IncidentColumns
LEMMA ApplianceFacts == Facts("appliance")
BY DEF Facts, Kind, Cols, Columns, Unheld, Selects, KindNames, ApplianceColumns
LEMMA VendorFacts == Facts("vendor")
BY DEF Facts, Kind, Cols, Columns, Unheld, Selects, KindNames, VendorColumns
LEMMA ServiceLogFacts == Facts("serviceLog")
BY DEF Facts, Kind, Cols, Columns, Unheld, Selects, KindNames, ServiceLogColumns
LEMMA DocumentFacts == Facts("document")
BY DEF Facts, Kind, Cols, Columns, Unheld, Selects, KindNames, DocumentColumns

LEMMA ColumnFacts ==
    ASSUME NEW e \in Entities
    PROVE  Facts(e)
BY EntityIs, HouseFacts, ProjectFacts, QuoteFacts, MaintenanceFacts, IncidentFacts,
   ApplianceFacts, VendorFacts, ServiceLogFacts, DocumentFacts DEF EntityNames

-----------------------------------------------------------------------------
(***************************************************************************)
(* Records: what is typed.                                                 *)
(***************************************************************************)
\* What may be typed is of the record's columns, or a quote's vendor's contact.
InputsFit(e, C) ==
    /\ C \subseteq Cols(e) \cup {"contact"}
    /\ "contact" \in C => e = "quote" /\ "vendor" \in C

LEMMA FormInputsFit ==
    ASSUME NEW e \in Entities
    PROVE  InputsFit(e, FormInputs[e])
<1>1. FormInputs[e] \subseteq Cols(e) \cup {"contact"}
  BY EntityIs DEF EntityNames, FormInputs, HouseForm, ProjectForm, QuoteForm,
     MaintenanceForm, IncidentForm, ApplianceForm, VendorForm, ServiceLogForm, DocumentForm,
     Cols, Columns, DocumentColumns
<1>2. e # "quote" => FormInputs[e] \subseteq Cols(e)
  BY EntityIs DEF EntityNames, FormInputs, HouseForm, ProjectForm,
     MaintenanceForm, IncidentForm, ApplianceForm, VendorForm, ServiceLogForm, DocumentForm,
     Cols, Columns, DocumentColumns
<1>3. "contact" \notin Cols(e)
  BY ColumnFacts DEF Facts
<1>4. e = "quote" => "vendor" \in FormInputs[e]
  BY QuoteFacts DEF Facts, FormInputs, QuoteForm
<1> QED BY <1>1, <1>2, <1>3, <1>4 DEF InputsFit

LEMMA StartInputsFit ==
    ASSUME NEW e \in Entities
    PROVE  StartInputs[e] \subseteq Cols(e)
BY EntityIs DEF EntityNames, StartInputs, HouseStart, ProjectStart, QuoteStart,
   MaintenanceStart, IncidentStart, ApplianceStart, VendorStart, ServiceLogStart,
   DocumentStart, Cols, Columns, HouseColumns, ProjectColumns, QuoteColumns,
   MaintenanceColumns, IncidentColumns, ApplianceColumns, VendorColumns,
   ServiceLogColumns, DocumentColumns

LEMMA InlineInputsFit ==
    ASSUME NEW e \in Entities
    PROVE  InlineInputs[e] \subseteq Cols(e)
BY EntityIs DEF EntityNames, InlineInputs, HouseInline, ProjectInline, QuoteInline,
   MaintenanceInline, IncidentInline, ApplianceInline, VendorInline, ServiceLogInline,
   DocumentInline, Cols, Columns, MaintenanceColumns, DocumentColumns

LEMMA AddInputsFit ==
    ASSUME NEW e \in Entities
    PROVE  AddInputs[e] \subseteq Cols(e)
BY EntityIs DEF EntityNames, AddInputs, HouseAdd, ProjectAdd, QuoteAdd, MaintenanceAdd,
   IncidentAdd, ApplianceAdd, VendorAdd, ServiceLogAdd, DocumentAdd, Cols, Columns

LEMMA EditInputsFit ==
    ASSUME NEW e \in Entities
    PROVE  EditInputs[e] \subseteq Cols(e)
BY EntityIs DEF EntityNames, EditInputs, HouseEdit, ProjectEdit, QuoteEdit, MaintenanceEdit,
   IncidentEdit, ApplianceEdit, VendorEdit, ServiceLogEdit, DocumentEdit, Cols, Columns,
   DocumentColumns

LEMMA SubsetFits ==
    ASSUME NEW e \in Entities, NEW C, C \subseteq Cols(e)
    PROVE  InputsFit(e, C) /\ "contact" \notin C
BY ColumnFacts DEF InputsFit, Facts

\* What was typed: some columns, and a value of each that may be.
Inputs(t, e, C, checked) ==
    /\ DOMAIN t \subseteq C
    /\ \A c \in DOMAIN t : t[c] \in Typable(e, c, checked)
    /\ t = [c \in DOMAIN t |-> t[c]]

LEMMA TypedInputs ==
    ASSUME NEW e \in Entities, NEW C, InputsFit(e, C), NEW checked, NEW t \in Typed(e, C, checked)
    PROVE  Inputs(t, e, C, checked)
<1>1. CASE t \in UNION {Single(e, c, checked) : c \in C}
  <2>1. PICK c \in C : t \in [{c} -> Typable(e, c, checked)]
    BY <1>1 DEF Single
  <2> QED BY <2>1 DEF Inputs
<1>2. CASE t \notin UNION {Single(e, c, checked) : c \in C}
  <2>2. "contact" \in C /\ "vendor" \in C
    BY <1>2 DEF Typed, InputsFit
  <2>3. t \in {[vendor |-> v, contact |-> u] :
                 v \in Typable(e, "vendor", checked), u \in Typable(e, "contact", checked)}
    BY <1>2, <2>2 DEF Typed
  <2>1. PICK v \in Typable(e, "vendor", checked), u \in Typable(e, "contact", checked) :
           t = [vendor |-> v, contact |-> u]
    BY <2>3
  <2> QED BY <2>1, <2>2 DEF Inputs
<1> QED BY <1>1, <1>2

-----------------------------------------------------------------------------
(***************************************************************************)
(* Records: what a column holds.                                           *)
(***************************************************************************)
\* What a column of the kind holds: areas are any a metric form may round to,
\* and nothing may have been chosen.
FieldValue(kind) ==
    IF kind = "area" THEN Nat
    ELSE IF kind = "choice" THEN {"", "x", "y"} ELSE Domain(kind)

LEMMA TrimIs ==
    ASSUME NEW s \in Texts
    PROVE  Trim(s) \in Texts /\ Trim(Trim(s)) = Trim(s)
BY DEF Texts, Trim

LEMMA TypableIsValue ==
    ASSUME NEW e \in Entities, NEW c, c \in Cols(e) \cup {"contact"}, NEW checked,
           NEW v \in Typable(e, c, checked)
    PROVE  v \in FieldValue(Kind(e, c)) /\ Kind(e, c) \in KindNames
<1>1. Kind(e, c) \in KindNames
  BY ColumnFacts DEF Facts, Kind, KindNames
<1>2. v \in Domain(Kind(e, c))
  BY DEF Typable
<1> QED BY <1>1, <1>2, RecordsAssumption DEF FieldValue, Domain

LEMMA ZeroIsValue ==
    ASSUME NEW kind \in KindNames
    PROVE  Zero(kind) \in FieldValue(kind)
BY DEF KindNames, Zero, FieldValue, Domain, Texts

LEMMA ParsedIsValue ==
    ASSUME NEW kind \in KindNames, NEW v \in FieldValue(kind), metric \in BOOLEAN
    PROVE  Parsed(kind, v) \in FieldValue(kind)
<1>1. CASE kind = "area"
  <2>1. ToSqFt(v) \in Nat
    <3>1. CASE metric
      BY <1>1, <3>1, Halves DEF FieldValue, ToSqFt
    <3>2. CASE ~metric
      BY <1>1, <3>2 DEF FieldValue, ToSqFt
    <3> QED BY <3>1, <3>2
  <2> QED BY <1>1, <2>1 DEF FieldValue, Parsed
<1>2. CASE kind \in {"text", "required"}
  BY <1>2, TrimIs DEF FieldValue, Parsed, Domain
<1>3. CASE kind \notin {"area", "text", "required"}
  BY <1>3 DEF Parsed
<1> QED BY <1>1, <1>2, <1>3

\* A column nobody typed is stored as it was shown.
LEMMA RereadShows ==
    ASSUME NEW kind \in KindNames, NEW v \in FieldValue(kind), metric \in BOOLEAN
    PROVE  /\ Reread(kind, v) \in FieldValue(kind)
           /\ Seen(kind, Reread(kind, v)) = Seen(kind, v) \/ (kind = "interval" /\ v < 0)
<1>1. CASE kind = "area"
  <2>1. v \in Nat
    BY <1>1 DEF FieldValue
  <2>2. Reread(kind, v) = ToSqFt(ToDisplay(v))
    BY <1>1 DEF Reread, Parsed, Printed
  <2>3. ToSqFt(ToDisplay(v)) \in Nat /\ ToDisplay(ToSqFt(ToDisplay(v))) = ToDisplay(v)
    <3>1. CASE metric
      BY <2>1, <3>1, AreaRoundTrip
    <3>2. CASE ~metric
      BY <2>1, <3>2 DEF ToSqFt, ToDisplay
    <3> QED BY <3>1, <3>2
  <2> QED BY <1>1, <2>2, <2>3 DEF FieldValue, Seen
<1>2. CASE kind \in {"text", "required"}
  BY <1>2, TrimIs DEF FieldValue, Domain, Reread, Parsed, Printed, Seen
<1>3. CASE kind = "interval"
  <2>1. v \in {0, 6, -6}
    BY <1>3 DEF FieldValue, Domain
  <2>2. Reread(kind, v) = IF v > 0 THEN v ELSE 0
    BY <1>3 DEF Reread, Parsed, Printed
  <2> QED BY <1>3, <2>1, <2>2 DEF FieldValue, Domain, Seen
<1>4. CASE kind \notin {"area", "text", "required", "interval"}
  BY <1>4 DEF Reread, Parsed, Printed
<1> QED BY <1>1, <1>2, <1>3, <1>4

-----------------------------------------------------------------------------
(***************************************************************************)
(* Records: the state.                                                     *)
(***************************************************************************)
IsRow(r) ==
    /\ DOMAIN r = Cols(entity)
    /\ \A c \in Cols(entity) : r[c] \in FieldValue(Kind(entity, c))
    /\ entity = "quote" => r.vendor \in VendorNames

RecordsTypeOK ==
    /\ entity \in Entities /\ metric \in BOOLEAN /\ deleted \in BOOLEAN
    /\ record = NoRow \/ IsRow(record)
    /\ vendors \in [VendorNames -> [contact : Texts, alive : BOOLEAN]]
    /\ DOMAIN lookups \subseteq VendorNames /\ \A v \in DOMAIN lookups : lookups[v] \in Texts
    /\ unlisted \in {{}, {"x"}, {"y"}}
    /\ edits \in Nat

LEMMA KindIs ==
    ASSUME RecordsTypeOK, NEW c \in Cols(entity)
    PROVE  Kind(entity, c) \in KindNames
BY ColumnFacts DEF RecordsTypeOK, Facts

LEMMA LiveIsRow ==
    ASSUME RecordsTypeOK, Live
    PROVE  IsRow(record)
BY DEF RecordsTypeOK, Live

LEMMA NamesKeep ==
    ASSUME RecordsTypeOK, NEW name, NEW contact, Names(name, contact),
           entity \in {"quote", "serviceLog"} /\ name # Null => contact \in Texts
    PROVE  vendors' \in [VendorNames -> [contact : Texts, alive : BOOLEAN]]
<1>1. CASE entity \in {"quote", "serviceLog"} /\ name # Null
  <2>1. contact \in Texts
    BY <1>1
  <2>2. vendors' = [vendors EXCEPT ![name] = [contact |-> contact, alive |-> TRUE]]
    BY <1>1 DEF Names, FindOrCreateVendor
  <2>3. [contact |-> contact, alive |-> TRUE] \in [contact : Texts, alive : BOOLEAN]
    BY <2>1
  <2> QED BY <2>2, <2>3 DEF RecordsTypeOK
<1>2. CASE ~(entity \in {"quote", "serviceLog"} /\ name # Null)
  <2>1. vendors' = vendors
    BY <1>2 DEF Names
  <2> QED BY <2>1 DEF RecordsTypeOK
<1> QED BY <1>1, <1>2

LEMMA SnapshotIs ==
    ASSUME NEW vs \in [VendorNames -> [contact : Texts, alive : BOOLEAN]]
    PROVE  /\ DOMAIN Snapshot(vs) \subseteq VendorNames
           /\ \A v \in DOMAIN Snapshot(vs) : Snapshot(vs)[v] \in Texts
BY DEF Snapshot

-----------------------------------------------------------------------------
(***************************************************************************)
(* Records: what a form makes of one.                                      *)
(***************************************************************************)
\* What a form submits: some columns, and a value of each that it may hold.
Submitted(t) ==
    /\ \A c \in DOMAIN t : c \in Cols(entity) \cup {"contact"}
    /\ \A c \in DOMAIN t : t[c] \in FieldValue(Kind(entity, c))
    /\ entity = "quote" /\ "vendor" \in DOMAIN t => t["vendor"] \in VendorNames

LEMMA FirstIsValue ==
    ASSUME RecordsTypeOK, NEW c \in Selects(entity)
    PROVE  /\ c \in Cols(entity) /\ First(c) \in FieldValue(Kind(entity, c))
           /\ c \notin {"vendor", "contact", "interval", "dueDate"}
<1>1. Facts(entity)
  BY ColumnFacts DEF RecordsTypeOK
<1>2. c \in Cols(entity) /\ Kind(entity, c) \in {"choice", "ref"}
  BY <1>1 DEF Facts
<1>3. First(c) \in FieldValue(Kind(entity, c))
  <2>1. CASE Kind(entity, c) = "ref"
    <3>1. First(c) = Null
      BY <2>1 DEF First
    <3>2. FieldValue("ref") = {Null, "x", "y"}
      BY DEF FieldValue, Domain
    <3> QED BY <2>1, <3>1, <3>2
  <2>2. CASE Kind(entity, c) = "choice"
    BY <2>2 DEF First, FieldValue
  <2> QED BY <1>2, <2>1, <2>2
<1>4. c \notin {"vendor", "contact", "interval", "dueDate"}
  <2>1. c # "vendor" /\ c # "contact"
    BY <1>1, <1>2 DEF Facts
  <2>2. c # "interval" /\ c # "dueDate"
    BY DEF Selects
  <2> QED BY <2>1, <2>2
<1> QED BY <1>2, <1>3, <1>4

LEMMA TypedIsSubmitted ==
    ASSUME RecordsTypeOK, NEW C, InputsFit(entity, C), NEW checked, NEW t,
           Inputs(t, entity, C, checked)
    PROVE  Submitted(t)
<1>1. entity \in Entities
  BY DEF RecordsTypeOK
<1>2. ASSUME NEW c \in DOMAIN t
      PROVE  c \in Cols(entity) \cup {"contact"} /\ t[c] \in FieldValue(Kind(entity, c))
  <2>1. c \in Cols(entity) \cup {"contact"} /\ t[c] \in Typable(entity, c, checked)
    BY <1>2 DEF Inputs, InputsFit
  <2> QED BY <1>1, <2>1, TypableIsValue
<1>3. ASSUME entity = "quote", "vendor" \in DOMAIN t
      PROVE  t["vendor"] \in VendorNames
  <2>1. t["vendor"] \in Typable("quote", "vendor", checked)
    BY <1>3 DEF Inputs
  <2>2. Kind("quote", "vendor") = "vendor"
    BY QuoteFacts DEF Facts
  <2> QED BY <2>1, <2>2 DEF Typable, Domain
<1> QED BY <1>2, <1>3 DEF Submitted

\* The selects whose value is not offered add columns of their own.
LEMMA OpenedIsSubmitted ==
    ASSUME RecordsTypeOK, NEW t, Submitted(t), NEW D \in Resets
    PROVE  /\ Submitted(Opened(t, D))
           /\ D \subseteq Unoffered /\ DOMAIN Opened(t, D) = DOMAIN t \cup D
           /\ D \cap {"vendor", "contact", "interval", "dueDate"} = {}
<1>1. D \subseteq Unoffered /\ D \subseteq Selects(entity)
  BY DEF Resets, Unoffered
<1>2. /\ DOMAIN Opened(t, D) = DOMAIN t \cup D
      /\ \A c \in DOMAIN t \cup D : Opened(t, D)[c] = IF c \in DOMAIN t THEN t[c] ELSE First(c)
  BY DEF Opened
<1>3. \A c \in D : /\ c \in Cols(entity) /\ First(c) \in FieldValue(Kind(entity, c))
                   /\ c \notin {"vendor", "contact", "interval", "dueDate"}
  BY <1>1, FirstIsValue
<1> QED BY <1>1, <1>2, <1>3 DEF Submitted

\* A record through a form: what was typed, and the rest as Loses allows.
LEMMA HeldIs ==
    ASSUME RecordsTypeOK, IsRow(record), NEW t, Submitted(t), NEW c \in Cols(entity)
    PROVE  /\ Held(c, t) \in FieldValue(Kind(entity, c))
           /\ c \notin DOMAIN t =>
                 \/ Seen(Kind(entity, c), Held(c, t)) = Seen(Kind(entity, c), record[c])
                 \/ c = "interval" /\ record[c] < 0
<1>1. Kind(entity, c) \in KindNames /\ metric \in BOOLEAN /\ entity \in Entities
  BY KindIs DEF RecordsTypeOK
<1>2. CASE c \in DOMAIN t
  <2>1. t[c] \in FieldValue(Kind(entity, c))
    BY <1>2 DEF Submitted
  <2> QED BY <1>1, <1>2, <2>1, ParsedIsValue DEF Held
<1>3. CASE c \notin DOMAIN t
  <2>1. record[c] \in FieldValue(Kind(entity, c)) /\ Held(c, t) = Reread(Kind(entity, c), record[c])
    BY <1>3 DEF IsRow, Held
  <2>2. Kind(entity, c) = "interval" => c = "interval"
    BY <1>1, ColumnFacts DEF Facts
  <2> QED BY <1>1, <1>3, <2>1, <2>2, RereadShows
<1> QED BY <1>2, <1>3

LEMMA FormRowIs ==
    ASSUME RecordsTypeOK, IsRow(record), NEW t, Submitted(t)
    PROVE  IsRow(FormRow(t))
<1>1. ASSUME NEW c \in Cols(entity)
      PROVE  FormRow(t)[c] \in FieldValue(Kind(entity, c))
  <2>1. Kind(entity, c) \in KindNames /\ Held(c, t) \in FieldValue(Kind(entity, c))
    BY HeldIs, KindIs
  <2>2. record[c] \in FieldValue(Kind(entity, c)) /\ Zero(Kind(entity, c)) \in FieldValue(Kind(entity, c))
    BY <2>1, ZeroIsValue DEF IsRow
  <2>3. c = "extractedText" => "a" \in FieldValue(Kind(entity, c))
    <3>1. c = "extractedText" => Kind(entity, c) = "text"
      BY ColumnFacts DEF Facts, RecordsTypeOK
    <3> QED BY <3>1 DEF FieldValue, Domain, Texts
  <2>4. c = "vendor" => Known(Held(c, t)) \in FieldValue(Kind(entity, c))
    <3>1. c = "vendor" => Kind(entity, c) = "vendor"
      BY ColumnFacts DEF Facts, RecordsTypeOK
    <3> QED BY <2>1, <3>1 DEF FieldValue, Domain, Known
  <2> QED BY <2>1, <2>2, <2>3, <2>4 DEF FormRow
<1>2. entity = "quote" => FormRow(t).vendor \in VendorNames
  <2> SUFFICES ASSUME entity = "quote" PROVE FormRow(t).vendor \in VendorNames
    OBVIOUS
  <2>1. /\ "vendor" \in Cols(entity) /\ Kind(entity, "vendor") = "vendor"
        /\ "vendor" \notin Unheld(entity) /\ "vendor" \notin Omitted(entity)
    BY QuoteFacts DEF Facts, Unheld, Omitted
  <2>2. FormRow(t).vendor = Held("vendor", t)
    BY <2>1 DEF FormRow
  <2>3. CASE "vendor" \in DOMAIN t
    <3>1. t["vendor"] \in VendorNames
      BY <2>3 DEF Submitted
    <3> QED BY <2>1, <2>2, <2>3, <3>1 DEF Held, Parsed
  <2>4. CASE "vendor" \notin DOMAIN t
    BY <2>1, <2>2, <2>4 DEF Held, Reread, Printed, Parsed, IsRow
  <2> QED BY <2>3, <2>4
<1>3. DOMAIN FormRow(t) = Cols(entity)
  BY DEF FormRow
<1> QED BY <1>1, <1>2, <1>3 DEF IsRow

LEMMA ScheduledIs ==
    ASSUME RecordsTypeOK, entity = "maintenance", NEW r, IsRow(r), NEW type
    PROVE  IsRow(Scheduled(r, type))
<1>1. /\ {"interval", "dueDate"} \subseteq Cols(entity)
      /\ Kind(entity, "interval") = "interval" /\ Kind(entity, "dueDate") = "date"
  BY MaintenanceFacts DEF Facts
<1>2. 0 \in FieldValue("interval") /\ Null \in FieldValue("date")
  BY DEF FieldValue, Domain
<1>3. DOMAIN Scheduled(r, type) = Cols(entity)
  BY DEF Scheduled, IsRow
<1>4. \A c \in Cols(entity) :
        \/ Scheduled(r, type)[c] = r[c]
        \/ c = "interval" /\ Scheduled(r, type)[c] = 0
        \/ c = "dueDate" /\ Scheduled(r, type)[c] = Null
  BY DEF Scheduled, IsRow
<1> QED BY <1>1, <1>2, <1>3, <1>4 DEF IsRow

\* A vendor that is named is told a contact that is a text.
LEMMA QuoteContact ==
    ASSUME RecordsTypeOK, entity = "quote", IsRow(record), NEW t, Submitted(t)
    PROVE  /\ Contact \in Texts
           /\ "contact" \in DOMAIN t => Trim(t.contact) \in Texts
<1>1. vendors[record.vendor].contact \in Texts
  BY DEF RecordsTypeOK, IsRow
<1>2. "contact" \in DOMAIN t => t.contact \in Texts
  BY DEF Submitted, Kind, FieldValue, Domain
<1> QED BY <1>1, <1>2, TrimIs DEF Contact

LEMMA SubmitsKeep ==
    ASSUME RecordsTypeOK, IsRow(record), NEW t, Submitted(t), Submits(t)
    PROVE  /\ IsRow(record') /\ deleted' \in BOOLEAN
           /\ vendors' \in [VendorNames -> [contact : Texts, alive : BOOLEAN]]
<1>1. IsRow(FormRow(t))
  BY FormRowIs
<1>2. deleted' \in BOOLEAN
  BY DEF Submits
<1>3. CASE SubmitQuote(t)
  <2>1. entity = "quote" /\ record' = FormRow(t)
        /\ Names(record'.vendor, IF "contact" \in DOMAIN t THEN Trim(t.contact) ELSE Contact)
    BY <1>3 DEF SubmitQuote
  <2>2. (IF "contact" \in DOMAIN t THEN Trim(t.contact) ELSE Contact) \in Texts
    BY <2>1, QuoteContact
  <2> QED BY <1>1, <1>2, <2>1, <2>2, NamesKeep
<1>4. CASE SubmitServiceLog(t)
  <2>1. entity = "serviceLog" /\ record' = FormRow(t)
    BY <1>4 DEF SubmitServiceLog
  <2>2. CASE record'.vendor = Null
    BY <1>1, <1>2, <1>4, <2>1, <2>2 DEF SubmitServiceLog, RecordsTypeOK
  <2>3. CASE record'.vendor # Null
    <3>1. Names(record'.vendor, lookups[record'.vendor])
      BY <1>4, <2>3 DEF SubmitServiceLog
    <3>2. record'.vendor \in DOMAIN lookups
      <4>1. "vendor" \in Cols(entity) /\ "vendor" \notin Unheld(entity) /\ "vendor" \notin Omitted(entity)
        BY <2>1, ServiceLogFacts DEF Facts, Unheld, Omitted
      <4>2. record'.vendor = Known(Held("vendor", t))
        BY <2>1, <4>1 DEF FormRow
      <4> QED BY <2>3, <4>2 DEF Known
    <3>3. lookups[record'.vendor] \in Texts
      BY <3>2 DEF RecordsTypeOK
    <3> QED BY <1>1, <1>2, <2>1, <3>1, <3>3, NamesKeep
  <2> QED BY <2>2, <2>3
<1>5. CASE SubmitMaintenance(t) /\ UNCHANGED vendors
  BY <1>1, <1>2, <1>5, ScheduledIs DEF SubmitMaintenance, RecordsTypeOK
<1>6. CASE /\ \/ SubmitHouse(t) \/ SubmitProject(t) \/ SubmitIncident(t)
              \/ SubmitAppliance(t) \/ SubmitVendor(t) \/ SubmitDocument(t)
           /\ UNCHANGED vendors
  BY <1>1, <1>2, <1>6 DEF SubmitHouse, SubmitProject, SubmitIncident, SubmitAppliance,
     SubmitVendor, SubmitDocument, RecordsTypeOK
<1> QED BY <1>3, <1>4, <1>5, <1>6 DEF Submits

\* The part of the invariant that no write of a record touches.
LEMMA WroteKeeps ==
    ASSUME RecordsTypeOK, NEW by, NEW t, Wrote(by, t), UNCHANGED lookups,
           IsRow(record'), deleted' \in BOOLEAN,
           vendors' \in [VendorNames -> [contact : Texts, alive : BOOLEAN]]
    PROVE  RecordsTypeOK'
BY DEF RecordsTypeOK, Wrote, IsRow

LEMMA FormStep ==
    ASSUME RecordsTypeOK, EditForm \/ EditInline
    PROVE  RecordsTypeOK'
<1>1. IsRow(record) /\ UNCHANGED lookups /\ entity \in Entities
  BY LiveIsRow DEF EditForm, EditInline, RecordsTypeOK
<1>2. CASE EditForm
  <2>1. PICK t \in Typed(entity, FormInputs[entity], TRUE), D \in Resets :
          Submits(Opened(t, D)) /\ Wrote("form", t)
    BY <1>2 DEF EditForm
  <2>2. Submitted(t)
    BY <1>1, <2>1, FormInputsFit, TypedInputs, TypedIsSubmitted
  <2>3. Submitted(Opened(t, D))
    BY <2>1, <2>2, OpenedIsSubmitted
  <2> QED BY <1>1, <2>1, <2>3, SubmitsKeep, WroteKeeps
<1>3. CASE EditInline
  <2>1. PICK t \in Typed(entity, InlineInputs[entity], TRUE) : Submits(t) /\ Wrote("inline", t)
    BY <1>3 DEF EditInline
  <2>2. Submitted(t)
    BY <1>1, <2>1, InlineInputsFit, SubsetFits, TypedInputs, TypedIsSubmitted
  <2> QED BY <1>1, <2>1, <2>2, SubmitsKeep, WroteKeeps
<1> QED BY <1>2, <1>3

\* The columns a new record gets where nothing was typed.
LEMMA DefaultIs ==
    ASSUME RecordsTypeOK, NEW c \in Cols(entity)
    PROVE  DefaultRow[c] \in FieldValue(Kind(entity, c))
<1>1. Kind(entity, c) \in KindNames
  BY KindIs
<1>2. Zero(Kind(entity, c)) \in FieldValue(Kind(entity, c))
  BY <1>1, ZeroIsValue
<1>3. c \in {"season", "file"} => Kind(entity, c) = "choice"
  BY ColumnFacts DEF Facts, RecordsTypeOK
<1>4. CASE Kind(entity, c) = "choice"
  BY <1>4 DEF DefaultRow, FieldValue
<1>5. CASE c = "status" /\ Kind(entity, c) # "choice"
  <2>1. Kind(entity, c) = "status"
    BY <1>5, ColumnFacts DEF Facts, RecordsTypeOK
  <2> QED BY <1>5, <1>3, <2>1 DEF DefaultRow, FieldValue, Domain
<1>6. CASE c # "status" /\ Kind(entity, c) # "choice"
  BY <1>2, <1>6, <1>3 DEF DefaultRow
<1> QED BY <1>4, <1>5, <1>6

LEMMA OfferedIs ==
    ASSUME RecordsTypeOK, NEW c \in Cols(entity)
    PROVE  /\ Offered(c, DefaultRow[c]) \in FieldValue(Kind(entity, c))
           /\ c = "vendor" => Offered(c, DefaultRow[c]) = DefaultRow[c]
BY DefaultIs, FirstIsValue DEF Offered

LEMMA CreateByFormStep ==
    ASSUME RecordsTypeOK, CreateByForm
    PROVE  RecordsTypeOK'
<1> DEFINE MadeRow(t) == [c \in Cols(entity) |->
                        IF entity = "serviceLog" /\ c = "vendor" /\ c \in DOMAIN t THEN Known(t[c])
                        ELSE IF c \in DOMAIN t THEN Parsed(Kind(entity, c), t[c])
                        ELSE IF c = "extractedText" /\ "file" \in DOMAIN t THEN "a"
                        ELSE Offered(c, DefaultRow[c])]
<1>1. PICK t \in Typed(entity, StartInputs[entity], TRUE) :
        /\ entity = "quote" => {"vendor", "total"} \subseteq DOMAIN t
        /\ record' = IF entity # "maintenance" THEN MadeRow(t)
                     ELSE Scheduled(MadeRow(t), IF "interval" \in DOMAIN t THEN "interval"
                                            ELSE IF "dueDate" \in DOMAIN t THEN "due" ELSE "none")
        /\ CASE entity = "quote" -> Names(MadeRow(t).vendor, "")
             [] entity = "serviceLog" /\ MadeRow(t).vendor # Null -> Names(MadeRow(t).vendor, lookups[MadeRow(t).vendor])
             [] OTHER -> UNCHANGED vendors
        /\ Wrote("form", t)
  BY DEF CreateByForm
<1>2. entity \in Entities /\ UNCHANGED <<deleted, lookups>> /\ deleted' \in BOOLEAN
  BY DEF CreateByForm, RecordsTypeOK
<1>3. Inputs(t, entity, StartInputs[entity], TRUE)
  BY <1>1, <1>2, StartInputsFit, SubsetFits, TypedInputs
<1> DEFINE r == MadeRow(t)
<1>4. ASSUME NEW c \in Cols(entity) PROVE r[c] \in FieldValue(Kind(entity, c))
  <2>1. Kind(entity, c) \in KindNames /\ Offered(c, DefaultRow[c]) \in FieldValue(Kind(entity, c))
    BY KindIs, OfferedIs
  <2>2. c \in DOMAIN t => t[c] \in FieldValue(Kind(entity, c))
    BY <1>2, <1>3, TypableIsValue DEF Inputs
  <2>3. c \in DOMAIN t => Parsed(Kind(entity, c), t[c]) \in FieldValue(Kind(entity, c))
    BY <2>1, <2>2, ParsedIsValue DEF RecordsTypeOK
  <2>4. c = "extractedText" => "a" \in FieldValue(Kind(entity, c))
    <3>1. c = "extractedText" => Kind(entity, c) = "text"
      BY <1>2, ColumnFacts DEF Facts
    <3> QED BY <3>1 DEF FieldValue, Domain, Texts
  <2>5. c = "vendor" /\ c \in DOMAIN t => Known(t[c]) \in FieldValue(Kind(entity, c))
    <3>1. c = "vendor" => Kind(entity, c) = "vendor"
      BY <1>2, ColumnFacts DEF Facts
    <3> QED BY <2>2, <3>1 DEF FieldValue, Domain, Known
  <2> QED BY <2>1, <2>3, <2>4, <2>5
<1>5. entity = "quote" => r.vendor \in VendorNames
  <2> SUFFICES ASSUME entity = "quote" PROVE r.vendor \in VendorNames
    OBVIOUS
  <2>1. "vendor" \in Cols(entity) /\ Kind(entity, "vendor") = "vendor" /\ "vendor" \in DOMAIN t
    BY <1>1, QuoteFacts DEF Facts
  <2>2. t.vendor \in VendorNames
    BY <1>3, <2>1 DEF Inputs, Typable, Domain
  <2> QED BY <2>1, <2>2 DEF Parsed
<1>6. DOMAIN r = Cols(entity)
  OBVIOUS
<1>7. IsRow(r)
  <2> HIDE DEF r
  <2> QED BY <1>4, <1>5, <1>6 DEF IsRow
<1>8. IsRow(record')
  <2> HIDE DEF r
  <2>1. CASE entity = "maintenance"
    <3>1. PICK type : record' = Scheduled(r, type)
      <4> HIDE DEF MadeRow
      <4> QED BY <1>1, <2>1 DEF r
    <3> QED BY <1>7, <2>1, <3>1, ScheduledIs
  <2>2. CASE entity # "maintenance"
    BY <1>1, <1>7, <2>2 DEF r
  <2> QED BY <2>1, <2>2
<1>9. vendors' \in [VendorNames -> [contact : Texts, alive : BOOLEAN]]
  <2>1. CASE entity = "quote"
    <3>1. Names(r.vendor, "")
      <4> HIDE DEF MadeRow
      <4> QED BY <1>1, <2>1
    <3>2. "" \in Texts
      BY DEF Texts
    <3> HIDE DEF r
    <3> QED BY <3>1, <3>2, NamesKeep
  <2>2. CASE entity = "serviceLog" /\ r.vendor # Null
    <3>1. Names(r.vendor, lookups[r.vendor])
      <4> HIDE DEF MadeRow
      <4> QED BY <1>1, <2>2
    <3>2. r.vendor \in DOMAIN lookups
      <4>1. "vendor" \in Cols(entity) /\ Kind(entity, "vendor") = "vendor"
            /\ DefaultRow["vendor"] = Null
        BY <2>2, ServiceLogFacts DEF Facts, DefaultRow, Zero
      <4>2. Offered("vendor", DefaultRow["vendor"]) = Null
        BY <4>1, OfferedIs
      <4> QED BY <2>2, <4>1, <4>2 DEF Known
    <3>3. lookups[r.vendor] \in Texts
      <4> HIDE DEF r
      <4> QED BY <3>2 DEF RecordsTypeOK
    <3> HIDE DEF r
    <3> QED BY <3>1, <3>3, NamesKeep
  <2>3. CASE entity # "quote" /\ ~(entity = "serviceLog" /\ r.vendor # Null)
    <3>1. UNCHANGED vendors
      <4> HIDE DEF MadeRow
      <4> QED BY <1>1, <2>3
    <3> QED BY <3>1 DEF RecordsTypeOK
  <2> HIDE DEF r
  <2> QED BY <2>1, <2>2, <2>3
<1> QED
  <2> HIDE DEF r, MadeRow
  <2> QED BY <1>1, <1>2, <1>8, <1>9, WroteKeeps

LEMMA ResolvedIs ==
    ASSUME RecordsTypeOK, NEW name \in VendorNames
    PROVE  Resolved(name) \subseteq Texts
<1>1. vendors[name].contact \in Texts
  BY DEF RecordsTypeOK
<1>2. "" \in Texts
  BY DEF Texts
<1> QED BY <1>1, <1>2 DEF Resolved

LEMMA CreateByCliStep ==
    ASSUME RecordsTypeOK, CreateByCli
    PROVE  RecordsTypeOK'
<1> DEFINE MadeRow(t) == [c \in Cols(entity) |-> IF c \in DOMAIN t THEN t[c]
                                              ELSE IF c = "entity" THEN "x" ELSE DefaultRow[c]]
<1>1. PICK t \in Typed(entity, AddInputs[entity], FALSE) :
        /\ entity = "quote" => "vendor" \in DOMAIN t
        /\ record' = MadeRow(t)
        /\ IF "vendor" \in DOMAIN t /\ t.vendor # Null
           THEN \E contact \in Resolved(t.vendor) : Names(t.vendor, contact)
           ELSE UNCHANGED vendors
        /\ Wrote("cli", t)
  BY DEF CreateByCli
<1>2. entity \in Entities /\ UNCHANGED <<deleted, lookups>> /\ deleted' \in BOOLEAN
  BY DEF CreateByCli, RecordsTypeOK
<1>3. Inputs(t, entity, AddInputs[entity], FALSE)
  BY <1>1, <1>2, AddInputsFit, SubsetFits, TypedInputs
<1> DEFINE r == MadeRow(t)
<1>4. ASSUME NEW c \in Cols(entity) PROVE r[c] \in FieldValue(Kind(entity, c))
  <2>1. Kind(entity, c) \in KindNames /\ DefaultRow[c] \in FieldValue(Kind(entity, c))
    BY KindIs, DefaultIs
  <2>2. c \in DOMAIN t => t[c] \in FieldValue(Kind(entity, c))
    BY <1>2, <1>3, TypableIsValue DEF Inputs
  <2>3. c = "entity" => "x" \in FieldValue(Kind(entity, c))
    <3>1. c = "entity" => Kind(entity, c) = "ref"
      BY <1>2, ColumnFacts DEF Facts
    <3> QED BY <3>1 DEF FieldValue, Domain
  <2> QED BY <2>1, <2>2, <2>3
<1>5. "vendor" \in DOMAIN t => t.vendor \in VendorNames \cup {Null}
  <2> SUFFICES ASSUME "vendor" \in DOMAIN t PROVE t.vendor \in VendorNames \cup {Null}
    OBVIOUS
  <2>1. "vendor" \in Cols(entity) /\ t.vendor \in Typable(entity, "vendor", FALSE)
    BY <1>2, <1>3, AddInputsFit DEF Inputs
  <2>2. Kind(entity, "vendor") = "vendor"
    BY <1>2, <2>1, ColumnFacts DEF Facts
  <2> QED BY <2>1, <2>2 DEF Typable, Domain
<1>6. entity = "quote" => r.vendor \in VendorNames
  <2> SUFFICES ASSUME entity = "quote" PROVE r.vendor \in VendorNames
    OBVIOUS
  <2>1. "vendor" \in Cols(entity) /\ Kind(entity, "vendor") = "vendor" /\ "vendor" \in DOMAIN t
    BY <1>1, QuoteFacts DEF Facts
  <2>2. t.vendor \in VendorNames
    BY <1>3, <2>1 DEF Inputs, Typable, Domain
  <2> QED BY <2>1, <2>2
<1>7. DOMAIN r = Cols(entity)
  OBVIOUS
<1>8. IsRow(r)
  <2> HIDE DEF r
  <2> QED BY <1>4, <1>6, <1>7 DEF IsRow
<1>9. vendors' \in [VendorNames -> [contact : Texts, alive : BOOLEAN]]
  <2> HIDE DEF r, MadeRow
  <2>1. CASE "vendor" \in DOMAIN t /\ t.vendor # Null
    <3>1. PICK contact \in Resolved(t.vendor) : Names(t.vendor, contact)
      BY <1>1, <2>1
    <3>2. contact \in Texts
      BY <1>5, <2>1, <3>1, ResolvedIs
    <3> QED BY <3>1, <3>2, NamesKeep
  <2>2. CASE ~("vendor" \in DOMAIN t /\ t.vendor # Null)
    BY <1>1, <2>2 DEF RecordsTypeOK
  <2> QED BY <2>1, <2>2
<1> QED
  <2> HIDE DEF MadeRow
  <2> QED BY <1>1, <1>2, <1>8, <1>9, WroteKeeps

LEMMA EditByCliStep ==
    ASSUME RecordsTypeOK, EditByCli
    PROVE  RecordsTypeOK'
<1> DEFINE MadeRow(t) == [c \in Cols(entity) |->
                        IF c \in DOMAIN t THEN t[c]
                        ELSE IF c \in Loaded(entity) THEN record[c] ELSE Zero(Kind(entity, c))]
<1>1. PICK t \in Typed(entity, EditInputs[entity], FALSE) :
        /\ record' = MadeRow(t)
        /\ IF "vendor" \notin Cols(entity) \/ record'.vendor = Null THEN UNCHANGED vendors
           ELSE IF "vendor" \in DOMAIN t
           THEN \E contact \in Resolved(t.vendor) : Names(t.vendor, contact)
           ELSE Names(record.vendor, vendors[record.vendor].contact)
        /\ Wrote("cli", t)
  BY DEF EditByCli
<1>2. /\ entity \in Entities /\ UNCHANGED <<deleted, lookups>> /\ deleted' \in BOOLEAN
      /\ IsRow(record)
  BY LiveIsRow DEF EditByCli, RecordsTypeOK
<1>3. Inputs(t, entity, EditInputs[entity], FALSE)
  BY <1>1, <1>2, EditInputsFit, SubsetFits, TypedInputs
<1> DEFINE r == MadeRow(t)
<1>4. ASSUME NEW c \in Cols(entity) PROVE r[c] \in FieldValue(Kind(entity, c))
  <2>1. Kind(entity, c) \in KindNames /\ Zero(Kind(entity, c)) \in FieldValue(Kind(entity, c))
    BY KindIs, ZeroIsValue
  <2>2. c \in DOMAIN t => t[c] \in FieldValue(Kind(entity, c))
    BY <1>2, <1>3, TypableIsValue DEF Inputs
  <2>3. record[c] \in FieldValue(Kind(entity, c))
    BY <1>2 DEF IsRow
  <2> QED BY <2>1, <2>2, <2>3
<1>5. "vendor" \in Cols(entity) =>
         /\ Kind(entity, "vendor") = "vendor" /\ "vendor" \in Loaded(entity)
         /\ r.vendor = IF "vendor" \in DOMAIN t THEN t.vendor ELSE record.vendor
         /\ r.vendor \in VendorNames \cup {Null}
  <2> SUFFICES ASSUME "vendor" \in Cols(entity)
               PROVE  /\ Kind(entity, "vendor") = "vendor" /\ "vendor" \in Loaded(entity)
                      /\ r.vendor = IF "vendor" \in DOMAIN t THEN t.vendor ELSE record.vendor
                      /\ r.vendor \in VendorNames \cup {Null}
    OBVIOUS
  <2>1. Kind(entity, "vendor") = "vendor" /\ "vendor" \in Loaded(entity)
    BY <1>2, ColumnFacts DEF Facts, Loaded
  <2>2. r.vendor = IF "vendor" \in DOMAIN t THEN t.vendor ELSE record.vendor
    BY <2>1
  <2>3. r.vendor \in FieldValue("vendor")
    <3> HIDE DEF r
    <3> QED BY <1>4, <2>1
  <2> HIDE DEF r
  <2> QED BY <2>1, <2>2, <2>3 DEF FieldValue, Domain
<1>6. entity = "quote" => r.vendor \in VendorNames
  <2> SUFFICES ASSUME entity = "quote" PROVE r.vendor \in VendorNames
    OBVIOUS
  <2>1. "vendor" \in Cols(entity)
    BY QuoteFacts DEF Facts
  <2>2. "vendor" \in DOMAIN t => t.vendor \in VendorNames
    BY <1>3, <1>5, <2>1 DEF Inputs, Typable, Domain
  <2>3. record.vendor \in VendorNames
    BY <1>2 DEF IsRow
  <2> HIDE DEF r
  <2> QED BY <1>5, <2>1, <2>2, <2>3
<1>7. DOMAIN r = Cols(entity)
  OBVIOUS
<1>8. IsRow(r) /\ record' = r
  <2> HIDE DEF r
  <2>1. record' = r
    <3> HIDE DEF MadeRow
    <3> QED BY <1>1 DEF r
  <2> QED BY <1>4, <1>6, <1>7, <2>1 DEF IsRow
<1>9. vendors' \in [VendorNames -> [contact : Texts, alive : BOOLEAN]]
  <2> HIDE DEF r, MadeRow
  <2>1. CASE "vendor" \notin Cols(entity) \/ record'.vendor = Null
    BY <1>1, <2>1 DEF RecordsTypeOK
  <2>2. CASE "vendor" \in Cols(entity) /\ record'.vendor # Null /\ "vendor" \in DOMAIN t
    <3>1. t.vendor \in VendorNames
      BY <1>5, <1>8, <2>2
    <3>2. PICK contact \in Resolved(t.vendor) : Names(t.vendor, contact)
      BY <1>1, <2>2
    <3>3. contact \in Texts
      BY <3>1, <3>2, ResolvedIs
    <3> QED BY <3>2, <3>3, NamesKeep
  <2>3. CASE "vendor" \in Cols(entity) /\ record'.vendor # Null /\ "vendor" \notin DOMAIN t
    <3>1. record.vendor \in VendorNames
      BY <1>5, <1>8, <2>3
    <3>2. Names(record.vendor, vendors[record.vendor].contact)
      BY <1>1, <2>3
    <3>3. vendors[record.vendor].contact \in Texts
      BY <3>1 DEF RecordsTypeOK
    <3> QED BY <3>2, <3>3, NamesKeep
  <2> QED BY <2>1, <2>2, <2>3
<1> QED
  <2> HIDE DEF r, MadeRow
  <2> QED BY <1>1, <1>2, <1>8, <1>9, WroteKeeps

LEMMA MeanwhileStep ==
    ASSUME RecordsTypeOK, ChangeVendor \/ ChangeListed \/ ToggleUnits
    PROVE  RecordsTypeOK'
<1>1. CASE ChangeVendor
  <2>1. vendors' \in [VendorNames -> [contact : Texts, alive : BOOLEAN]]
    <3>1. PICK v \in VendorNames, contact \in {"", "a"}, alive \in BOOLEAN :
            vendors' = [vendors EXCEPT ![v] = [contact |-> contact, alive |-> alive]]
      BY <1>1 DEF ChangeVendor
    <3>2. contact \in Texts
      BY <3>1 DEF Texts
    <3> QED BY <3>1, <3>2 DEF RecordsTypeOK
  <2>2. DOMAIN lookups' \subseteq VendorNames /\ \A w \in DOMAIN lookups' : lookups'[w] \in Texts
    <3>1. lookups' = lookups \/ lookups' = Snapshot(vendors')
      BY <1>1 DEF ChangeVendor
    <3>2. lookups' = Snapshot(vendors') =>
            DOMAIN lookups' \subseteq VendorNames /\ \A w \in DOMAIN lookups' : lookups'[w] \in Texts
      <4>1. \A vs \in [VendorNames -> [contact : Texts, alive : BOOLEAN]] :
              /\ DOMAIN Snapshot(vs) \subseteq VendorNames
              /\ \A w \in DOMAIN Snapshot(vs) : Snapshot(vs)[w] \in Texts
        BY SnapshotIs
      <4> QED BY <2>1, <4>1
    <3> QED BY <3>1, <3>2 DEF RecordsTypeOK
  <2>3. /\ entity' = entity /\ record' = record /\ deleted' = deleted /\ metric' = metric
        /\ edits' = edits + 1 /\ unlisted' = unlisted
    BY <1>1 DEF ChangeVendor
  <2>4. record' = NoRow \/ IsRow(record)'
    BY <2>3 DEF RecordsTypeOK, IsRow
  <2> QED BY <2>1, <2>2, <2>3, <2>4 DEF RecordsTypeOK
<1>2. CASE ToggleUnits
  BY <1>2 DEF ToggleUnits, RecordsTypeOK, IsRow
<1>3. CASE ChangeListed
  BY <1>3 DEF ChangeListed, RecordsTypeOK, IsRow
<1> QED BY <1>1, <1>2, <1>3

LEMMA RecordsStep ==
    ASSUME RecordsTypeOK, [RecordNext]_recordVars
    PROVE  RecordsTypeOK'
<1>1. CASE UNCHANGED recordVars
  BY <1>1 DEF recordVars, RecordsTypeOK, IsRow
<1> QED
  BY <1>1, CreateByFormStep, FormStep, CreateByCliStep, EditByCliStep, MeanwhileStep
  DEF RecordNext

LEMMA FirstRowIs ==
    ASSUME NEW e \in Entities, NEW c \in Cols(e)
    PROVE  FirstRow(e)[c] \in FieldValue(Kind(e, c)) /\ (c = "vendor" => FirstRow(e)[c] = "A")
<1>1. Kind(e, c) \in KindNames /\ (c = "vendor" => Kind(e, c) = "vendor")
  BY ColumnFacts DEF Facts
<1>2. Kind(e, c) = "area" => FirstRow(e)[c] \in Nat
  <2>1. (CHOOSE a \in Areas : a # 0) \in Nat
    BY RecordsAssumption
  <2>2. Kind(e, c) = "area" => FirstRow(e)[c] = CHOOSE a \in Areas : a # 0
    BY DEF FirstRow
  <2> QED BY <2>1, <2>2
<1>3. Kind(e, c) # "area" => FirstRow(e)[c] \in FieldValue(Kind(e, c))
  BY <1>1 DEF FirstRow, FieldValue, Domain, Texts, KindNames, VendorNames
<1>4. Kind(e, c) = "vendor" => FirstRow(e)[c] = "A"
  BY DEF FirstRow
<1> QED BY <1>1, <1>2, <1>3, <1>4 DEF FieldValue

LEMMA RecordsInit ==
    ASSUME RecordInit
    PROVE  RecordsTypeOK
<1>1. /\ entity \in Entities /\ metric \in BOOLEAN /\ deleted \in BOOLEAN /\ edits \in Nat
      /\ unlisted = {}
  BY DEF RecordInit
<1>2. ASSUME record # NoRow PROVE IsRow(record)
  <2>1. record \in Rows(entity)
    BY <1>2 DEF RecordInit
  <2>2. PICK c, v : /\ c \in Cols(entity) /\ v \in Typable(entity, c, FALSE)
                    /\ record = [FirstRow(entity) EXCEPT ![c] = v]
    <3>1. PICK c \in Cols(entity) :
             record \in {[FirstRow(entity) EXCEPT ![c] = v] : v \in Typable(entity, c, FALSE)}
      BY <2>1 DEF Rows
    <3> QED BY <3>1
  <2>3. DOMAIN FirstRow(entity) = Cols(entity)
    BY DEF FirstRow
  <2>4. v \in FieldValue(Kind(entity, c))
    BY <1>1, <2>2, TypableIsValue
  <2>5. \A d \in Cols(entity) : record[d] = IF d = c THEN v ELSE FirstRow(entity)[d]
    BY <2>2, <2>3
  <2>6. \A d \in Cols(entity) : record[d] \in FieldValue(Kind(entity, d))
    BY <1>1, <2>4, <2>5, FirstRowIs
  <2>7. entity = "quote" => record.vendor \in VendorNames
    <3> SUFFICES ASSUME entity = "quote" PROVE record.vendor \in VendorNames
      OBVIOUS
    <3>1. "vendor" \in Cols(entity) /\ Kind(entity, "vendor") = "vendor"
      BY QuoteFacts DEF Facts
    <3>2. c = "vendor" => v \in VendorNames
      BY <2>2, <3>1 DEF Typable, Domain
    <3>3. FirstRow(entity)["vendor"] = "A"
      BY <1>1, <3>1, FirstRowIs
    <3> QED BY <2>5, <3>1, <3>2, <3>3 DEF VendorNames
  <2>8. DOMAIN record = Cols(entity)
    BY <2>2, <2>3 DEF FirstRow
  <2> QED BY <2>6, <2>7, <2>8 DEF IsRow
<1>3. vendors \in [VendorNames -> [contact : Texts, alive : BOOLEAN]]
  <2>1. vendors \in [VendorNames -> [contact : {"", "a"}, alive : {TRUE}]]
    BY DEF RecordInit
  <2>2. {"", "a"} \subseteq Texts
    BY DEF Texts
  <2>3. [contact : {"", "a"}, alive : {TRUE}] \subseteq [contact : Texts, alive : BOOLEAN]
    BY <2>2
  <2> QED BY <2>1, <2>3
<1>4. DOMAIN lookups \subseteq VendorNames /\ \A v \in DOMAIN lookups : lookups[v] \in Texts
  <2>1. lookups = Snapshot(vendors)
    BY DEF RecordInit
  <2> QED BY <1>3, <2>1, SnapshotIs
<1> QED BY <1>1, <1>2, <1>3, <1>4 DEF RecordsTypeOK

\* Whatever is typed into forms and cells or given to commands, each column of
\* the record holds a value of its kind, and a quote names a vendor.
THEOREM RecordTypeCorrect == RecordInit /\ [][RecordNext]_recordVars => []RecordsTypeOK
BY RecordsInit, RecordsStep, PTL

-----------------------------------------------------------------------------
(***************************************************************************)
(* Records: EditsKeepRest.                                                 *)
(***************************************************************************)
SeenAs(c) == Seen(Kind(entity, c), record'[c]) = Seen(Kind(entity, c), record[c])

\* A column through a form.
LEMMA FormRowKeeps ==
    ASSUME RecordsTypeOK, IsRow(record), NEW t, Submitted(t), NEW c \in Cols(entity) \ DOMAIN t
    PROVE  \/ Seen(Kind(entity, c), FormRow(t)[c]) = Seen(Kind(entity, c), record[c])
           \/ c \in Unheld(entity)
           \/ c = "interval" /\ record[c] < 0
           \/ entity = "serviceLog" /\ c = "vendor" /\ record.vendor \notin DOMAIN lookups
<1>1. \/ Seen(Kind(entity, c), Held(c, t)) = Seen(Kind(entity, c), record[c])
      \/ c = "interval" /\ record[c] < 0
  BY HeldIs
<1>2. CASE c \in Omitted(entity)
  BY <1>2 DEF FormRow
<1>3. CASE c \notin Omitted(entity) /\ ~(entity = "serviceLog" /\ c = "vendor")
  BY <1>1, <1>3 DEF FormRow
<1>4. CASE c \notin Omitted(entity) /\ entity = "serviceLog" /\ c = "vendor"
  <2>1. Kind(entity, c) = "vendor"
    BY <1>4, ServiceLogFacts DEF Facts
  <2>2. Held(c, t) = record.vendor
    BY <1>4, <2>1 DEF Held, Reread, Printed, Parsed
  <2>3. c \notin Unheld(entity) => FormRow(t)[c] = Known(record.vendor)
    BY <1>4, <2>2 DEF FormRow
  <2> QED BY <1>4, <2>3 DEF Known
<1> QED BY <1>2, <1>3, <1>4

\* The schedule of a record whose form was not told another.
LEMMA ScheduleKeeps ==
    ASSUME RecordsTypeOK, IsRow(record), entity = "maintenance", NEW t,
           NEW c \in {"interval", "dueDate"},
           {"interval", "dueDate"} \cap DOMAIN t = {},
           ~(record.interval > 0 /\ record.dueDate # Null)
    PROVE  (c = "interval" /\ record.interval < 0) \/ Scheduled(FormRow(t), TypedSchedule(t))[c] = record[c]
<1>1. /\ {"interval", "dueDate"} \subseteq Cols(entity)
      /\ Kind(entity, "interval") = "interval" /\ Kind(entity, "dueDate") = "date"
  BY MaintenanceFacts DEF Facts
<1>2. record.interval \in {0, 6, -6}
  BY <1>1 DEF IsRow, FieldValue, Domain
<1> DEFINE shown(d) == IF d = "interval" /\ ~(record[d] > 0) THEN 0 ELSE record[d]
<1>3. \A d \in {"interval", "dueDate"} : FormRow(t)[d] = shown(d)
  <2> SUFFICES ASSUME NEW d \in {"interval", "dueDate"} PROVE FormRow(t)[d] = shown(d)
    OBVIOUS
  <2>1. Held(d, t) = shown(d)
    BY <1>1 DEF Held, Reread, Printed, Parsed
  <2>2. d \notin Unheld(entity) /\ d \notin Omitted(entity) /\ d \in Cols(entity)
    BY <1>1, MaintenanceFacts DEF Facts, Omitted
  <2> QED BY <2>1, <2>2 DEF FormRow
<1>4. TypedSchedule(t) = ScheduleType(record)
  BY DEF TypedSchedule
<1>5. DOMAIN FormRow(t) = Cols(entity)
  BY DEF FormRow
<1> DEFINE r == FormRow(t)
<1>6. r.interval = (IF record.interval > 0 THEN record.interval ELSE 0) /\ r.dueDate = record.dueDate
  BY <1>3
<1>7. /\ Scheduled(r, TypedSchedule(t)).interval = IF TypedSchedule(t) = "interval" THEN r.interval ELSE 0
      /\ Scheduled(r, TypedSchedule(t)).dueDate = IF TypedSchedule(t) = "due" THEN r.dueDate ELSE Null
  <2> HIDE DEF r
  <2>1. DOMAIN r = Cols(entity)
    BY <1>5 DEF r
  <2> QED BY <1>1, <2>1 DEF Scheduled
<1> HIDE DEF r, shown
<1>8. /\ Scheduled(r, TypedSchedule(t)).interval = record.interval \/ record.interval < 0
      /\ Scheduled(r, TypedSchedule(t)).dueDate = record.dueDate
  <2>1. CASE record.interval > 0
    BY <1>4, <1>6, <1>7, <2>1 DEF ScheduleType
  <2>2. CASE ~(record.interval > 0) /\ record.dueDate # Null
    BY <1>2, <1>4, <1>6, <1>7, <2>2 DEF ScheduleType
  <2>3. CASE ~(record.interval > 0) /\ record.dueDate = Null
    BY <1>2, <1>4, <1>6, <1>7, <2>3 DEF ScheduleType
  <2> QED BY <2>1, <2>2, <2>3
<1> QED BY <1>8 DEF r

\* What a submitted form leaves of a column nobody typed.
LEMMA SubmitsKeepRest ==
    ASSUME RecordsTypeOK, IsRow(record), NEW t, Submitted(t), Submits(t),
           NEW by, by # "cli", last'.by = by,
           last'.typed \cap {"interval", "dueDate"} = DOMAIN t \cap {"interval", "dueDate"},
           NEW c \in Cols(entity) \ DOMAIN t
    PROVE  SeenAs(c) \/ Loses(c)
<1>1. last'.by = by /\ last'.by # "cli"
  OBVIOUS
<1>2. entity \in Entities /\ Facts(entity)
  BY ColumnFacts DEF RecordsTypeOK
<1>3. CASE SubmitMaintenance(t)
  <2>1. entity = "maintenance" /\ record' = Scheduled(FormRow(t), TypedSchedule(t))
    BY <1>3 DEF SubmitMaintenance
  <2>2. CASE c \notin {"interval", "dueDate"}
    <3>1. DOMAIN FormRow(t) = Cols(entity)
      BY DEF FormRow
    <3>2. record'[c] = FormRow(t)[c]
      BY <2>1, <2>2, <3>1 DEF Scheduled
    <3>3. c \notin Unheld(entity)
      BY <1>2, <2>1 DEF Facts
    <3>4. SeenAs(c) \/ (entity = "serviceLog" /\ c = "vendor") \/ c = "interval"
      BY <3>2, <3>3, FormRowKeeps DEF SeenAs
    <3> QED BY <2>1, <2>2, <3>4
  <2>3. CASE c \in {"interval", "dueDate"}
    <3>1. CASE {"interval", "dueDate"} \cap DOMAIN t # {} \/ (record.interval > 0 /\ record.dueDate # Null)
      BY <1>1, <2>1, <2>3, <3>1 DEF Loses
    <3>2. CASE {"interval", "dueDate"} \cap DOMAIN t = {} /\ ~(record.interval > 0 /\ record.dueDate # Null)
      <4>1. (c = "interval" /\ record.interval < 0) \/ record'[c] = record[c]
        BY <2>1, <2>3, <3>2, ScheduleKeeps
      <4> QED BY <1>1, <4>1 DEF SeenAs, Loses
    <3> QED BY <3>1, <3>2
  <2> QED BY <2>2, <2>3
<1>4. CASE ~SubmitMaintenance(t)
  <2>1. record' = FormRow(t)
    BY <1>4 DEF Submits, SubmitQuote, SubmitServiceLog, SubmitHouse, SubmitProject,
       SubmitIncident, SubmitAppliance, SubmitVendor, SubmitDocument
  <2>2. CASE c \in Unheld(entity)
    <3>1. entity = "document" \/ c = "previousStatus"
      BY <2>2 DEF Unheld
    <3> QED BY <1>1, <2>2, <3>1 DEF Loses
  <2>3. CASE entity = "serviceLog" /\ c = "vendor" /\ record.vendor \notin DOMAIN lookups
    BY <1>1, <2>3 DEF Loses
  <2>4. CASE c = "interval" /\ record[c] < 0
    BY <1>1, <2>4 DEF Loses
  <2> QED BY <2>1, <2>2, <2>3, <2>4, FormRowKeeps DEF SeenAs
<1> QED BY <1>3, <1>4

LEMMA RestStep ==
    ASSUME RecordsTypeOK, [RecordNext]_recordVars, Edited,
           NEW c \in Cols(entity) \ last'.typed
    PROVE  SeenAs(c) \/ Loses(c)
<1>1. CASE EditForm \/ EditInline
  <2>1. IsRow(record) /\ entity \in Entities
    BY <1>1, LiveIsRow DEF EditForm, EditInline, RecordsTypeOK
  <2>2. CASE EditForm
    <3>1. PICK t \in Typed(entity, FormInputs[entity], TRUE), D \in Resets :
            Submits(Opened(t, D)) /\ Wrote("form", t)
      BY <2>2 DEF EditForm
    <3>2. Submitted(t)
      BY <2>1, <3>1, FormInputsFit, TypedInputs, TypedIsSubmitted
    <3>3. PICK o : o = Opened(t, D)
      OBVIOUS
    <3>4. /\ Submitted(o) /\ Submits(o)
          /\ D \subseteq Unoffered /\ DOMAIN o = DOMAIN t \cup D
          /\ D \cap {"interval", "dueDate"} = {}
      BY <3>1, <3>2, <3>3, OpenedIsSubmitted
    <3>5. last'.by = "form" /\ last'.typed = DOMAIN t
      BY <3>1 DEF Wrote
    <3>6. CASE c \in D
      BY <3>4, <3>5, <3>6 DEF Loses
    <3>7. CASE c \notin D
      <4>1. c \in Cols(entity) \ DOMAIN o
        BY <3>4, <3>5, <3>7
      <4>2. last'.typed \cap {"interval", "dueDate"} = DOMAIN o \cap {"interval", "dueDate"}
        BY <3>4, <3>5
      <4> QED BY <2>1, <3>4, <3>5, <4>1, <4>2, SubmitsKeepRest
    <3> QED BY <3>6, <3>7
  <2>3. CASE EditInline
    <3>1. PICK t \in Typed(entity, InlineInputs[entity], TRUE) : Submits(t) /\ Wrote("inline", t)
      BY <2>3 DEF EditInline
    <3>2. Submitted(t)
      BY <2>1, <3>1, InlineInputsFit, SubsetFits, TypedInputs, TypedIsSubmitted
    <3>3. last'.by = "inline" /\ last'.typed = DOMAIN t
      BY <3>1 DEF Wrote
    <3> QED BY <2>1, <3>1, <3>2, <3>3, SubmitsKeepRest
  <2> QED BY <1>1, <2>2, <2>3
<1>2. CASE EditByCli
  <2>1. PICK t \in Typed(entity, EditInputs[entity], FALSE) :
          /\ record' = [k \in Cols(entity) |->
                          IF k \in DOMAIN t THEN t[k]
                          ELSE IF k \in Loaded(entity) THEN record[k] ELSE Zero(Kind(entity, k))]
          /\ Wrote("cli", t)
    BY <1>2 DEF EditByCli
  <2>2. last'.by = "cli" /\ last'.typed = DOMAIN t
    BY <2>1 DEF Wrote
  <2>3. CASE c \in Loaded(entity)
    BY <2>1, <2>2, <2>3 DEF SeenAs
  <2>4. CASE c \notin Loaded(entity)
    <3>1. entity = "document" /\ c = "ocrData"
      BY <2>4 DEF Loaded
    <3>2. c \in Unheld(entity)
      BY <3>1 DEF Unheld
    <3> QED BY <2>2, <3>1, <3>2 DEF Loses
  <2> QED BY <2>3, <2>4
<1>3. CASE CreateByForm \/ CreateByCli
  BY <1>3 DEF CreateByForm, CreateByCli, Edited
<1>4. CASE ChangeVendor \/ ChangeListed \/ ToggleUnits \/ UNCHANGED recordVars
  <2>1. CASE ChangeVendor \/ ChangeListed \/ ToggleUnits
    <3>1. last' = Other
      BY <2>1 DEF ChangeVendor, ChangeListed, ToggleUnits
    <3> QED BY <3>1 DEF Edited, Other
  <2>2. CASE UNCHANGED recordVars
    BY <2>2 DEF recordVars, Edited
  <2> QED BY <1>4, <2>1, <2>2
<1> QED BY <1>1, <1>2, <1>3, <1>4 DEF RecordNext

\* What a write tells a vendor of its contact.
LEMMA NamesTell ==
    ASSUME RecordsTypeOK, NEW name, NEW contact, Names(name, contact), NEW v \in VendorNames
    PROVE  vendors'[v].contact = vendors[v].contact \/ (v = name /\ vendors'[v].contact = contact)
BY DEF RecordsTypeOK, Names, FindOrCreateVendor

TellsNothing(v) ==
    \/ Trim(vendors'[v].contact) = Trim(vendors[v].contact)
    \/ entity = "serviceLog" /\ v \in DOMAIN lookups /\ vendors'[v].contact = lookups[v]

LEMMA VendorsStep ==
    ASSUME RecordsTypeOK, [RecordNext]_recordVars, Edited,
           last'.typed \cap {"vendor", "contact"} = {}, NEW v \in VendorNames
    PROVE  TellsNothing(v)
<1>0. vendors[v].contact \in Texts
  BY DEF RecordsTypeOK
<1>1. CASE EditForm \/ EditInline
  <2>1. IsRow(record) /\ entity \in Entities
    BY <1>1, LiveIsRow DEF EditForm, EditInline, RecordsTypeOK
  <2>2. PICK t : /\ Submits(t)
                 /\ "vendor" \notin DOMAIN t /\ "contact" \notin DOMAIN t
    <3>1. CASE EditForm
      <4>1. PICK u \in Typed(entity, FormInputs[entity], TRUE), D \in Resets :
              Submits(Opened(u, D)) /\ Wrote("form", u)
        BY <3>1 DEF EditForm
      <4>2. Submitted(u)
        BY <2>1, <4>1, FormInputsFit, TypedInputs, TypedIsSubmitted
      <4>3. DOMAIN Opened(u, D) = DOMAIN u \cup D /\ D \cap {"vendor", "contact", "interval", "dueDate"} = {}
        BY <4>2, OpenedIsSubmitted
      <4>4. last'.typed = DOMAIN u
        BY <4>1 DEF Wrote
      <4>5. "vendor" \notin DOMAIN Opened(u, D) /\ "contact" \notin DOMAIN Opened(u, D)
        BY <4>3, <4>4
      <4> QED BY <4>1, <4>5
    <3>2. CASE EditInline
      <4>1. PICK u \in Typed(entity, InlineInputs[entity], TRUE) : Submits(u) /\ Wrote("inline", u)
        BY <3>2 DEF EditInline
      <4> QED BY <4>1 DEF Wrote
    <3> QED BY <1>1, <3>1, <3>2
  <2>4. "vendor" \notin DOMAIN t /\ "contact" \notin DOMAIN t
    BY <2>2
  <2>5. CASE SubmitQuote(t)
    <3>1. entity = "quote" /\ record' = FormRow(t) /\ Names(record'.vendor, Contact)
      BY <2>4, <2>5 DEF SubmitQuote
    <3>2. record'.vendor = record.vendor
      <4>1. /\ "vendor" \in Cols(entity) /\ Kind(entity, "vendor") = "vendor"
            /\ "vendor" \notin Unheld(entity) /\ "vendor" \notin Omitted(entity)
        BY <3>1, QuoteFacts DEF Facts, Omitted
      <4> QED BY <2>4, <3>1, <4>1 DEF FormRow, Held, Reread, Printed, Parsed
    <3>3. \/ vendors'[v].contact = vendors[v].contact
          \/ v = record.vendor /\ vendors'[v].contact = Contact
      BY <3>1, <3>2, NamesTell
    <3> QED BY <1>0, <3>3, TrimIs DEF Contact, TellsNothing
  <2>6. CASE SubmitServiceLog(t)
    <3>1. entity = "serviceLog" /\ record' = FormRow(t)
      BY <2>6 DEF SubmitServiceLog
    <3>2. CASE record'.vendor = Null
      BY <2>6, <3>2 DEF SubmitServiceLog, TellsNothing
    <3>3. CASE record'.vendor # Null
      <4>1. Names(record'.vendor, lookups[record'.vendor])
        BY <2>6, <3>3 DEF SubmitServiceLog
      <4>2. record'.vendor \in DOMAIN lookups
        <5>1. "vendor" \in Cols(entity) /\ "vendor" \notin Unheld(entity) /\ "vendor" \notin Omitted(entity)
          BY <3>1, ServiceLogFacts DEF Facts, Unheld, Omitted
        <5>2. record'.vendor = Known(Held("vendor", t))
          BY <3>1, <5>1 DEF FormRow
        <5> QED BY <3>3, <5>2 DEF Known
      <4>3. \/ vendors'[v].contact = vendors[v].contact
            \/ v = record'.vendor /\ vendors'[v].contact = lookups[record'.vendor]
        BY <4>1, NamesTell
      <4> QED BY <3>1, <4>2, <4>3 DEF TellsNothing
    <3> QED BY <3>2, <3>3
  <2>7. CASE UNCHANGED vendors
    BY <2>7 DEF TellsNothing
  <2> QED BY <2>2, <2>5, <2>6, <2>7 DEF Submits
<1>2. CASE EditByCli
  <2>1. PICK t :
          /\ IF "vendor" \notin Cols(entity) \/ record'.vendor = Null THEN UNCHANGED vendors
             ELSE IF "vendor" \in DOMAIN t
             THEN \E contact \in Resolved(t.vendor) : Names(t.vendor, contact)
             ELSE Names(record.vendor, vendors[record.vendor].contact)
          /\ Wrote("cli", t)
    BY <1>2 DEF EditByCli
  <2>2. "vendor" \notin DOMAIN t
    BY <2>1 DEF Wrote
  <2>3. UNCHANGED vendors \/ Names(record.vendor, vendors[record.vendor].contact)
    BY <2>1, <2>2
  <2>4. CASE UNCHANGED vendors
    BY <2>4 DEF TellsNothing
  <2>5. CASE Names(record.vendor, vendors[record.vendor].contact)
    <3>1. \/ vendors'[v].contact = vendors[v].contact
          \/ v = record.vendor /\ vendors'[v].contact = vendors[record.vendor].contact
      BY <2>5, NamesTell
    <3> QED BY <3>1 DEF TellsNothing
  <2> QED BY <2>3, <2>4, <2>5
<1>3. CASE CreateByForm \/ CreateByCli
  BY <1>3 DEF CreateByForm, CreateByCli, Edited
<1>4. CASE ChangeVendor \/ ChangeListed \/ ToggleUnits \/ UNCHANGED recordVars
  <2>1. CASE ChangeVendor \/ ChangeListed \/ ToggleUnits
    <3>1. last' = Other
      BY <2>1 DEF ChangeVendor, ChangeListed, ToggleUnits
    <3> QED BY <3>1 DEF Edited, Other
  <2>2. CASE UNCHANGED recordVars
    BY <2>2 DEF recordVars, Edited
  <2> QED BY <1>4, <2>1, <2>2
<1> QED BY <1>1, <1>2, <1>3, <1>4 DEF RecordNext

\* For every square footage a house may have, and every length of a history of
\* edits: a form, a cell and a command change what was typed and nothing else of
\* the record or of a vendor, but for what Loses lists.
THEOREM EditsKeep == RecordInit /\ [][RecordNext]_recordVars => EditsKeepRest
<1>1. RecordsTypeOK /\ [RecordNext]_recordVars =>
        [Edited => \A c \in Cols(entity) \ last'.typed :
            \/ Seen(Kind(entity, c), record'[c]) = Seen(Kind(entity, c), record[c])
            \/ Loses(c)]_recordVars
  BY RestStep DEF SeenAs
<1>2. RecordsTypeOK /\ [RecordNext]_recordVars =>
        [Edited /\ last'.typed \cap {"vendor", "contact"} = {} => \A v \in VendorNames :
            \/ Trim(vendors'[v].contact) = Trim(vendors[v].contact)
            \/ entity = "serviceLog" /\ v \in DOMAIN lookups /\ vendors'[v].contact = lookups[v]]_recordVars
  BY VendorsStep DEF TellsNothing
<1> QED BY <1>1, <1>2, RecordTypeCorrect, PTL DEF EditsKeepRest, KeepsRest, VendorsKept

-----------------------------------------------------------------------------
(***************************************************************************)
(* Induction, over sets of numbers.                                        *)
(***************************************************************************)

LEMMA MinNat ==
    ASSUME NEW T, T \subseteq Nat, T # {}
    PROVE  \E x \in T : \A y \in T : x <= y
<1>1. PICK t \in T : t \in Nat
  OBVIOUS
<1> DEFINE D == 0..t
           Q == {0..x : x \in T \cap D}
           R == StrictSubsetOrdering(D)
<1>2. IsFiniteSet(D)
  BY <1>1, FS_Interval
<1>3. IsWellFoundedOn(R, SUBSET D)
  BY <1>2, FS_StrictSubsetOrderingWellFounded, FS_FiniteSubsetsOfFinite
<1>4. \A u, w \in SUBSET D : u \subseteq w /\ u # w => <<u, w>> \in R
  BY DEF StrictSubsetOrdering
<1> HIDE DEF R
<1>5. Q \subseteq SUBSET D /\ Q # {}
  <2>1. t \in T \cap D
    BY <1>1
  <2>2. \A x \in T \cap D : 0..x \subseteq D
    BY <1>1
  <2> QED BY <2>1, <2>2
<1>6. \E q \in Q : \A p \in Q : ~ (<<p, q>> \in R)
  <2> HIDE DEF Q, D
  <2> QED BY <1>3, <1>5, WFMin
<1>7. PICK x \in T \cap D : \A p \in Q : ~ (<<p, 0..x>> \in R)
  BY <1>6
<1>8. ASSUME NEW y \in T, y < x PROVE FALSE
  <2>1. y \in T \cap D /\ x \in Nat /\ y \in Nat
    BY <1>8, <1>1, <1>7
  <2>2. 0..y \subseteq 0..x /\ x \in 0..x /\ x \notin 0..y
    BY <1>8, <2>1
  <2>3. 0..y \in Q /\ 0..x \in Q
    BY <2>1, <1>7
  <2>4. 0..y \in SUBSET D /\ 0..x \in SUBSET D
    BY <2>3, <1>5
  <2> QED
    <3> HIDE DEF Q, D
    <3> QED BY <1>4, <1>7, <2>2, <2>3, <2>4
<1>9. \A y \in T : x \in Nat /\ y \in Nat
  BY <1>7
<1> QED BY <1>7, <1>8, <1>9

\* What holds of 0, and of the number after any it holds of, holds of all.
LEMMA Inductively ==
    ASSUME NEW T, 0 \in T, \A n \in Nat : n \in T => n + 1 \in T
    PROVE  Nat \subseteq T
<1> SUFFICES ASSUME ~ (Nat \subseteq T) PROVE FALSE
  OBVIOUS
<1>1. PICK x \in Nat \ T : \A y \in Nat \ T : x <= y
  BY MinNat, Nat \ T \subseteq Nat, Nat \ T # {}
<1>2. x # 0 /\ x - 1 \in Nat
  BY <1>1
<1>3. x - 1 \in T
  BY <1>1, <1>2
<1> QED BY <1>1, <1>2, <1>3

\* The least of some numbers
LEMMA MinOf ==
    ASSUME NEW T, T \subseteq Nat, T # {}
    PROVE  Min(T) \in T /\ \A y \in T : Min(T) <= y
BY MinNat DEF Min

LEMMA MinIs ==
    ASSUME NEW T, T \subseteq Nat, NEW x \in T, \A y \in T : x <= y
    PROVE  Min(T) = x
<1>1. Min(T) \in T /\ Min(T) <= x
  BY MinOf
<1>2. x <= Min(T) /\ x \in Nat /\ Min(T) \in Nat
  BY <1>1
<1> QED BY <1>1, <1>2

(***************************************************************************)
(* Only: the function it is defined by, and what it leaves.                *)
(***************************************************************************)

Keeps(s, S, n, F) ==
    F = [i \in 0..n |-> IF i = 0 THEN <<>> ELSE IF s[i] \in S THEN Append(F[i - 1], s[i]) ELSE F[i - 1]]

LEMMA KeepsExists ==
    ASSUME NEW s, NEW S, NEW n \in Nat
    PROVE  \E F : Keeps(s, S, n, F)
<1> DEFINE T == {m \in Nat : \E F : Keeps(s, S, m, F)}
<1>1. 0 \in T
  <2> DEFINE F == [i \in 0..0 |-> <<>>]
  <2>1. F = [i \in 0..0 |-> F[i]] /\ F[0] = <<>> /\ \A i \in 0..0 : i = 0
    OBVIOUS
  <2> HIDE DEF F
  <2>2. F = [i \in 0..0 |-> IF i = 0 THEN <<>> ELSE IF s[i] \in S THEN Append(F[i - 1], s[i]) ELSE F[i - 1]]
    BY <2>1
  <2> QED BY <2>2 DEF Keeps
<1>2. ASSUME NEW m \in Nat, m \in T PROVE m + 1 \in T
  <2>1. PICK F : Keeps(s, S, m, F)
    BY <1>2
  <2>2. \A i \in 0..m : F[i] = IF i = 0 THEN <<>> ELSE IF s[i] \in S THEN Append(F[i - 1], s[i]) ELSE F[i - 1]
    BY <2>1 DEF Keeps
  <2> DEFINE next == IF s[m + 1] \in S THEN Append(F[m], s[m + 1]) ELSE F[m]
             G == [i \in 0..(m + 1) |-> IF i = m + 1 THEN next ELSE F[i]]
  <2>3. G = [i \in 0..(m + 1) |-> G[i]] /\ G[m + 1] = next /\ \A i \in 0..m : G[i] = F[i]
    OBVIOUS
  <2>4. \A i \in 0..(m + 1) : i = m + 1 \/ i \in 0..m
    OBVIOUS
  <2> HIDE DEF G
  <2>5. ASSUME NEW i \in 0..(m + 1)
        PROVE  G[i] = IF i = 0 THEN <<>> ELSE IF s[i] \in S THEN Append(G[i - 1], s[i]) ELSE G[i - 1]
    <3>1. CASE i = m + 1
      <4>1. i - 1 = m /\ m \in 0..m /\ i # 0
        BY <3>1
      <4> QED BY <3>1, <4>1, <2>3
    <3>2. CASE i \in 0..m
      <4>1. i = 0 \/ i - 1 \in 0..m
        BY <3>2
      <4> HIDE DEF next
      <4> QED BY <2>2, <2>3, <4>1, <3>2
    <3> QED BY <3>1, <3>2, <2>4
  <2>6. G = [i \in 0..(m + 1) |-> IF i = 0 THEN <<>> ELSE IF s[i] \in S THEN Append(G[i - 1], s[i]) ELSE G[i - 1]]
    BY <2>3, <2>5
  <2>7. Keeps(s, S, m + 1, G)
    BY <2>6 DEF Keeps
  <2> QED BY <2>7
<1>3. Nat \subseteq T
  BY <1>1, <1>2, Inductively
<1> QED BY <1>3

LEMMA OnlyKeeps ==
    ASSUME NEW s, NEW S, Len(s) \in Nat
    PROVE  \E F : Keeps(s, S, Len(s), F) /\ Only(s, S) = F[Len(s)]
<1> DEFINE F == CHOOSE F : Keeps(s, S, Len(s), F)
<1>1. Keeps(s, S, Len(s), F)
  BY KeepsExists
<1>2. Only(s, S) = F[Len(s)]
  BY DEF Only, Keeps
<1> QED BY <1>1, <1>2

\* Only leaves a sequence of the entries in S, and leaves all of them.
LEMMA OnlyIs ==
    ASSUME NEW X, NEW s \in Seq(X), NEW S
    PROVE  /\ Only(s, S) \in Seq(X)
           /\ \A i \in DOMAIN Only(s, S) : Only(s, S)[i] \in S /\ \E j \in DOMAIN s : s[j] = Only(s, S)[i]
           /\ \A j \in DOMAIN s : s[j] \in S => \E i \in DOMAIN Only(s, S) : Only(s, S)[i] = s[j]
<1>1. Len(s) \in Nat /\ DOMAIN s = 1..Len(s) /\ \A i \in 1..Len(s) : s[i] \in X
  OBVIOUS
<1>2. PICK F : Keeps(s, S, Len(s), F) /\ Only(s, S) = F[Len(s)]
  BY <1>1, OnlyKeeps
<1>3. \A i \in 0..Len(s) : F[i] = IF i = 0 THEN <<>> ELSE IF s[i] \in S THEN Append(F[i - 1], s[i]) ELSE F[i - 1]
  BY <1>1, <1>2 DEF Keeps
<1> DEFINE Left(n, q) == /\ q \in Seq(X)
                         /\ \A i \in DOMAIN q : q[i] \in S /\ \E j \in 1..n : s[j] = q[i]
                         /\ \A j \in 1..n : s[j] \in S => \E i \in DOMAIN q : q[i] = s[j]
           T == {n \in Nat : n <= Len(s) => Left(n, F[n])}
<1>4. 0 \in T
  <2>1. F[0] = <<>>
    BY <1>1, <1>3
  <2>2. Left(0, <<>>)
    OBVIOUS
  <2> QED BY <2>1, <2>2
<1>5. ASSUME NEW n \in Nat, n \in T PROVE n + 1 \in T
  <2> SUFFICES ASSUME n + 1 <= Len(s) PROVE Left(n + 1, F[n + 1])
    OBVIOUS
  <2>1. Left(n, F[n]) /\ n + 1 \in 0..Len(s) /\ n + 1 \in 1..Len(s) /\ s[n + 1] \in X /\ (n + 1) - 1 = n /\ n + 1 # 0
    BY <1>5, <1>1
  <2>2. F[n + 1] = IF s[n + 1] \in S THEN Append(F[n], s[n + 1]) ELSE F[n]
    BY <2>1, <1>3
  <2>3. \A j \in 1..(n + 1) : j = n + 1 \/ j \in 1..n
    OBVIOUS
  <2>4. \A j \in 1..n : j \in 1..(n + 1)
    OBVIOUS
  <2>5. CASE s[n + 1] \notin S
    BY <2>1, <2>2, <2>3, <2>4, <2>5
  <2>6. CASE s[n + 1] \in S
    <3> DEFINE q == F[n]
               p == Append(q, s[n + 1])
    <3>1. q \in Seq(X) /\ F[n + 1] = p
      BY <2>1, <2>2, <2>6
    <3>2. /\ p \in Seq(X) /\ DOMAIN p = 1..(Len(q) + 1) /\ DOMAIN q = 1..Len(q) /\ Len(q) \in Nat
          /\ p[Len(q) + 1] = s[n + 1] /\ \A i \in 1..Len(q) : p[i] = q[i]
      <4> HIDE DEF q
      <4> QED BY <3>1, <2>1
    <3>3. \A i \in DOMAIN p : i = Len(q) + 1 \/ i \in DOMAIN q
      <4> HIDE DEF p, q
      <4> QED BY <3>2
    <3>4. \A i \in DOMAIN q : i \in DOMAIN p /\ q[i] \in S /\ (\E j \in 1..n : s[j] = q[i])
      <4>1. \A i \in DOMAIN q : q[i] \in S /\ (\E j \in 1..n : s[j] = q[i])
        BY <2>1
      <4> HIDE DEF p, q
      <4> QED BY <3>2, <4>1
    <3>5. \A j \in 1..n : s[j] \in S => \E i \in DOMAIN q : q[i] = s[j]
      BY <2>1
    <3>6. Len(q) + 1 \in DOMAIN p /\ n + 1 \in 1..(n + 1)
      <4> HIDE DEF p, q
      <4> QED BY <3>2
    <3> HIDE DEF p, q
    <3>7. \A i \in DOMAIN p : p[i] \in S /\ \E j \in 1..(n + 1) : s[j] = p[i]
      BY <3>2, <3>3, <3>4, <3>6, <2>4, <2>6
    <3>8. \A j \in 1..(n + 1) : s[j] \in S => \E i \in DOMAIN p : p[i] = s[j]
      BY <3>2, <3>4, <3>5, <3>6, <2>3
    <3> QED BY <3>1, <3>2, <3>7, <3>8
  <2> QED BY <2>5, <2>6
<1>6. Nat \subseteq T
  <2> HIDE DEF T
  <2> QED BY <1>4, <1>5, Inductively
<1>7. Left(Len(s), F[Len(s)])
  BY <1>1, <1>6
<1> QED BY <1>1, <1>2, <1>7

\* The greatest of some numbers up to a limit
LEMMA MaxNat ==
    ASSUME NEW T, NEW n \in Nat, T \subseteq 0..n, T # {}
    PROVE  \E x \in T : \A y \in T : y <= x
<1> DEFINE U == {n - y : y \in T}
<1>1. U \subseteq Nat /\ U # {}
  <2>1. ASSUME NEW y \in T PROVE n - y \in Nat
    <3>1. y \in 0..n
      OBVIOUS
    <3> QED BY <3>1
  <2> QED BY <2>1
<1>2. PICK u \in U : \A z \in U : u <= z
  BY <1>1, MinNat
<1>3. PICK x \in T : u = n - x
  BY <1>2
<1>4. ASSUME NEW y \in T PROVE y <= x
  <2>1. n - x <= n - y
    BY <1>2, <1>3
  <2>2. x \in 0..n /\ y \in 0..n
    OBVIOUS
  <2> QED BY <2>1, <2>2
<1> QED BY <1>4

Joins(q, n, F) == F = [i \in 1..n |-> IF i = 1 THEN q[i] ELSE F[i - 1] \o q[i]]

LEMMA JoinsExists ==
    ASSUME NEW q, NEW n \in Nat
    PROVE  \E F : Joins(q, n, F)
<1> DEFINE T == {m \in Nat : \E F : Joins(q, m, F)}
<1>1. 0 \in T
  <2> DEFINE F == [i \in 1..0 |-> <<>>]
  <2>1. F = [i \in 1..0 |-> F[i]] /\ \A i \in 1..0 : FALSE
    OBVIOUS
  <2> HIDE DEF F
  <2>2. F = [i \in 1..0 |-> IF i = 1 THEN q[i] ELSE F[i - 1] \o q[i]]
    BY <2>1
  <2> QED BY <2>2 DEF Joins
<1>2. ASSUME NEW m \in Nat, m \in T PROVE m + 1 \in T
  <2>1. PICK F : Joins(q, m, F)
    BY <1>2
  <2>2. \A i \in 1..m : F[i] = IF i = 1 THEN q[i] ELSE F[i - 1] \o q[i]
    BY <2>1 DEF Joins
  <2> DEFINE joined == IF m = 0 THEN q[m + 1] ELSE F[m] \o q[m + 1]
             G == [i \in 1..(m + 1) |-> IF i = m + 1 THEN joined ELSE F[i]]
  <2>3. G = [i \in 1..(m + 1) |-> G[i]] /\ G[m + 1] = joined /\ \A i \in 1..m : G[i] = F[i]
    <3>1. m + 1 \in 1..(m + 1) /\ \A i \in 1..m : i \in 1..(m + 1) /\ i # m + 1
      OBVIOUS
    <3> HIDE DEF joined
    <3> QED BY <3>1
  <2> HIDE DEF G
  <2>4. ASSUME NEW i \in 1..(m + 1)
        PROVE  G[i] = IF i = 1 THEN q[i] ELSE G[i - 1] \o q[i]
    <3>1. CASE i = m + 1
      <4>1. i - 1 = m /\ (i = 1 <=> m = 0) /\ (m # 0 => m \in 1..m)
        BY <3>1
      <4> QED BY <3>1, <4>1, <2>3
    <3>2. CASE i # m + 1
      <4>1. i \in 1..m /\ (i # 1 => i - 1 \in 1..m)
        BY <3>2
      <4> HIDE DEF joined
      <4> QED BY <2>2, <2>3, <4>1
    <3> QED BY <3>1, <3>2
  <2>5. G = [i \in 1..(m + 1) |-> IF i = 1 THEN q[i] ELSE G[i - 1] \o q[i]]
    BY <2>3, <2>4
  <2>6. Joins(q, m + 1, G)
    BY <2>5 DEF Joins
  <2> QED BY <2>6
<1>3. Nat \subseteq T
  BY <1>1, <1>2, Inductively
<1> QED BY <1>3

LEMMA FlattenIs ==
    ASSUME NEW X, NEW q \in Seq(Seq(X))
    PROVE  FlattenSeq(q) \in Seq(X)
<1>1. Len(q) \in Nat /\ \A i \in 1..Len(q) : q[i] \in Seq(X)
  <2> DEFINE Y == Seq(X)
  <2>1. q \in Seq(Y)
    OBVIOUS
  <2> HIDE DEF Y
  <2>2. Len(q) \in Nat /\ \A i \in 1..Len(q) : q[i] \in Y
    BY <2>1
  <2> QED BY <2>2 DEF Y
<1>2. CASE Len(q) = 0
  <2>1. FlattenSeq(q) = q /\ q = <<>>
    BY <1>2 DEF FlattenSeq
  <2> QED BY <2>1
<1>3. CASE Len(q) # 0
  <2> DEFINE F == CHOOSE F : Joins(q, Len(q), F)
  <2>1. Joins(q, Len(q), F)
    BY <1>1, JoinsExists
  <2>2. FlattenSeq(q) = F[Len(q)]
    BY <1>3 DEF FlattenSeq, Joins
  <2>3. \A i \in 1..Len(q) : F[i] = IF i = 1 THEN q[i] ELSE F[i - 1] \o q[i]
    <3> HIDE DEF F
    <3> QED BY <2>1 DEF Joins
  <2> HIDE DEF F
  <2> DEFINE T == {n \in Nat : n \in 1..Len(q) => F[n] \in Seq(X)}
  <2>4. 0 \in T
    OBVIOUS
  <2>5. ASSUME NEW n \in Nat, n \in T PROVE n + 1 \in T
    <3> SUFFICES ASSUME n + 1 \in 1..Len(q) PROVE F[n + 1] \in Seq(X)
      OBVIOUS
    <3>1. CASE n = 0
      <4>1. F[1] = q[1] /\ 1 \in 1..Len(q)
        BY <3>1, <2>3
      <4> QED BY <4>1, <3>1, <1>1
    <3>2. CASE n # 0
      <4>1. n \in 1..Len(q) /\ n + 1 # 1 /\ (n + 1) - 1 = n
        BY <3>2, <1>1
      <4>2. F[n + 1] = F[n] \o q[n + 1]
        BY <4>1, <2>3
      <4>3. F[n] \in Seq(X) /\ q[n + 1] \in Seq(X)
        BY <4>1, <2>5, <1>1
      <4> QED BY <4>2, <4>3, ConcatProperties
    <3> QED BY <3>1, <3>2
  <2>6. Nat \subseteq T
    <3> HIDE DEF T
    <3> QED BY <2>4, <2>5, Inductively
  <2>7. Len(q) \in T /\ Len(q) \in 1..Len(q)
    BY <2>6, <1>1, <1>3
  <2> QED BY <2>2, <2>7
<1> QED BY <1>2, <1>3

-----------------------------------------------------------------------------
(***************************************************************************)
(* Agenda: the dashboard's window of lines.                                *)
(***************************************************************************)

LEMMA MinTwo ==
    ASSUME NEW a \in Int, NEW b \in Int
    PROVE  Min({a, b}) = IF a <= b THEN a ELSE b
<1> DEFINE x == IF a <= b THEN a ELSE b
<1>1. x \in {a, b} /\ x \in Int /\ \A y \in {a, b} : x <= y
  OBVIOUS
<1>2. \A z \in {a, b} : (\A y \in {a, b} : z <= y) => z = x
  OBVIOUS
<1> QED BY <1>1, <1>2 DEF Min

LEMMA MaxTwo ==
    ASSUME NEW a \in Int, NEW b \in Int
    PROVE  Max({a, b}) = IF a >= b THEN a ELSE b
<1> DEFINE x == IF a >= b THEN a ELSE b
<1>1. x \in {a, b} /\ x \in Int /\ \A y \in {a, b} : x >= y
  OBVIOUS
<1>2. \A z \in {a, b} : (\A y \in {a, b} : z >= y) => z = x
  OBVIOUS
<1> QED BY <1>1, <1>2 DEF Max

\* The window follows the line, and no more than it has to.
Follows(p, o, line, h, n) ==
    /\ p \in Nat /\ p <= line /\ line < p + h /\ p <= n - h
    /\ p < o => p = line \/ p = n - h
    /\ p > o => p = line - h + 1

LEMMA ScrollIs ==
    ASSUME NEW o \in Nat, NEW line \in Nat, NEW h \in Nat, NEW n \in Nat, h >= 1, h < n, line < n
    PROVE  Follows(ScrollTo(o, line, h, n), o, line, h, n)
<1> DEFINE moved == IF line < o THEN line ELSE IF line >= o + h THEN line - h + 1 ELSE o
<1>1. moved \in Nat
  OBVIOUS
<1>2. Max({n - h, 0}) = n - h
  BY MaxTwo
<1>3. ScrollTo(o, line, h, n) = IF moved <= n - h THEN moved ELSE n - h
  <2>1. ScrollTo(o, line, h, n) = Min({moved, n - h})
    BY <1>2 DEF ScrollTo
  <2> HIDE DEF moved
  <2> QED BY <2>1, <1>1, MinTwo
<1> QED BY <1>3 DEF Follows

\* One round
LEMMA FittedIs ==
    ASSUME NEW f, f.offset \in Nat, f.marks \in 0..2, ~f.settled,
           NEW line \in Nat, NEW height \in Nat, NEW n \in Nat, height >= 3, height < n, line < n
    PROVE  LET g == Fitted(f, line, height, n)
               h == height - f.marks
           IN  /\ g.offset = ScrollTo(f.offset, line, h, n) /\ g.offset \in Nat
               /\ g.marks = (IF g.offset > 0 THEN 1 ELSE 0) + (IF g.offset + h < n THEN 1 ELSE 0)
               /\ g.settled = (g.marks = f.marks)
<1> DEFINE h == height - f.marks
           g == Fitted(f, line, height, n)
<1>1. h \in Nat /\ h >= 1 /\ h < n
  OBVIOUS
<1>2. Max({h, 1}) = h
  BY <1>1, MaxTwo
<1>3. ScrollTo(f.offset, line, h, n) \in Nat
  <2> HIDE DEF h
  <2> QED BY <1>1, ScrollIs DEF Follows
<1> DEFINE p == ScrollTo(f.offset, line, h, n)
<1>4. g = [offset |-> p, marks |-> Marks(p, h, n), settled |-> Marks(p, h, n) = f.marks]
  BY <1>2 DEF Fitted
<1> HIDE DEF p
<1> QED BY <1>3, <1>4 DEF Marks, p

\* Three rounds are enough: the line is in the window, which with its marks
\* takes no more lines than there are.
LEMMA FitIs ==
    ASSUME NEW o \in Nat, NEW line \in Nat, NEW height \in Nat, NEW n \in Nat, height >= 3, height < n, line < n
    PROVE  LET f == Fit(o, line, height, n)
               h == height - f.marks
           IN  /\ f.marks \in 1..2 /\ f.offset \in Nat /\ f.offset <= n - h
               /\ f.offset <= line /\ line < f.offset + h
               /\ f.marks = (IF f.offset > 0 THEN 1 ELSE 0) + (IF f.offset + h < n THEN 1 ELSE 0)
<1> DEFINE f0 == [offset |-> o, marks |-> 0, settled |-> FALSE]
           f1 == Fitted(f0, line, height, n)
           f2 == Fitted(f1, line, height, n)
           f3 == Fitted(f2, line, height, n)
<1>1. Fit(o, line, height, n) = f3
  BY DEF Fit
<1>2. f0.offset = o /\ f0.marks = 0 /\ ~f0.settled
  OBVIOUS
<1>3. /\ f1.offset = ScrollTo(o, line, height, n) /\ f1.offset \in Nat
      /\ f1.marks = (IF f1.offset > 0 THEN 1 ELSE 0) + (IF f1.offset + height < n THEN 1 ELSE 0)
      /\ f1.settled = (f1.marks = 0)
  <2> HIDE DEF f0
  <2>1. height - f0.marks = height /\ f0.marks \in 0..2 /\ f0.offset \in Nat
    BY <1>2
  <2> QED BY <1>2, <2>1, FittedIs
<1> HIDE DEF f0, f1
<1>4. f1.marks \in 1..2 /\ ~f1.settled
  <2>1. f1.marks \in 1..2
    BY <1>3
  <2>2. f1.marks # 0
    BY <2>1
  <2> QED BY <2>1, <2>2, <1>3
<1> DEFINE h1 == height - f1.marks
<1>5. /\ f2.offset = ScrollTo(f1.offset, line, h1, n) /\ f2.offset \in Nat
      /\ f2.marks = (IF f2.offset > 0 THEN 1 ELSE 0) + (IF f2.offset + h1 < n THEN 1 ELSE 0)
      /\ f2.settled = (f2.marks = f1.marks)
  <2>1. f1.marks \in 0..2 /\ f1.offset \in Nat /\ ~f1.settled
    BY <1>3, <1>4
  <2> QED BY <2>1, FittedIs
<1> HIDE DEF f2
<1>6. h1 \in Nat /\ h1 >= 1 /\ h1 < n /\ h1 = height - f1.marks
  BY <1>4
<1> HIDE DEF h1
<1>7. /\ f2.offset <= line /\ line < f2.offset + h1 /\ f2.offset <= n - h1
      /\ f2.offset < f1.offset => f2.offset = line \/ f2.offset = n - h1
      /\ f2.offset > f1.offset => f2.offset = line - h1 + 1
  <2> DEFINE p == ScrollTo(f1.offset, line, h1, n)
  <2>1. f1.offset \in Nat
    BY <1>3
  <2>2. Follows(p, f1.offset, line, h1, n)
    BY <2>1, <1>6, ScrollIs
  <2>3. f2.offset = p
    BY <1>5
  <2> HIDE DEF p
  <2> QED BY <2>2, <2>3 DEF Follows
<1>8. /\ f1.offset <= line /\ line < f1.offset + height /\ f1.offset <= n - height
  BY <1>3, ScrollIs DEF Follows
<1>9. f2.marks \in 1..2
  BY <1>5, <1>6
<1>10. CASE f2.settled
  <2>1. f3 = f2
    BY <1>10 DEF Fitted
  <2>2. f2.marks = f1.marks /\ h1 = height - f2.marks
    BY <1>5, <1>6, <1>10
  <2> QED BY <1>1, <1>5, <1>7, <1>9, <2>1, <2>2
<1>11. CASE ~f2.settled
  <2> DEFINE h2 == height - f2.marks
  <2>1. /\ f3.offset = ScrollTo(f2.offset, line, h2, n) /\ f3.offset \in Nat
        /\ f3.marks = (IF f3.offset > 0 THEN 1 ELSE 0) + (IF f3.offset + h2 < n THEN 1 ELSE 0)
    <3>1. f2.marks \in 0..2 /\ f2.offset \in Nat
      BY <1>5, <1>9
    <3> QED BY <3>1, <1>11, FittedIs
  <2> HIDE DEF f3
  <2>2. h2 \in Nat /\ h2 >= 1 /\ h2 < n /\ h2 = height - f2.marks
    BY <1>9
  <2> HIDE DEF h2
  <2>3. /\ f3.offset <= line /\ line < f3.offset + h2 /\ f3.offset <= n - h2
        /\ f3.offset < f2.offset => f3.offset = line \/ f3.offset = n - h2
        /\ f3.offset > f2.offset => f3.offset = line - h2 + 1
    <3> DEFINE p == ScrollTo(f2.offset, line, h2, n)
    <3>1. f2.offset \in Nat
      BY <1>5
    <3>2. Follows(p, f2.offset, line, h2, n)
      BY <3>1, <2>2, ScrollIs
    <3>3. f3.offset = p
      BY <2>1
    <3> HIDE DEF p
    <3> QED BY <3>2, <3>3 DEF Follows
  <2>4. f2.marks # f1.marks
    BY <1>5, <1>11
  <2> DEFINE a == f1.offset
             b == f2.offset
             c == f3.offset
             m1 == f1.marks
             m2 == f2.marks
             m3 == f3.marks
  <2>5. a \in Nat /\ b \in Nat /\ c \in Nat /\ m1 \in 1..2 /\ m2 \in 1..2 /\ m1 # m2
    BY <1>3, <1>4, <1>5, <1>9, <2>1, <2>4
  <2>6. /\ m1 = (IF a > 0 THEN 1 ELSE 0) + (IF a + height < n THEN 1 ELSE 0)
        /\ m2 = (IF b > 0 THEN 1 ELSE 0) + (IF b + h1 < n THEN 1 ELSE 0)
        /\ m3 = (IF c > 0 THEN 1 ELSE 0) + (IF c + h2 < n THEN 1 ELSE 0)
    BY <1>3, <1>5, <2>1
  <2>7. /\ a <= line /\ line < a + height /\ a <= n - height
        /\ b <= line /\ line < b + h1 /\ b <= n - h1
        /\ b < a => b = line \/ b = n - h1
        /\ b > a => b = line - h1 + 1
        /\ c <= line /\ line < c + h2 /\ c <= n - h2
        /\ c < b => c = line \/ c = n - h2
        /\ c > b => c = line - h2 + 1
        /\ h1 = height - m1 /\ h2 = height - m2
    BY <1>6, <1>7, <1>8, <2>2, <2>3
  <2> HIDE DEF a, b, c, m1, m2, m3
  <2>8. m3 = m2
    BY <2>5, <2>6, <2>7
  <2>9. /\ m3 \in 1..2 /\ c \in Nat /\ c <= n - h2 /\ c <= line /\ line < c + h2 /\ h2 = height - m3
        /\ m3 = (IF c > 0 THEN 1 ELSE 0) + (IF c + h2 < n THEN 1 ELSE 0)
    BY <2>5, <2>6, <2>7, <2>8
  <2> QED BY <1>1, <2>9 DEF c, m3
<1> QED BY <1>10, <1>11

\* Whatever is drawn has the line, and fits.
LEMMA WindowHas ==
    ASSUME NEW o \in Nat, NEW line \in Nat, NEW height \in Nat, NEW n \in Nat, height >= 3, height < n, line < n
    PROVE  LET f     == Fit(o, line, height, n)
               shown == Max({height - f.marks, 1})
               to    == Min({f.offset + shown, n})
           IN  /\ f.offset \in Nat /\ line \in f.offset..(to - 1)
               /\ to - f.offset + Marks(f.offset, shown, n) <= height
<1> DEFINE f == Fit(o, line, height, n)
           h == height - f.marks
<1>1. /\ f.marks \in 1..2 /\ f.offset \in Nat /\ f.offset <= n - h
      /\ f.offset <= line /\ line < f.offset + h
      /\ f.marks = (IF f.offset > 0 THEN 1 ELSE 0) + (IF f.offset + h < n THEN 1 ELSE 0)
  BY FitIs
<1> HIDE DEF f
<1>2. h \in Nat /\ h >= 1
  BY <1>1
<1>3. Max({h, 1}) = h
  BY <1>2, MaxTwo
<1>4. Min({f.offset + h, n}) = f.offset + h
  BY <1>1, <1>2, MinTwo
<1>5. Marks(f.offset, h, n) = f.marks
  BY <1>1 DEF Marks
<1>6. f.offset \in Nat /\ line \in f.offset..((f.offset + h) - 1) /\ (f.offset + h) - f.offset + f.marks <= height
  BY <1>1, <1>2
<1> QED BY <1>3, <1>4, <1>5, <1>6 DEF f

(***************************************************************************)
(* Agenda: lines and stops.                                                *)
(***************************************************************************)

Stopped(s, n) == {k \in 1..n : s[k] = "stop"}
Tally(s, n) == Cardinality(Stopped(s, n))

LEMMA CountIs ==
    ASSUME NEW s
    PROVE  /\ Tally(s, 0) = 0
           /\ \A n \in Nat : /\ IsFiniteSet(Stopped(s, n)) /\ Tally(s, n) \in Nat
                             /\ Tally(s, n + 1) = IF s[n + 1] = "stop" THEN Tally(s, n) + 1 ELSE Tally(s, n)
<1>1. Stopped(s, 0) = {}
  BY DEF Stopped
<1>2. ASSUME NEW n \in Nat PROVE IsFiniteSet(Stopped(s, n)) /\ Tally(s, n) \in Nat
  <2>1. IsFiniteSet(1..n) /\ Stopped(s, n) \in SUBSET (1..n)
    BY FS_Interval DEF Stopped
  <2>2. IsFiniteSet(Stopped(s, n))
    BY <2>1, FS_Subset
  <2> QED BY <2>2, FS_CardinalityType DEF Tally
<1>3. ASSUME NEW n \in Nat
      PROVE  Tally(s, n + 1) = IF s[n + 1] = "stop" THEN Tally(s, n) + 1 ELSE Tally(s, n)
  <2>1. 1..(n + 1) = (1..n) \cup {n + 1} /\ n + 1 \notin 1..n
    OBVIOUS
  <2>2. CASE s[n + 1] = "stop"
    <3>1. Stopped(s, n + 1) = Stopped(s, n) \cup {n + 1} /\ n + 1 \notin Stopped(s, n)
      BY <2>1, <2>2 DEF Stopped
    <3> QED BY <3>1, <2>2, <1>2, FS_AddElement DEF Tally
  <2>3. CASE s[n + 1] # "stop"
    <3>1. Stopped(s, n + 1) = Stopped(s, n)
      BY <2>1, <2>3 DEF Stopped
    <3> QED BY <3>1, <2>3 DEF Tally
  <2> QED BY <2>2, <2>3
<1> QED BY <1>1, <1>2, <1>3, FS_EmptySet DEF Tally

\* Only what is before counts.
LEMMA CountDepends ==
    ASSUME NEW s, NEW t, NEW n \in Nat, \A k \in 1..n : s[k] = t[k]
    PROVE  Tally(s, n) = Tally(t, n)
<1>1. Stopped(s, n) = Stopped(t, n)
  BY DEF Stopped
<1> QED BY <1>1 DEF Tally

LEMMA CountJoins ==
    ASSUME NEW X, NEW s \in Seq(X), NEW t \in Seq(X)
    PROVE  Tally(s \o t, Len(s \o t)) = Tally(s, Len(s)) + Tally(t, Len(t))
<1> DEFINE u == s \o t
<1>1. /\ Len(s) \in Nat /\ Len(t) \in Nat /\ Len(u) = Len(s) + Len(t)
      /\ \A k \in 1..Len(s) : u[k] = s[k]
      /\ \A k \in 1..Len(t) : u[Len(s) + k] = t[k]
  OBVIOUS
<1> HIDE DEF u
<1> DEFINE T == {n \in Nat : n <= Len(t) => Tally(u, Len(s) + n) = Tally(s, Len(s)) + Tally(t, n)}
<1>2. Tally(u, Len(s)) = Tally(s, Len(s)) /\ Tally(s, Len(s)) \in Nat /\ Tally(t, 0) = 0
  <2>1. Tally(u, Len(s)) = Tally(s, Len(s))
    BY <1>1, CountDepends
  <2>2. Tally(s, Len(s)) \in Nat
    BY <1>1, CountIs
  <2>3. Tally(t, 0) = 0
    BY CountIs
  <2> QED BY <2>1, <2>2, <2>3
<1>3. 0 \in T
  BY <1>1, <1>2
<1>4. ASSUME NEW n \in Nat, n \in T PROVE n + 1 \in T
  <2> SUFFICES ASSUME n + 1 <= Len(t) PROVE Tally(u, Len(s) + (n + 1)) = Tally(s, Len(s)) + Tally(t, n + 1)
    OBVIOUS
  <2>1. n <= Len(t) /\ n + 1 \in 1..Len(t) /\ Len(s) + n \in Nat /\ Len(s) + (n + 1) = (Len(s) + n) + 1
    BY <1>1
  <2>2. Tally(u, Len(s) + n) = Tally(s, Len(s)) + Tally(t, n)
    BY <2>1, <1>4
  <2>3. u[(Len(s) + n) + 1] = t[n + 1]
    BY <2>1, <1>1
  <2>4. /\ Tally(t, n) \in Nat
        /\ Tally(t, n + 1) = IF t[n + 1] = "stop" THEN Tally(t, n) + 1 ELSE Tally(t, n)
        /\ Tally(u, (Len(s) + n) + 1)
             = IF t[n + 1] = "stop" THEN Tally(u, Len(s) + n) + 1 ELSE Tally(u, Len(s) + n)
    BY <2>1, <2>3, CountIs
  <2> QED BY <2>1, <2>2, <2>4, <1>2
<1>5. Nat \subseteq T
  <2> HIDE DEF T
  <2> QED BY <1>3, <1>4, Inductively
<1>6. Tally(u, Len(u)) = Tally(s, Len(s)) + Tally(t, Len(t))
  BY <1>1, <1>5
<1> QED BY <1>6 DEF u

\* Lists joined into one, and as many stops counted as there are entries
LEMMA CountFlattens ==
    ASSUME NEW X, NEW Y, NEW f \in Seq(Seq(X)), NEW g \in Seq(Seq(Y)), Len(f) = Len(g),
           \A k \in 1..Len(f) : Tally(f[k], Len(f[k])) = Len(g[k])
    PROVE  Tally(FlattenSeq(f), Len(FlattenSeq(f))) = Len(FlattenSeq(g))
<1> DEFINE n == Len(f)
<1>1. n \in Nat /\ n = Len(g) /\ \A k \in 1..n : f[k] \in Seq(X) /\ g[k] \in Seq(Y) /\ Tally(f[k], Len(f[k])) = Len(g[k])
  <2> DEFINE A == Seq(X)
             B == Seq(Y)
  <2>1. f \in Seq(A) /\ g \in Seq(B)
    OBVIOUS
  <2> HIDE DEF A, B
  <2>2. n \in Nat /\ n = Len(g) /\ \A k \in 1..n : f[k] \in A /\ g[k] \in B
    BY <2>1
  <2> QED BY <2>2 DEF A, B
<1> HIDE DEF n
<1>2. CASE n = 0
  <2>1. FlattenSeq(f) = f /\ FlattenSeq(g) = g /\ Len(f) = 0 /\ Len(g) = 0
    BY <1>1, <1>2 DEF FlattenSeq, n
  <2> QED BY <2>1, CountIs
<1>3. CASE n # 0
  <2> DEFINE F == CHOOSE F : Joins(f, n, F)
             G == CHOOSE G : Joins(g, n, G)
  <2>1. Joins(f, n, F) /\ Joins(g, n, G)
    BY <1>1, JoinsExists
  <2>2. FlattenSeq(f) = F[n]
    BY <1>3 DEF FlattenSeq, Joins, n
  <2>3. FlattenSeq(g) = G[n]
    BY <1>1, <1>3 DEF FlattenSeq, Joins
  <2> HIDE DEF F, G
  <2>4. \A i \in 1..n : /\ F[i] = IF i = 1 THEN f[i] ELSE F[i - 1] \o f[i]
                        /\ G[i] = IF i = 1 THEN g[i] ELSE G[i - 1] \o g[i]
    BY <2>1 DEF Joins
  <2> DEFINE Fits(i) == F[i] \in Seq(X) /\ G[i] \in Seq(Y) /\ Tally(F[i], Len(F[i])) = Len(G[i])
             T == {i \in Nat : i \in 1..n => Fits(i)}
  <2>5. 0 \in T
    OBVIOUS
  <2>6. ASSUME NEW i \in Nat, i \in T PROVE i + 1 \in T
    <3> SUFFICES ASSUME i + 1 \in 1..n PROVE Fits(i + 1)
      OBVIOUS
    <3>1. CASE i = 0
      <4>1. F[1] = f[1] /\ G[1] = g[1] /\ 1 \in 1..n /\ i + 1 = 1
        BY <3>1, <2>4
      <4>2. f[1] \in Seq(X) /\ g[1] \in Seq(Y) /\ Tally(f[1], Len(f[1])) = Len(g[1])
        BY <4>1, <1>1
      <4>3. Fits(1)
        BY <4>1, <4>2
      <4> QED BY <4>1, <4>3
    <3>2. CASE i # 0
      <4>1. i \in 1..n /\ i + 1 # 1 /\ (i + 1) - 1 = i
        BY <3>2, <1>1
      <4>2. F[i + 1] = F[i] \o f[i + 1] /\ G[i + 1] = G[i] \o g[i + 1]
        BY <4>1, <2>4
      <4>3. /\ F[i] \in Seq(X) /\ G[i] \in Seq(Y) /\ Tally(F[i], Len(F[i])) = Len(G[i])
            /\ f[i + 1] \in Seq(X) /\ g[i + 1] \in Seq(Y) /\ Tally(f[i + 1], Len(f[i + 1])) = Len(g[i + 1])
        BY <4>1, <2>6, <1>1
      <4>4. F[i + 1] \in Seq(X) /\ G[i + 1] \in Seq(Y) /\ Len(G[i + 1]) = Len(G[i]) + Len(g[i + 1])
        BY <4>2, <4>3, ConcatProperties
      <4>5. Tally(F[i + 1], Len(F[i + 1])) = Tally(F[i], Len(F[i])) + Tally(f[i + 1], Len(f[i + 1]))
        BY <4>2, <4>3, CountJoins
      <4> QED BY <4>3, <4>4, <4>5
    <3> QED BY <3>1, <3>2
  <2>7. Nat \subseteq T
    <3> HIDE DEF T
    <3> QED BY <2>5, <2>6, Inductively
  <2>8. Fits(n)
    <3>1. n \in T /\ n \in 1..n
      BY <2>7, <1>1, <1>3
    <3> HIDE DEF Fits
    <3> QED BY <3>1
  <2> QED BY <2>2, <2>3, <2>8
<1> QED BY <1>2, <1>3

\* Each stop has its line.
LEMMA LineIs ==
    ASSUME NEW X, NEW lines \in Seq(X), NEW c \in 1..Tally(lines, Len(lines))
    PROVE  LineOf(lines, c) \in 0..(Len(lines) - 1)
<1> DEFINE n == Len(lines)
           T == {l \in Nat : l <= n /\ Tally(lines, l) >= c}
<1>1. n \in Nat
  OBVIOUS
<1>2. Tally(lines, n) \in Nat /\ Tally(lines, 0) = 0
  BY <1>1, CountIs
<1>3. c \in Nat /\ c >= 1 /\ c <= Tally(lines, n)
  BY <1>2
<1>4. n \in T /\ T \subseteq Nat
  BY <1>1, <1>2, <1>3
<1>5. PICK l \in T : \A k \in T : l <= k
  BY <1>4, MinNat
<1> HIDE DEF n
<1>6. l \in Nat /\ l <= n /\ Tally(lines, l) >= c /\ l # 0 /\ l - 1 \in Nat /\ (l - 1) + 1 = l
  BY <1>2, <1>3, <1>5
<1>7. l - 1 \notin T
  BY <1>5, <1>6
<1>8. Tally(lines, l - 1) < c /\ Tally(lines, l - 1) \in Nat
  <2>1. Tally(lines, l - 1) \in Nat
    BY <1>6, CountIs
  <2> QED BY <2>1, <1>1, <1>3, <1>6, <1>7
<1>9. Tally(lines, l) = IF lines[l] = "stop" THEN Tally(lines, l - 1) + 1 ELSE Tally(lines, l - 1)
  BY <1>6, CountIs
<1>10. lines[l] = "stop" /\ Tally(lines, l) = c
  BY <1>3, <1>6, <1>8, <1>9
<1> DEFINE x == l - 1
<1>11. x \in 0..(n - 1) /\ x + 1 = l
  BY <1>1, <1>6
<1> HIDE DEF x
<1>12. x \in 0..(Len(lines) - 1) /\ lines[x + 1] = "stop" /\ Cardinality({k \in 1..(x + 1) : lines[k] = "stop"}) = c
  BY <1>10, <1>11 DEF n, Tally, Stopped
<1> QED BY <1>12 DEF LineOf

LEMMA FlattenLong ==
    ASSUME NEW X, NEW q \in Seq(Seq(X)), Len(q) >= 1, \A k \in 1..Len(q) : Len(q[k]) >= 1
    PROVE  Len(FlattenSeq(q)) >= 1
<1> DEFINE n == Len(q)
           F == CHOOSE F : Joins(q, n, F)
<1>1. n \in Nat /\ n # 0 /\ \A k \in 1..n : q[k] \in Seq(X)
  <2> DEFINE A == Seq(X)
  <2>1. q \in Seq(A)
    OBVIOUS
  <2> HIDE DEF A
  <2>2. n \in Nat /\ \A k \in 1..n : q[k] \in A
    BY <2>1
  <2> QED BY <2>2 DEF A
<1>2. Joins(q, n, F)
  BY <1>1, JoinsExists
<1>3. FlattenSeq(q) = F[n]
  BY <1>1 DEF FlattenSeq, Joins
<1> HIDE DEF F
<1>4. \A i \in 1..n : F[i] = IF i = 1 THEN q[i] ELSE F[i - 1] \o q[i]
  BY <1>2 DEF Joins
<1>5. \A k \in 1..n : Len(q[k]) >= 1
  OBVIOUS
<1> HIDE DEF n
<1> DEFINE T == {i \in Nat : i \in 1..n => F[i] \in Seq(X) /\ Len(F[i]) >= 1}
<1>6. 0 \in T
  OBVIOUS
<1>7. ASSUME NEW i \in Nat, i \in T PROVE i + 1 \in T
  <2> SUFFICES ASSUME i + 1 \in 1..n PROVE F[i + 1] \in Seq(X) /\ Len(F[i + 1]) >= 1
    OBVIOUS
  <2>1. CASE i = 0
    <3>1. F[1] = q[1] /\ 1 \in 1..n
      BY <2>1, <1>4
    <3> QED BY <3>1, <2>1, <1>1, <1>5
  <2>2. CASE i # 0
    <3>1. i \in 1..n /\ i + 1 # 1 /\ (i + 1) - 1 = i
      BY <2>2, <1>1
    <3>2. F[i + 1] = F[i] \o q[i + 1]
      BY <3>1, <1>4
    <3>3. F[i] \in Seq(X) /\ Len(F[i]) >= 1 /\ q[i + 1] \in Seq(X)
      BY <3>1, <1>7, <1>1
    <3>4. F[i + 1] \in Seq(X) /\ Len(F[i + 1]) = Len(F[i]) + Len(q[i + 1]) /\ Len(q[i + 1]) \in Nat /\ Len(F[i]) \in Nat
      BY <3>2, <3>3, ConcatProperties
    <3>5. \A a, b \in Nat : a >= 1 => a + b >= 1
      OBVIOUS
    <3> QED BY <3>3, <3>4, <3>5
  <2> QED BY <2>1, <2>2
<1>8. Nat \subseteq T
  <2> HIDE DEF T
  <2> QED BY <1>6, <1>7, Inductively
<1>9. n \in 1..n
  BY <1>1
<1> QED BY <1>3, <1>8, <1>9

Titles    == {"incidents", "overdue", "upcoming", "seasonal", "projects", "expiring"}
Targets   == OpenIncidents \cup Chores \cup ActiveProjects \cup DOMAIN Warranty \cup {0}
DashRows  == [title : Titles, rows : Seq(Targets)]
LineKinds == {"stop", "blank", "label"}
StopKinds == [section : Titles, header : BOOLEAN]

LEMMA TableCounts ==
    ASSUME NEW rows \in Seq(Targets)
    PROVE  TableLines(rows) \in Seq(LineKinds) /\ Tally(TableLines(rows), Len(TableLines(rows))) = Len(rows)
<1> DEFINE top == <<"label", "label">>
           t == [r \in DOMAIN rows |-> "stop"]
<1>1. Len(rows) \in Nat /\ DOMAIN rows = 1..Len(rows)
  OBVIOUS
<1>2. t \in Seq(LineKinds) /\ Len(t) = Len(rows) /\ \A k \in 1..Len(rows) : t[k] = "stop"
  BY <1>1 DEF LineKinds
<1>3. top \in Seq(LineKinds) /\ Len(top) = 2 /\ top[1] = "label" /\ top[2] = "label"
  BY DEF LineKinds
<1> HIDE DEF t, top
<1>4. Stopped(top, 2) = {}
  <2>1. \A k \in 1..2 : k = 1 \/ k = 2
    OBVIOUS
  <2>2. "label" # "stop"
    OBVIOUS
  <2> QED BY <1>3, <2>1, <2>2 DEF Stopped
<1>5. Stopped(t, Len(rows)) = 1..Len(rows)
  BY <1>2 DEF Stopped
<1>6. Cardinality(1..Len(rows)) = Len(rows)
  BY <1>1, FS_Interval
<1>7. Tally(top, 2) = 0 /\ Tally(t, Len(rows)) = Len(rows)
  BY <1>4, <1>5, <1>6, FS_EmptySet DEF Tally
<1>8. Tally(top \o t, Len(top \o t)) = 0 + Len(rows)
  <2>1. top \in Seq(LineKinds) /\ t \in Seq(LineKinds)
    BY <1>2, <1>3
  <2>2. Tally(top, Len(top)) = 0 /\ Tally(t, Len(t)) = Len(rows)
    BY <1>2, <1>3, <1>7
  <2>3. Tally(top \o t, Len(top \o t)) = Tally(top, Len(top)) + Tally(t, Len(t))
    BY <2>1, CountJoins
  <2> QED BY <2>2, <2>3
<1>9. top \o t \in Seq(LineKinds)
  BY <1>2, <1>3, ConcatProperties
<1> QED BY <1>1, <1>8, <1>9 DEF TableLines, top, t

\* The view has a line for each stop of the keys.
LEMMA StopsAre ==
    ASSUME NEW data \in Seq(DashRows), NEW opened
    PROVE  /\ LinesOf(data, opened) \in Seq(LineKinds) /\ StopsOf(data, opened) \in Seq(StopKinds)
           /\ Tally(LinesOf(data, opened), Len(LinesOf(data, opened))) = Len(StopsOf(data, opened))
           /\ data # <<>> => Len(StopsOf(data, opened)) >= 1
<1> DEFINE gap(k)  == IF k = 1 THEN <<>> ELSE <<"blank">>
           body(s) == IF s.title \in opened THEN TableLines(s.rows) ELSE <<>>
           stops(s) == <<[section |-> s.title, header |-> TRUE]>>
                       \o IF s.title \notin opened THEN <<>>
                          ELSE [r \in DOMAIN s.rows |-> [section |-> s.title, header |-> FALSE]]
           f == [k \in DOMAIN data |-> gap(k) \o <<"stop">> \o body(data[k])]
           g == [k \in DOMAIN data |-> stops(data[k])]
<1>1. LinesOf(data, opened) = FlattenSeq(f) /\ StopsOf(data, opened) = FlattenSeq(g)
  BY DEF LinesOf, StopsOf
<1>2. Len(data) \in Nat /\ DOMAIN data = 1..Len(data) /\ \A k \in 1..Len(data) : data[k] \in DashRows
  OBVIOUS
<1>3. ASSUME NEW k \in 1..Len(data)
      PROVE  /\ gap(k) \o <<"stop">> \o body(data[k]) \in Seq(LineKinds) /\ stops(data[k]) \in Seq(StopKinds)
             /\ Len(stops(data[k])) >= 1
             /\ Tally(gap(k) \o <<"stop">> \o body(data[k]), Len(gap(k) \o <<"stop">> \o body(data[k]))) = Len(stops(data[k]))
  <2> DEFINE s == data[k]
             b == body(s)
             a == gap(k)
             c == <<"stop">>
             h == <<[section |-> s.title, header |-> TRUE]>>
             e == IF s.title \notin opened THEN <<>>
                  ELSE [r \in DOMAIN s.rows |-> [section |-> s.title, header |-> FALSE]]
  <2>1. s.title \in Titles /\ s.rows \in Seq(Targets)
    BY <1>2 DEF DashRows
  <2> HIDE DEF s
  <2>2. Len(s.rows) \in Nat /\ DOMAIN s.rows = 1..Len(s.rows)
    BY <2>1
  <2>3. <<>> \in Seq(LineKinds) /\ Len(<<>>) = 0 /\ <<>> \in Seq(StopKinds)
    OBVIOUS
  <2>4. Tally(<<>>, 0) = 0
    BY CountIs
  <2>5. /\ b \in Seq(LineKinds) /\ e \in Seq(StopKinds) /\ Tally(b, Len(b)) = Len(e)
    <3>1. CASE s.title \in opened
      <4>1. b = TableLines(s.rows)
        BY <3>1
      <4>2. e = [r \in 1..Len(s.rows) |-> [section |-> s.title, header |-> FALSE]]
        BY <3>1, <2>2
      <4>3. [section |-> s.title, header |-> FALSE] \in StopKinds
        BY <2>1 DEF StopKinds
      <4>4. e \in Seq(StopKinds) /\ Len(e) = Len(s.rows)
        BY <4>2, <4>3, <2>2
      <4> QED BY <4>1, <4>4, <2>1, TableCounts
    <3>2. CASE s.title \notin opened
      <4>1. b = <<>> /\ e = <<>>
        BY <3>2
      <4> QED BY <4>1, <2>3, <2>4
    <3> QED BY <3>1, <3>2
  <2>6. c \in Seq(LineKinds) /\ Len(c) = 1 /\ c[1] = "stop"
    BY DEF LineKinds
  <2>7. h \in Seq(StopKinds) /\ Len(h) = 1
    BY <2>1 DEF StopKinds
  <2>8. a \in Seq(LineKinds) /\ Tally(a, Len(a)) = 0
    <3>1. CASE k = 1
      <4>1. a = <<>>
        BY <3>1
      <4> QED BY <4>1, <2>3, <2>4
    <3>2. CASE k # 1
      <4>1. a = <<"blank">>
        BY <3>2
      <4> HIDE DEF a
      <4>2. a \in Seq(LineKinds) /\ Len(a) = 1 /\ a[1] = "blank"
        BY <4>1 DEF LineKinds
      <4>3. Stopped(a, 1) = {}
        <5>1. \A x \in 1..1 : x = 1
          OBVIOUS
        <5>2. "blank" # "stop"
          OBVIOUS
        <5> QED BY <4>2, <5>1, <5>2 DEF Stopped
      <4> QED BY <4>2, <4>3, FS_EmptySet DEF Tally
    <3> QED BY <3>1, <3>2
  <2> HIDE DEF a, b, c, e, h
  <2>9. Tally(c, Len(c)) = 1
    <3>1. Tally(c, 0) = 0 /\ Tally(c, 0 + 1) = IF c[0 + 1] = "stop" THEN Tally(c, 0) + 1 ELSE Tally(c, 0)
      BY CountIs
    <3>2. 0 + 1 = 1
      OBVIOUS
    <3> QED BY <3>1, <3>2, <2>6
  <2>10. a \o c \in Seq(LineKinds) /\ Tally(a \o c, Len(a \o c)) = 1
    <3>1. Tally(a \o c, Len(a \o c)) = 0 + 1
      BY <2>6, <2>8, <2>9, CountJoins
    <3> QED BY <3>1, <2>6, <2>8, ConcatProperties
  <2> DEFINE ac == a \o c
  <2> HIDE DEF ac
  <2>11. ac \o b \in Seq(LineKinds) /\ Tally(ac \o b, Len(ac \o b)) = 1 + Len(e)
    <3>1. ac \in Seq(LineKinds) /\ Tally(ac, Len(ac)) = 1
      BY <2>10 DEF ac
    <3> QED BY <3>1, <2>5, CountJoins, ConcatProperties
  <2>12. h \o e \in Seq(StopKinds) /\ Len(h \o e) = 1 + Len(e) /\ Len(e) \in Nat
    <3>1. h \in Seq(StopKinds) /\ e \in Seq(StopKinds) /\ Len(h) = 1
      BY <2>5, <2>7
    <3>2. Len(e) \in Nat
      BY <3>1
    <3>3. h \o e \in Seq(StopKinds) /\ Len(h \o e) = Len(h) + Len(e)
      BY <3>1, ConcatProperties
    <3> QED BY <3>1, <3>2, <3>3
  <2>13. stops(s) = h \o e
    BY DEF h, e
  <2>14. gap(k) \o <<"stop">> \o body(s) = ac \o b
    BY DEF ac, a, b, c
  <2> HIDE DEF gap, body, stops
  <2>15. Len(stops(s)) >= 1 /\ stops(s) \in Seq(StopKinds) /\ Len(stops(s)) = 1 + Len(e)
    BY <2>12, <2>13
  <2> QED BY <2>11, <2>14, <2>15 DEF s
<1> HIDE DEF gap, body, stops
<1>4. /\ f \in Seq(Seq(LineKinds)) /\ g \in Seq(Seq(StopKinds)) /\ Len(f) = Len(data) /\ Len(g) = Len(data)
      /\ \A k \in 1..Len(data) : f[k] = gap(k) \o <<"stop">> \o body(data[k]) /\ g[k] = stops(data[k])
  <2> DEFINE A == Seq(LineKinds)
             B == Seq(StopKinds)
  <2>1. \A k \in 1..Len(data) : gap(k) \o <<"stop">> \o body(data[k]) \in A /\ stops(data[k]) \in B
    BY <1>3
  <2> HIDE DEF A, B
  <2>2. /\ f \in Seq(A) /\ g \in Seq(B) /\ Len(f) = Len(data) /\ Len(g) = Len(data)
        /\ \A k \in 1..Len(data) : f[k] = gap(k) \o <<"stop">> \o body(data[k]) /\ g[k] = stops(data[k])
    BY <1>2, <2>1
  <2> QED BY <2>2 DEF A, B
<1> HIDE DEF f, g
<1>5. /\ \A k \in 1..Len(f) : Tally(f[k], Len(f[k])) = Len(g[k])
      /\ \A k \in 1..Len(g) : Len(g[k]) >= 1
  <2>1. Len(f) = Len(data) /\ Len(g) = Len(data)
    BY <1>4
  <2>2. ASSUME NEW k \in 1..Len(data) PROVE Tally(f[k], Len(f[k])) = Len(g[k]) /\ Len(g[k]) >= 1
    <3>1. f[k] = gap(k) \o <<"stop">> \o body(data[k]) /\ g[k] = stops(data[k])
      BY <1>4
    <3> QED BY <3>1, <1>3
  <2> QED BY <2>1, <2>2
<1>6. Tally(FlattenSeq(f), Len(FlattenSeq(f))) = Len(FlattenSeq(g))
  <2>1. f \in Seq(Seq(LineKinds)) /\ g \in Seq(Seq(StopKinds)) /\ Len(f) = Len(g)
    BY <1>4
  <2>2. \A k \in 1..Len(f) : Tally(f[k], Len(f[k])) = Len(g[k])
    BY <1>5
  <2> QED BY <2>1, <2>2, CountFlattens, SMTT(30)
<1>7. FlattenSeq(f) \in Seq(LineKinds) /\ FlattenSeq(g) \in Seq(StopKinds)
  BY <1>4, FlattenIs
<1>8. ASSUME data # <<>> PROVE Len(FlattenSeq(g)) >= 1
  <2>1. Len(g) >= 1
    BY <1>2, <1>4, <1>8
  <2> QED BY <2>1, <1>4, <1>5, FlattenLong
<1> QED BY <1>1, <1>6, <1>7, <1>8

(***************************************************************************)
(* Agenda: the calendar.                                                   *)
(***************************************************************************)

Firsts(m, F) == F = [k \in 1..m |-> IF k = 1 THEN 1 ELSE F[k - 1] + MonthDays[k - 1]]

LEMMA FirstsExists ==
    ASSUME NEW n \in Nat
    PROVE  \E F : Firsts(n, F)
<1> DEFINE T == {m \in Nat : \E F : Firsts(m, F)}
<1>1. 0 \in T
  <2> DEFINE F == [i \in 1..0 |-> 1]
  <2>1. F = [i \in 1..0 |-> F[i]] /\ \A i \in 1..0 : FALSE
    OBVIOUS
  <2> HIDE DEF F
  <2>2. F = [k \in 1..0 |-> IF k = 1 THEN 1 ELSE F[k - 1] + MonthDays[k - 1]]
    BY <2>1
  <2> QED BY <2>2 DEF Firsts
<1>2. ASSUME NEW m \in Nat, m \in T PROVE m + 1 \in T
  <2>1. PICK F : Firsts(m, F)
    BY <1>2
  <2>2. \A k \in 1..m : F[k] = IF k = 1 THEN 1 ELSE F[k - 1] + MonthDays[k - 1]
    BY <2>1 DEF Firsts
  <2> DEFINE next == IF m = 0 THEN 1 ELSE F[m] + MonthDays[m]
             G == [k \in 1..(m + 1) |-> IF k = m + 1 THEN next ELSE F[k]]
  <2>3. G = [k \in 1..(m + 1) |-> G[k]] /\ G[m + 1] = next /\ \A k \in 1..m : G[k] = F[k]
    <3>1. m + 1 \in 1..(m + 1) /\ \A k \in 1..m : k \in 1..(m + 1) /\ k # m + 1
      OBVIOUS
    <3> HIDE DEF next
    <3> QED BY <3>1
  <2> HIDE DEF G
  <2>4. ASSUME NEW k \in 1..(m + 1)
        PROVE  G[k] = IF k = 1 THEN 1 ELSE G[k - 1] + MonthDays[k - 1]
    <3>1. CASE k = m + 1
      <4>1. k - 1 = m /\ (k = 1 <=> m = 0) /\ (m # 0 => m \in 1..m)
        BY <3>1
      <4> QED BY <3>1, <4>1, <2>3
    <3>2. CASE k # m + 1
      <4>1. k \in 1..m /\ (k # 1 => k - 1 \in 1..m)
        BY <3>2
      <4> HIDE DEF next
      <4> QED BY <2>2, <2>3, <4>1
    <3> QED BY <3>1, <3>2
  <2>5. G = [k \in 1..(m + 1) |-> IF k = 1 THEN 1 ELSE G[k - 1] + MonthDays[k - 1]]
    BY <2>3, <2>4
  <2>6. Firsts(m + 1, G)
    BY <2>5 DEF Firsts
  <2> QED BY <2>6
<1>3. Nat \subseteq T
  BY <1>1, <1>2, Inductively
<1> QED BY <1>3

LEMMA FirstsAre ==
    ASSUME NEW m \in Nat
    PROVE  \E F : Firsts(m, F) /\ FirstOf(m) = F[m]
<1> DEFINE F == CHOOSE F : Firsts(m, F)
<1>1. Firsts(m, F)
  BY FirstsExists
<1>2. FirstOf(m) = F[m]
  BY DEF FirstOf, Firsts
<1> QED BY <1>1, <1>2

LEMMA FirstsAgree ==
    ASSUME NEW m \in Nat, NEW n \in Nat, NEW F, NEW G, Firsts(m, F), Firsts(n, G), NEW k \in 1..m, k \in 1..n
    PROVE  F[k] = G[k]
<1>1. /\ \A i \in 1..m : F[i] = IF i = 1 THEN 1 ELSE F[i - 1] + MonthDays[i - 1]
      /\ \A i \in 1..n : G[i] = IF i = 1 THEN 1 ELSE G[i - 1] + MonthDays[i - 1]
  BY DEF Firsts
<1> DEFINE T == {i \in Nat : i \in 1..m /\ i \in 1..n => F[i] = G[i]}
<1>2. 0 \in T
  OBVIOUS
<1>3. ASSUME NEW i \in Nat, i \in T PROVE i + 1 \in T
  <2> SUFFICES ASSUME i + 1 \in 1..m, i + 1 \in 1..n PROVE F[i + 1] = G[i + 1]
    OBVIOUS
  <2>1. CASE i = 0
    BY <2>1, <1>1
  <2>2. CASE i # 0
    <3>1. i \in 1..m /\ i \in 1..n /\ i + 1 # 1 /\ (i + 1) - 1 = i
      BY <2>2
    <3>2. F[i] = G[i]
      BY <3>1, <1>3
    <3> QED BY <3>1, <3>2, <1>1
  <2> QED BY <2>1, <2>2
<1>4. Nat \subseteq T
  <2> HIDE DEF T
  <2> QED BY <1>2, <1>3, Inductively
<1> QED BY <1>4

LEMMA MonthsAre ==
    /\ Len(MonthDays) \in Nat /\ DOMAIN MonthDays = 1..Len(MonthDays)
    /\ \A m \in 1..Len(MonthDays) : MonthDays[m] \in Nat /\ MonthDays[m] >= 1
<1> DEFINE X == Nat \ {0}
<1>1. MonthDays \in Seq(X)
  BY AgendaAssumption
<1>2. \A x \in X : x \in Nat /\ x >= 1
  OBVIOUS
<1> HIDE DEF X
<1>3. Len(MonthDays) \in Nat /\ DOMAIN MonthDays = 1..Len(MonthDays) /\ \A m \in 1..Len(MonthDays) : MonthDays[m] \in X
  BY <1>1
<1> QED BY <1>2, <1>3

LEMMA FirstIs ==
    /\ FirstOf(1) = 1
    /\ \A m \in Nat : m >= 1 => FirstOf(m + 1) = FirstOf(m) + MonthDays[m]
<1>1. FirstOf(1) = 1
  <2>1. PICK F : Firsts(1, F) /\ FirstOf(1) = F[1]
    BY FirstsAre
  <2>2. \A k \in 1..1 : F[k] = IF k = 1 THEN 1 ELSE F[k - 1] + MonthDays[k - 1]
    BY <2>1 DEF Firsts
  <2> QED BY <2>1, <2>2
<1>2. ASSUME NEW m \in Nat, m >= 1 PROVE FirstOf(m + 1) = FirstOf(m) + MonthDays[m]
  <2>1. PICK F : Firsts(m + 1, F) /\ FirstOf(m + 1) = F[m + 1]
    BY <1>2, FirstsAre
  <2>2. PICK G : Firsts(m, G) /\ FirstOf(m) = G[m]
    BY <1>2, FirstsAre
  <2>3. m \in 1..m /\ m \in 1..(m + 1) /\ m + 1 \in 1..(m + 1) /\ (m + 1) - 1 = m /\ m + 1 # 1
    BY <1>2
  <2>4. F[m] = G[m]
    <3>1. m + 1 \in Nat
      OBVIOUS
    <3> QED BY <3>1, <2>1, <2>2, <2>3, FirstsAgree
  <2>5. F[m + 1] = F[m] + MonthDays[m]
    <3>1. \A k \in 1..(m + 1) : F[k] = IF k = 1 THEN 1 ELSE F[k - 1] + MonthDays[k - 1]
      BY <2>1 DEF Firsts
    <3> QED BY <3>1, <2>3
  <2> QED BY <2>1, <2>2, <2>4, <2>5
<1> QED BY <1>1, <1>2

LEMMA FirstsGrow ==
    \A m \in 1..Len(MonthDays) : FirstOf(m) \in Nat /\ FirstOf(m) >= 1
<1> DEFINE n == Len(MonthDays)
           T == {b \in Nat : b \in 1..n => FirstOf(b) \in Nat /\ FirstOf(b) >= 1}
<1>1. n \in Nat /\ \A m \in 1..n : MonthDays[m] \in Nat /\ MonthDays[m] >= 1
  BY MonthsAre
<1> HIDE DEF n
<1>2. 0 \in T
  OBVIOUS
<1>3. ASSUME NEW b \in Nat, b \in T PROVE b + 1 \in T
  <2> SUFFICES ASSUME b + 1 \in 1..n PROVE FirstOf(b + 1) \in Nat /\ FirstOf(b + 1) >= 1
    OBVIOUS
  <2>1. CASE b = 0
    BY <2>1, FirstIs
  <2>2. CASE b # 0
    <3>1. b \in 1..n /\ b >= 1
      BY <2>2, <1>1
    <3>2. FirstOf(b + 1) = FirstOf(b) + MonthDays[b]
      BY <3>1, FirstIs
    <3>3. FirstOf(b) \in Nat /\ FirstOf(b) >= 1 /\ MonthDays[b] \in Nat
      BY <3>1, <1>1, <1>3
    <3> QED BY <3>2, <3>3
  <2> QED BY <2>1, <2>2
<1>4. Nat \subseteq T
  <2> HIDE DEF T
  <2> QED BY <1>2, <1>3, Inductively
<1> QED BY <1>1, <1>4 DEF n

\* The months follow each other.
LEMMA FirstsFollow ==
    /\ \A m \in 1..Len(MonthDays) : FirstOf(m) \in Nat /\ FirstOf(m) >= 1
    /\ \A a \in 1..Len(MonthDays), b \in 1..Len(MonthDays) : a < b => FirstOf(a) + MonthDays[a] <= FirstOf(b)
<1> DEFINE n == Len(MonthDays)
           Good(b) == /\ FirstOf(b) \in Nat /\ FirstOf(b) >= 1
                      /\ \A a \in 1..n : a < b => FirstOf(a) + MonthDays[a] <= FirstOf(b)
           T == {b \in Nat : b \in 1..n => Good(b)}
<1>1. n \in Nat /\ \A m \in 1..n : MonthDays[m] \in Nat /\ MonthDays[m] >= 1
  BY MonthsAre
<1> HIDE DEF n
<1>2. 0 \in T
  OBVIOUS
<1>3. ASSUME NEW b \in Nat, b \in T PROVE b + 1 \in T
  <2> SUFFICES ASSUME b + 1 \in 1..n PROVE Good(b + 1)
    OBVIOUS
  <2>1. CASE b = 0
    <3>1. FirstOf(b + 1) = 1 /\ \A a \in 1..n : ~(a < b + 1)
      BY <2>1, <1>1, FirstIs
    <3> QED BY <3>1
  <2>2. CASE b # 0
    <3>1. b \in 1..n /\ b >= 1
      BY <2>2, <1>1
    <3>2. FirstOf(b + 1) = FirstOf(b) + MonthDays[b]
      BY <3>1, FirstIs
    <3>3. Good(b)
      BY <3>1, <1>3
    <3>4. FirstOf(b) \in Nat /\ FirstOf(b) >= 1 /\ MonthDays[b] \in Nat /\ MonthDays[b] >= 1
      BY <3>1, <3>3, <1>1
    <3>5. FirstOf(b + 1) \in Nat /\ FirstOf(b + 1) >= 1 /\ FirstOf(b) <= FirstOf(b + 1)
      BY <3>2, <3>4
    <3>6. ASSUME NEW a \in 1..n, a < b + 1 PROVE FirstOf(a) + MonthDays[a] <= FirstOf(b + 1)
      <4>1. CASE a = b
        BY <4>1, <3>2, <3>4
      <4>2. CASE a # b
        <5>1. a < b /\ MonthDays[a] \in Nat
          BY <4>2, <3>6, <1>1
        <5>2. FirstOf(a) + MonthDays[a] <= FirstOf(b)
          BY <5>1, <3>3
        <5>3. FirstOf(a) + MonthDays[a] <= FirstOf(b) + MonthDays[b]
          <6>1. FirstOf(a) \in Nat
            BY <3>6, FirstsGrow DEF n
          <6> QED BY <6>1, <5>1, <5>2, <3>4
        <5> QED BY <5>3, <3>2
      <4> QED BY <4>1, <4>2
    <3> QED BY <3>5, <3>6
  <2> QED BY <2>1, <2>2
<1>4. Nat \subseteq T
  <2> HIDE DEF T
  <2> QED BY <1>2, <1>3, Inductively
<1>5. \A b \in 1..n : Good(b)
  <2> HIDE DEF Good
  <2> QED BY <1>4
<1> QED BY <1>5 DEF n

LEMMA MonthIs ==
    ASSUME NEW m \in 1..Len(MonthDays), NEW d \in DaysOf(m)
    PROVE  MonthOf(d) = m
<1>1. ASSUME NEW k \in 1..Len(MonthDays), d \in DaysOf(k) PROVE k = m
  <2>1. /\ FirstOf(m) \in Nat /\ FirstOf(k) \in Nat /\ MonthDays[m] \in Nat /\ MonthDays[k] \in Nat
    BY FirstsGrow, MonthsAre
  <2>2. FirstOf(m) <= d /\ d < FirstOf(m) + MonthDays[m] /\ FirstOf(k) <= d /\ d < FirstOf(k) + MonthDays[k] /\ d \in Int
    BY <2>1, <1>1 DEF DaysOf
  <2>3. ~(m < k)
    <3>1. m < k => FirstOf(m) + MonthDays[m] <= FirstOf(k)
      BY FirstsFollow
    <3> QED BY <3>1, <2>1, <2>2
  <2>4. ~(k < m)
    <3>1. k < m => FirstOf(k) + MonthDays[k] <= FirstOf(m)
      BY FirstsFollow
    <3> QED BY <3>1, <2>1, <2>2
  <2>5. k \in Int /\ m \in Int
    BY MonthsAre
  <2> QED BY <2>3, <2>4, <2>5
<1>2. DOMAIN MonthDays = 1..Len(MonthDays)
  BY MonthsAre
<1> QED BY <1>1, <1>2 DEF MonthOf

LEMMA IntervalsAre == Max(Intervals) = 2
<1>1. 2 \in Intervals /\ \A n \in Intervals : n <= 2 /\ n \in Int
  BY DEF Intervals
<1>2. \A x \in Intervals : (\A n \in Intervals : x >= n) => x = 2
  BY <1>1
<1> QED BY <1>1, <1>2 DEF Max

\* A date is in a month with the longest interval's months after it.
LEMMA PlanDaysIs ==
    ASSUME NEW d \in PlanDays
    PROVE  /\ d \in Nat /\ d >= 1
           /\ MonthOf(d) \in 1..Len(MonthDays) /\ d \in DaysOf(MonthOf(d))
           /\ \A n \in Intervals : MonthOf(d) + n \in 1..Len(MonthDays)
<1>1. PICK m \in 1..(Len(MonthDays) - 2) : d \in DaysOf(m)
  BY IntervalsAre, AgendaAssumption
<1>2. m \in 1..Len(MonthDays) /\ \A n \in 0..2 : m + n \in 1..Len(MonthDays)
  <2>1. Len(MonthDays) \in Nat
    BY MonthsAre
  <2> QED BY <1>1, <2>1
<1>3. MonthOf(d) = m
  BY <1>1, <1>2, MonthIs
<1>4. d \in Nat /\ d >= 1
  <2>1. FirstOf(m) \in Nat /\ FirstOf(m) >= 1 /\ MonthDays[m] \in Nat
    BY <1>2, FirstsGrow, MonthsAre
  <2> QED BY <1>1, <2>1 DEF DaysOf
<1> QED BY <1>1, <1>2, <1>3, <1>4 DEF Intervals

\* Months later, in the month so many months later
LEMMA AddMonthsIs ==
    ASSUME NEW d \in PlanDays, NEW n \in Intervals
    PROVE  LET k == MonthOf(d) + n
               a == d - FirstOf(MonthOf(d))
               b == MonthDays[k] - 1
           IN  /\ k \in 1..Len(MonthDays) /\ FirstOf(k) \in Nat /\ FirstOf(k) >= 1
               /\ a \in Nat /\ b \in Nat /\ MonthDays[k] = b + 1
               /\ AddMonths(d, n) = FirstOf(k) + IF a <= b THEN a ELSE b
<1> DEFINE m == MonthOf(d)
           k == m + n
           a == d - FirstOf(m)
           b == MonthDays[k] - 1
<1>1. m \in 1..Len(MonthDays) /\ k \in 1..Len(MonthDays) /\ d \in DaysOf(m) /\ d \in Nat
  BY PlanDaysIs
<1>2. AddMonths(d, n) = FirstOf(k) + Min({a, b})
  BY DEF AddMonths
<1> HIDE DEF m, k
<1>3. FirstOf(m) \in Nat /\ FirstOf(k) \in Nat /\ FirstOf(k) >= 1 /\ MonthDays[k] \in Nat /\ MonthDays[k] >= 1
  BY <1>1, FirstsGrow, MonthsAre
<1>4. FirstOf(m) <= d
  BY <1>1, <1>3, MonthsAre DEF DaysOf
<1>5. a \in Nat /\ b \in Nat /\ MonthDays[k] = b + 1
  BY <1>1, <1>3, <1>4
<1> HIDE DEF a, b
<1>6. Min({a, b}) = IF a <= b THEN a ELSE b
  BY <1>5, MinTwo
<1> QED BY <1>1, <1>2, <1>3, <1>5, <1>6 DEF k, m, a, b

LEMMA LateAddMonths ==
    ASSUME NEW d \in PlanDays, NEW n \in Intervals
    PROVE  AddMonths(d, n) \in Nat /\ AddMonths(d, n) >= 1
<1> DEFINE k == MonthOf(d) + n
           a == d - FirstOf(MonthOf(d))
           b == MonthDays[k] - 1
<1>1. /\ FirstOf(k) \in Nat /\ FirstOf(k) >= 1 /\ a \in Nat /\ b \in Nat
      /\ AddMonths(d, n) = FirstOf(k) + IF a <= b THEN a ELSE b
  BY AddMonthsIs
<1> HIDE DEF k, a, b
<1> QED BY <1>1

\* Months after a later date is no earlier.
LEMMA AddMonthsRises ==
    ASSUME NEW d \in PlanDays, NEW e \in PlanDays, d <= e, NEW n \in Intervals
    PROVE  AddMonths(d, n) <= AddMonths(e, n)
<1> DEFINE m == MonthOf(d)
           k == MonthOf(e)
           a == d - FirstOf(m)
           b == MonthDays[m + n] - 1
           x == e - FirstOf(k)
           y == MonthDays[k + n] - 1
<1>1. /\ m \in 1..Len(MonthDays) /\ d \in DaysOf(m) /\ k \in 1..Len(MonthDays) /\ e \in DaysOf(k)
      /\ d \in Nat /\ e \in Nat /\ n \in Int
  BY PlanDaysIs DEF Intervals
<1>2. /\ m + n \in 1..Len(MonthDays) /\ FirstOf(m + n) \in Nat /\ a \in Nat /\ b \in Nat
      /\ MonthDays[m + n] = b + 1 /\ AddMonths(d, n) = FirstOf(m + n) + IF a <= b THEN a ELSE b
  BY AddMonthsIs
<1>3. /\ k + n \in 1..Len(MonthDays) /\ FirstOf(k + n) \in Nat /\ x \in Nat /\ y \in Nat
      /\ MonthDays[k + n] = y + 1 /\ AddMonths(e, n) = FirstOf(k + n) + IF x <= y THEN x ELSE y
  BY AddMonthsIs
<1>4. m \in Int /\ k \in Int /\ FirstOf(m) \in Nat /\ FirstOf(k) \in Nat /\ MonthDays[m] \in Nat /\ MonthDays[k] \in Nat
  <2> HIDE DEF m, k
  <2> QED BY <1>1, FirstsGrow, MonthsAre
<1>5. FirstOf(m) <= d /\ e < FirstOf(k) + MonthDays[k]
  <2> HIDE DEF m, k
  <2> QED BY <1>1, <1>4 DEF DaysOf
<1>6. m <= k
  <2> HIDE DEF m, k
  <2>1. k < m => FirstOf(k) + MonthDays[k] <= FirstOf(m)
    BY <1>1, FirstsFollow
  <2> QED BY <2>1, <1>1, <1>4, <1>5
<1>7. CASE m = k
  <2>1. a <= x /\ b = y /\ FirstOf(m + n) = FirstOf(k + n)
    BY <1>7, <1>1, <1>4
  <2> HIDE DEF m, k, a, b, x, y
  <2> QED BY <2>1, <1>2, <1>3
<1>8. CASE m # k
  <2> HIDE DEF m, k
  <2>1. m + n < k + n
    BY <1>8, <1>1, <1>4, <1>6
  <2>2. FirstOf(m + n) + MonthDays[m + n] <= FirstOf(k + n)
    BY <2>1, <1>2, <1>3, FirstsFollow
  <2> HIDE DEF a, b, x, y
  <2> QED BY <2>2, <1>2, <1>3
<1> QED BY <1>7, <1>8

\* The plans of chores
Plans == [last : PlanDays \cup {NoDate}, every : Intervals, due : PlanDays \cup {NoDate}, log : PlanDays \cup {NoDate}]

LEMMA NextDueIs ==
    ASSUME NEW p \in Plans
    PROVE  NextDue(p) \in Nat
<1>1. \A d \in PlanDays : d \in Nat
  BY PlanDaysIs
<1>2. CASE p.due # NoDate
  BY <1>1, <1>2 DEF NextDue, Plans
<1>3. CASE p.due = NoDate /\ (p.last = NoDate \/ p.every = 0)
  BY <1>3 DEF NextDue, NoDate
<1>4. CASE p.due = NoDate /\ p.last # NoDate /\ p.every # 0
  <2>1. p.last \in PlanDays /\ p.every \in Intervals
    BY <1>4 DEF Plans
  <2> QED BY <2>1, <1>4, LateAddMonths DEF NextDue
<1> QED BY <1>2, <1>3, <1>4

LEMMA LaterDue ==
    ASSUME NEW p \in Plans, NEW q \in Plans,
           p.last # NoDate, q.last >= p.last, p.every = q.every, p.every > 0, p.due = NoDate, q.due = NoDate
    PROVE  NextDue(q) >= NextDue(p)
<1>1. p.last \in PlanDays /\ p.every \in Intervals /\ q.last \in PlanDays \cup {NoDate}
  BY DEF Plans
<1>2. p.last \in Nat /\ p.last >= 1
  BY <1>1, PlanDaysIs
<1>3. q.last # NoDate
  BY <1>2 DEF NoDate
<1>4. q.last \in PlanDays
  BY <1>1, <1>3
<1>5. q.last \in Nat /\ p.last <= q.last
  BY <1>2, <1>4, PlanDaysIs
<1>6. AddMonths(p.last, p.every) <= AddMonths(q.last, p.every)
  BY <1>1, <1>4, <1>5, AddMonthsRises
<1>7. p.every # 0
  BY <1>1 DEF Intervals
<1>8. NextDue(p) = AddMonths(p.last, p.every) /\ NextDue(q) = AddMonths(q.last, p.every)
  BY <1>3, <1>7 DEF NextDue
<1>9. NextDue(p) \in Nat /\ NextDue(q) \in Nat
  BY NextDueIs
<1> QED BY <1>6, <1>8, <1>9

-----------------------------------------------------------------------------
(***************************************************************************)
(* Agenda: what is due, the soonest first.                                 *)
(***************************************************************************)

LEMMA SetToSeqIs ==
    ASSUME NEW S, IsFiniteSet(S)
    PROVE  SetToSeq(S) \in Seq(S)
<1> DEFINE n == Cardinality(S)
<1>1. n \in Nat
  BY FS_CardinalityType
<1>2. IsFiniteSet(1..n) /\ Cardinality(1..n) = n
  <2>1. IsFiniteSet(1..n) /\ Cardinality(1..n) = IF 1 > n THEN 0 ELSE n - 1 + 1
    BY <1>1, FS_Interval
  <2> HIDE DEF n
  <2> QED BY <2>1, <1>1
<1>3. ExistsBijection(1..n, S)
  BY <1>2, FS_SameCardinalityBij
<1>4. PICK f \in [1..n -> S] : \A a, b \in 1..n : f[a] = f[b] => a = b
  BY <1>3 DEF ExistsBijection, Bijection, Injection, IsInjective
<1>5. IsInjective(f)
  BY <1>4 DEF IsInjective
<1>6. SetToSeq(S) \in [1..n -> S]
  BY <1>5 DEF SetToSeq
<1> HIDE DEF n
<1> QED BY <1>1, <1>6

\* The chores of S have dates they are due at.
Dues(S) == S \subseteq Nat /\ IsFiniteSet(S) /\ \A i \in S : NextDue(plan[i]) \in Nat

Earlier(S, i) == {j \in S : Sooner(j, i)}

LEMMA BeforeIs ==
    ASSUME NEW S, Dues(S), NEW i \in S
    PROVE  /\ Before(S, i) = Cardinality(Earlier(S, i)) /\ Before(S, i) \in Nat /\ Before(S, i) < Cardinality(S)
           /\ \A j \in S : Sooner(i, j) => Before(S, i) < Before(S, j)
           /\ \A j \in S : i = j \/ Sooner(i, j) \/ Sooner(j, i)
<1>1. S \subseteq Nat /\ IsFiniteSet(S) /\ \A j \in S : NextDue(plan[j]) \in Nat
  BY DEF Dues
<1>2. \A j \in S : Before(S, j) = Cardinality(Earlier(S, j)) /\ Earlier(S, j) \in SUBSET S
  BY DEF Before, Earlier
<1>3. \A j \in S : IsFiniteSet(Earlier(S, j)) /\ Cardinality(Earlier(S, j)) \in Nat
  BY <1>1, <1>2, FS_Subset, FS_CardinalityType
<1>4. Cardinality(S) \in Nat
  BY <1>1, FS_CardinalityType
<1>5. ~Sooner(i, i)
  BY <1>1 DEF Sooner
<1>6. Before(S, i) < Cardinality(S)
  <2>1. Earlier(S, i) # S
    BY <1>5 DEF Earlier
  <2>2. Cardinality(Earlier(S, i)) <= Cardinality(S) /\ Cardinality(S) # Cardinality(Earlier(S, i))
    BY <2>1, <1>1, <1>2, FS_Subset
  <2> QED BY <2>2, <1>2, <1>3, <1>4
<1>7. ASSUME NEW j \in S, Sooner(i, j) PROVE Before(S, i) < Before(S, j)
  <2>1. Earlier(S, i) \in SUBSET Earlier(S, j)
    <3>1. ASSUME NEW k \in S, Sooner(k, i) PROVE Sooner(k, j)
      <4>1. /\ NextDue(plan[k]) \in Nat /\ NextDue(plan[i]) \in Nat /\ NextDue(plan[j]) \in Nat
            /\ i \in Nat /\ j \in Nat /\ k \in Nat
        BY <1>1
      <4> QED BY <4>1, <3>1, <1>7 DEF Sooner
    <3> QED BY <3>1 DEF Earlier
  <2>2. Earlier(S, i) # Earlier(S, j)
    BY <1>5, <1>7 DEF Earlier
  <2>3. /\ Cardinality(Earlier(S, i)) <= Cardinality(Earlier(S, j))
        /\ Cardinality(Earlier(S, j)) # Cardinality(Earlier(S, i))
    BY <2>1, <2>2, <1>3, FS_Subset
  <2> QED BY <2>3, <1>2, <1>3
<1>8. ASSUME NEW j \in S PROVE i = j \/ Sooner(i, j) \/ Sooner(j, i)
  <2>1. NextDue(plan[i]) \in Nat /\ NextDue(plan[j]) \in Nat /\ i \in Nat /\ j \in Nat
    BY <1>1
  <2> QED BY <2>1 DEF Sooner
<1> QED BY <1>2, <1>3, <1>6, <1>7, <1>8

LEMMA BeforeDiffers ==
    ASSUME NEW S, Dues(S), NEW i \in S, NEW j \in S, Before(S, i) = Before(S, j)
    PROVE  i = j
<1>1. Before(S, i) \in Nat /\ Before(S, j) \in Nat
  BY BeforeIs
<1>2. Sooner(i, j) => Before(S, i) < Before(S, j)
  BY BeforeIs
<1>3. Sooner(j, i) => Before(S, j) < Before(S, i)
  BY BeforeIs
<1>4. i = j \/ Sooner(i, j) \/ Sooner(j, i)
  BY BeforeIs
<1> QED BY <1>1, <1>2, <1>3, <1>4

\* Every place in the order has its chore.
LEMMA BySoonestIs ==
    ASSUME NEW S, Dues(S)
    PROVE  LET n == Cardinality(S)
           IN  /\ n \in Nat
               /\ BySoonest(S) = [r \in 1..n |-> BySoonest(S)[r]]
               /\ \A r \in 1..n : BySoonest(S)[r] \in S /\ Before(S, BySoonest(S)[r]) = r - 1
<1> DEFINE n == Cardinality(S)
           f == [i \in S |-> Before(S, i) + 1]
<1>1. n \in Nat /\ IsFiniteSet(S)
  BY FS_CardinalityType DEF Dues
<1>2. IsFiniteSet(1..n) /\ Cardinality(1..n) = n
  <2>1. IsFiniteSet(1..n) /\ Cardinality(1..n) = IF 1 > n THEN 0 ELSE n - 1 + 1
    BY <1>1, FS_Interval
  <2> HIDE DEF n
  <2> QED BY <2>1, <1>1
<1>3. \A i \in S : Before(S, i) \in Nat /\ Before(S, i) < n
  BY BeforeIs
<1>4. f \in Injection(S, 1..n)
  <2>1. \A i \in S : Before(S, i) + 1 \in 1..n
    <3> HIDE DEF n
    <3> QED BY <1>1, <1>3
  <2>2. f \in [S -> 1..n]
    BY <2>1
  <2>3. ASSUME NEW i \in S, NEW j \in S, f[i] = f[j] PROVE i = j
    <3>1. Before(S, i) + 1 = Before(S, j) + 1
      BY <2>3
    <3>2. Before(S, i) = Before(S, j)
      BY <3>1, <1>3
    <3> QED BY <3>2, BeforeDiffers
  <2> HIDE DEF f
  <2> QED BY <2>2, <2>3 DEF Injection, IsInjective
<1>5. f \in Surjection(S, 1..n)
  <2> HIDE DEF f
  <2> QED BY <1>2, <1>4, FS_Injection
<1>6. ASSUME NEW r \in 1..n PROVE BySoonest(S)[r] \in S /\ Before(S, BySoonest(S)[r]) = r - 1
  <2>1. PICK i \in S : f[i] = r
    <3> HIDE DEF f
    <3> QED BY <1>5 DEF Surjection
  <2>2. Before(S, i) = r - 1
    <3>1. Before(S, i) + 1 = r
      BY <2>1
    <3> QED BY <3>1, <1>3
  <2>3. BySoonest(S)[r] = CHOOSE k \in S : Before(S, k) = r - 1
    BY DEF BySoonest
  <2> QED BY <2>2, <2>3
<1>7. BySoonest(S) = [r \in 1..n |-> BySoonest(S)[r]]
  BY DEF BySoonest
<1> QED BY <1>1, <1>6, <1>7

\* The list has the soonest, as many as it may have.
LEMMA CapSliceIs ==
    ASSUME NEW S, Dues(S)
    PROVE  /\ CapSlice(S) \in Seq(S)
           /\ \A i \in S \ ToSet(CapSlice(S)) :
                  /\ Cardinality(ToSet(CapSlice(S))) = Cap
                  /\ \A j \in ToSet(CapSlice(S)) : NextDue(plan[j]) <= NextDue(plan[i])
<1> DEFINE n == Cardinality(S)
           b == BySoonest(S)
           k == Min({Cap, n})
           c == CapSlice(S)
<1>1. n \in Nat /\ b = [r \in 1..n |-> b[r]] /\ \A r \in 1..n : b[r] \in S /\ Before(S, b[r]) = r - 1
  BY BySoonestIs
<1>2. Cap \in Nat
  BY AgendaAssumption
<1>3. k = IF Cap <= n THEN Cap ELSE n
  BY <1>1, <1>2, MinTwo
<1> HIDE DEF n, b
<1>4. k \in Nat /\ k <= n /\ (k < n => k = Cap)
  BY <1>1, <1>2, <1>3
<1> HIDE DEF k
<1>5. b \in Seq(S) /\ Len(b) = n
  BY <1>1
<1>6. c = SubSeq(b, 1, k)
  BY DEF CapSlice, b, k, n
<1>7. c \in Seq(S) /\ Len(c) = k /\ \A r \in 1..k : c[r] = b[r]
  <2> HIDE DEF c
  <2> QED BY <1>4, <1>5, <1>6
<1> HIDE DEF c
<1>8. ToSet(c) = {b[r] : r \in 1..k}
  <2>1. DOMAIN c = 1..k
    BY <1>7
  <2>2. ToSet(c) = {c[r] : r \in 1..k}
    BY <2>1 DEF ToSet
  <2> QED BY <2>2, <1>7
<1>9. \A r \in 1..k : r \in 1..n
  BY <1>1, <1>4
<1>10. Cardinality(ToSet(c)) = k
  <2> DEFINE g == [r \in 1..k |-> b[r]]
  <2>1. IsFiniteSet(1..k) /\ Cardinality(1..k) = k
    <3>1. IsFiniteSet(1..k) /\ Cardinality(1..k) = IF 1 > k THEN 0 ELSE k - 1 + 1
      BY <1>4, FS_Interval
    <3> QED BY <3>1, <1>4
  <2>2. g \in [1..k -> ToSet(c)] /\ \A y \in ToSet(c) : \E r \in 1..k : g[r] = y
    BY <1>8
  <2>3. ASSUME NEW r \in 1..k, NEW q \in 1..k, g[r] = g[q] PROVE r = q
    <3>1. Before(S, b[r]) = r - 1 /\ Before(S, b[q]) = q - 1 /\ b[r] = b[q]
      BY <2>3, <1>1, <1>9
    <3>2. r - 1 = q - 1
      BY <3>1
    <3> QED BY <3>2
  <2> HIDE DEF g
  <2>4. g \in Surjection(1..k, ToSet(c)) /\ g \in Injection(1..k, ToSet(c))
    BY <2>2, <2>3 DEF Surjection, Injection, IsInjective
  <2> QED BY <2>1, <2>4, FS_Surjection
<1>11. ASSUME NEW i \in S \ ToSet(c)
       PROVE  k = Cap /\ \A j \in ToSet(c) : NextDue(plan[j]) <= NextDue(plan[i])
  <2>1. Before(S, i) \in Nat /\ Before(S, i) < n
    BY BeforeIs DEF n
  <2> DEFINE r == Before(S, i) + 1
  <2>2. r \in 1..n /\ r - 1 = Before(S, i)
    BY <2>1, <1>1
  <2>3. b[r] = i
    <3>1. b[r] \in S /\ Before(S, b[r]) = Before(S, i)
      BY <2>2, <1>1
    <3> QED BY <3>1, BeforeDiffers
  <2>4. r \notin 1..k
    BY <2>3, <1>8, <1>11
  <2>5. k < r
    BY <2>2, <2>4, <1>4
  <2>6. k < n
    BY <2>2, <2>5, <1>1, <1>4
  <2>7. ASSUME NEW j \in ToSet(c) PROVE NextDue(plan[j]) <= NextDue(plan[i])
    <3>1. PICK q \in 1..k : j = b[q]
      BY <1>8
    <3>2. j \in S /\ Before(S, j) = q - 1
      BY <3>1, <1>1, <1>9
    <3>3. Before(S, j) < Before(S, i)
      BY <3>1, <3>2, <2>2, <2>5, <1>4
    <3>4. ~Sooner(i, j)
      <4>1. Sooner(i, j) => Before(S, i) < Before(S, j)
        BY <3>2, BeforeIs
      <4> QED BY <4>1, <3>2, <3>3, <2>1
    <3>5. NextDue(plan[j]) \in Nat /\ NextDue(plan[i]) \in Nat
      BY <3>2 DEF Dues
    <3> QED BY <3>4, <3>5 DEF Sooner
  <2> QED BY <2>6, <2>7, <1>4
<1>12. c = CapSlice(S)
  BY DEF c
<1> QED BY <1>7, <1>10, <1>11, <1>12

-----------------------------------------------------------------------------
(***************************************************************************)
(* Agenda: what the dashboard loads.                                       *)
(***************************************************************************)

LEMMA Wider ==
    ASSUME NEW S, NEW T, S \subseteq T, NEW s \in Seq(S)
    PROVE  s \in Seq(T)
<1>1. Len(s) \in Nat /\ s \in [1..Len(s) -> S]
  OBVIOUS
<1>2. s \in [1..Len(s) -> T]
  BY <1>1
<1> QED BY <1>1, <1>2

\* Days and plans are the calendar's.
PlansKept == today \in Period /\ plan \in [Chores -> Plans]

LEMMA DuesAre ==
    ASSUME PlansKept, NEW from, NEW to
    PROVE  Dues(Due(from, to)) /\ Due(from, to) \subseteq Chores /\ IsFiniteSet(Due(from, to))
<1>1. Due(from, to) \in SUBSET Chores
  BY DEF Due, WithSchedule
<1>2. Chores \subseteq Nat /\ IsFiniteSet(Chores)
  BY AgendaAssumption
<1>3. IsFiniteSet(Due(from, to))
  BY <1>1, <1>2, FS_Subset
<1>4. \A i \in Chores : NextDue(plan[i]) \in Nat
  BY NextDueIs DEF PlansKept
<1> QED BY <1>1, <1>2, <1>3, <1>4 DEF Dues

LEMMA SectionRows ==
    ASSUME PlansKept
    PROVE  /\ SetToSeq(OpenIncidents) \in Seq(Targets) /\ SetToSeq(InSeason) \in Seq(Targets)
           /\ SetToSeq(ActiveProjects) \in Seq(Targets)
           /\ CapSlice(Overdue) \in Seq(Targets) /\ CapSlice(Upcoming(Ahead)) \in Seq(Targets)
           /\ SetToSeq(Expiring) \o (IF Renewing THEN <<0>> ELSE <<>>) \in Seq(Targets)
<1>1. /\ OpenIncidents \subseteq Targets /\ ActiveProjects \subseteq Targets /\ Chores \subseteq Targets
      /\ DOMAIN Warranty \subseteq Targets /\ 0 \in Targets
  BY DEF Targets
<1>2. /\ IsFiniteSet(OpenIncidents) /\ IsFiniteSet(ActiveProjects) /\ IsFiniteSet(DOMAIN Warranty)
      /\ IsFiniteSet(Chores)
  BY AgendaAssumption
<1>3. SetToSeq(OpenIncidents) \in Seq(Targets) /\ SetToSeq(ActiveProjects) \in Seq(Targets)
  <2>1. SetToSeq(OpenIncidents) \in Seq(OpenIncidents) /\ SetToSeq(ActiveProjects) \in Seq(ActiveProjects)
    BY <1>2, SetToSeqIs
  <2> QED BY <2>1, <1>1, Wider
<1>4. SetToSeq(InSeason) \in Seq(Targets)
  <2>1. InSeason \in SUBSET Chores
    BY DEF InSeason
  <2>2. SetToSeq(InSeason) \in Seq(InSeason)
    <3>1. IsFiniteSet(InSeason)
      BY <2>1, <1>2, FS_Subset
    <3> QED BY <3>1, SetToSeqIs
  <2>3. InSeason \subseteq Targets
    BY <2>1, <1>1
  <2> QED BY <2>2, <2>3, Wider
<1>5. ASSUME NEW from, NEW to PROVE CapSlice(Due(from, to)) \in Seq(Targets)
  <2>1. Dues(Due(from, to)) /\ Due(from, to) \subseteq Targets
    BY <1>1, DuesAre
  <2>2. CapSlice(Due(from, to)) \in Seq(Due(from, to))
    BY <2>1, CapSliceIs
  <2> QED BY <2>1, <2>2, Wider
<1>6. SetToSeq(Expiring) \in Seq(Targets)
  <2>1. Expiring \in SUBSET (DOMAIN Warranty)
    BY DEF Expiring
  <2>2. SetToSeq(Expiring) \in Seq(Expiring)
    <3>1. IsFiniteSet(Expiring)
      BY <2>1, <1>2, FS_Subset
    <3> QED BY <3>1, SetToSeqIs
  <2>3. Expiring \subseteq Targets
    BY <2>1, <1>1
  <2> QED BY <2>2, <2>3, Wider
<1>7. (IF Renewing THEN <<0>> ELSE <<>>) \in Seq(Targets)
  BY <1>1
<1>8. SetToSeq(Expiring) \o (IF Renewing THEN <<0>> ELSE <<>>) \in Seq(Targets)
  BY <1>6, <1>7, ConcatProperties
<1> QED BY <1>3, <1>4, <1>5, <1>8 DEF Overdue, Upcoming

\* The overdue chores it shows are the first of the overdue ones.
Shown(data) == UNION {ToSet(s.rows) : s \in {t \in ToSet(data) : t.title = "overdue"}}

LEMMA DashDataIs ==
    ASSUME PlansKept
    PROVE  DashData \in Seq(DashRows) /\ Shown(DashData) = ToSet(CapSlice(Overdue))
<1> DEFINE sec(title, rows) == [title |-> title, rows |-> rows]
           a == sec("incidents", SetToSeq(OpenIncidents))
           b == sec("overdue", CapSlice(Overdue))
           c == sec("upcoming", CapSlice(Upcoming(Ahead)))
           d == sec("seasonal", SetToSeq(InSeason))
           e == sec("projects", SetToSeq(ActiveProjects))
           f == sec("expiring", SetToSeq(Expiring) \o IF Renewing THEN <<0>> ELSE <<>>)
           all == <<a, b, c, d, e, f>>
           S == {s \in ToSet(all) : s.rows # <<>>}
<1>1. DashData = Only(all, S)
  BY DEF DashData
<1>2. a \in DashRows /\ b \in DashRows /\ c \in DashRows /\ d \in DashRows /\ e \in DashRows /\ f \in DashRows
  BY SectionRows DEF DashRows, Titles
<1>3. /\ b.title = "overdue" /\ b.rows = CapSlice(Overdue)
      /\ a.title # "overdue" /\ c.title # "overdue" /\ d.title # "overdue" /\ e.title # "overdue" /\ f.title # "overdue"
  OBVIOUS
<1> HIDE DEF a, b, c, d, e, f
<1>4. all \in Seq(DashRows) /\ DOMAIN all = 1..6 /\ all[2] = b
  BY <1>2
<1>5. \A i \in 1..6 : all[i] \in {a, b, c, d, e, f}
  OBVIOUS
<1> HIDE DEF all
<1>6. \A i \in DOMAIN all : all[i].title = "overdue" => all[i] = b
  BY <1>3, <1>4, <1>5
<1>7. b \in ToSet(all)
  BY <1>4 DEF ToSet
<1> DEFINE data == Only(all, S)
<1>8. /\ data \in Seq(DashRows)
      /\ \A i \in DOMAIN data : data[i] \in S /\ \E j \in DOMAIN all : all[j] = data[i]
      /\ \A j \in DOMAIN all : all[j] \in S => \E i \in DOMAIN data : data[i] = all[j]
  <2> HIDE DEF S
  <2>1. all \in Seq(DashRows)
    BY <1>4
  <2>2. data = Only(all, S)
    OBVIOUS
  <2> HIDE DEF data
  <2>3. data \in Seq(DashRows)
    BY <2>1, <2>2, OnlyIs
  <2>4. \A i \in DOMAIN data : data[i] \in S /\ \E j \in DOMAIN all : all[j] = data[i]
    BY <2>1, <2>2, OnlyIs
  <2>5. \A j \in DOMAIN all : all[j] \in S => \E i \in DOMAIN data : data[i] = all[j]
    BY <2>1, <2>2, OnlyIs
  <2> QED BY <2>3, <2>4, <2>5
<1> HIDE DEF data
<1>9. \A t \in ToSet(data) : t.title = "overdue" => t = b
  BY <1>6, <1>8 DEF ToSet
<1>10. b.rows # <<>> => b \in ToSet(data)
  <2>1. b.rows # <<>> => b \in S
    BY <1>7
  <2> HIDE DEF S
  <2> QED BY <2>1, <1>4, <1>8 DEF ToSet
<1>11. Shown(data) = ToSet(b.rows)
  <2>1. CASE b.rows # <<>>
    <3>1. {t \in ToSet(data) : t.title = "overdue"} = {b}
      BY <2>1, <1>3, <1>9, <1>10
    <3> QED BY <3>1 DEF Shown
  <2>2. CASE b.rows = <<>>
    <3>1. ToSet(b.rows) = {}
      BY <2>2 DEF ToSet
    <3>2. \A t \in {u \in ToSet(data) : u.title = "overdue"} : ToSet(t.rows) = {}
      BY <3>1, <1>9
    <3> QED BY <3>1, <3>2 DEF Shown
  <2> QED BY <2>1, <2>2
<1> QED BY <1>1, <1>3, <1>8, <1>11 DEF data

-----------------------------------------------------------------------------
(***************************************************************************)
(* Agenda: the dashboard, opened, moved in, folded and resized.            *)
(***************************************************************************)

Boards  == [show : BOOLEAN, data : Seq(DashRows), open : SUBSET Titles, cursor : Nat]
StopsIn(b) == Len(StopsOf(b.data, b.open))

\* The cursor is at a stop, and its line in the window.
AtStop(b) == b.data # <<>> => b.cursor \in 1..StopsIn(b)
Framed(f) == f.line \in f.offset..(f.to - 1) /\ f.drawn <= f.height

BoardKept ==
    /\ board \in Boards /\ frame.offset \in Nat /\ frame.height \in Heights
    /\ board.show => AtStop(board)
    /\ CursorLineDrawn

LEMMA NothingHasNoLines ==
    ASSUME NEW opened
    PROVE  Len(LinesOf(<<>>, opened)) = 0
<1> DEFINE gap(k)  == IF k = 1 THEN <<>> ELSE <<"blank">>
           body(s) == IF s.title \in opened THEN TableLines(s.rows) ELSE <<>>
           f == [k \in DOMAIN <<>> |-> gap(k) \o <<"stop">> \o body(<<>>[k])]
<1>1. LinesOf(<<>>, opened) = FlattenSeq(f)
  BY DEF LinesOf
<1>2. Len(f) = 0
  <2>1. DOMAIN <<>> = 1..0
    OBVIOUS
  <2> HIDE DEF gap, body
  <2> QED BY <2>1
<1> HIDE DEF f
<1>3. FlattenSeq(f) = f
  BY <1>2 DEF FlattenSeq
<1> QED BY <1>1, <1>2, <1>3

LEMMA DrawIs ==
    ASSUME NEW b \in Boards, AtStop(b), NEW o \in Nat, NEW height \in Heights
    PROVE  LET f == Draw(b, o, height)
           IN  f.offset \in Nat /\ f.height = height /\ (b.data # <<>> => Framed(f))
<1> DEFINE lines == LinesOf(b.data, b.open)
           n == Len(lines)
           line == LineOf(lines, b.cursor)
           fit == Fit(o, line, height, n)
           shown == Max({height - fit.marks, 1})
           to == Min({fit.offset + shown, n})
           drawn == to - fit.offset + Marks(fit.offset, shown, n)
           small == [height |-> height, offset |-> 0, line |-> line, to |-> n, drawn |-> n]
           big == [height |-> height, offset |-> fit.offset, line |-> line, to |-> to, drawn |-> drawn]
<1>1. Draw(b, o, height) = IF n <= height THEN small ELSE big
  BY DEF Draw
<1>2. height \in Nat /\ height >= 3
  BY AgendaAssumption
<1>3. b.data \in Seq(DashRows)
  BY DEF Boards
<1>4. lines \in Seq(LineKinds) /\ Tally(lines, Len(lines)) = StopsIn(b)
  BY <1>3, StopsAre DEF StopsIn
<1>5. n \in Nat
  <2> HIDE DEF lines
  <2> QED BY <1>4
<1>6. CASE b.data = <<>>
  <2>1. n = 0
    BY <1>6, NothingHasNoLines
  <2> HIDE DEF n
  <2>2. n <= height
    BY <2>1, <1>2
  <2>3. Draw(b, o, height) = small
    BY <2>2, <1>1
  <2>4. small.offset = 0 /\ small.height = height
    OBVIOUS
  <2> HIDE DEF small
  <2> QED BY <2>3, <2>4, <1>6
<1>7. CASE b.data # <<>>
  <2>1. b.cursor \in 1..Tally(lines, Len(lines))
    BY <1>4, <1>7 DEF AtStop
  <2>2. line \in 0..(n - 1)
    <3> HIDE DEF lines
    <3> QED BY <2>1, <1>4, LineIs
  <2> HIDE DEF lines, n, line
  <2>3. line \in Nat /\ line < n
    BY <2>2, <1>5
  <2>4. CASE n <= height
    <3>1. small.offset = 0 /\ small.height = height /\ small.line = line /\ small.to = n /\ small.drawn = n
      OBVIOUS
    <3>2. Draw(b, o, height) = small
      BY <2>4, <1>1
    <3> HIDE DEF small
    <3> QED BY <2>3, <2>4, <3>1, <3>2, <1>2, <1>5 DEF Framed
  <2>5. CASE ~(n <= height)
    <3>1. Draw(b, o, height) = big
      BY <2>5, <1>1
    <3>2. height < n
      BY <2>5, <1>2, <1>5
    <3>3. fit.offset \in Nat /\ line \in fit.offset..(to - 1) /\ drawn <= height
      BY <2>3, <3>2, <1>2, <1>5, WindowHas
    <3>4. big.offset = fit.offset /\ big.height = height /\ big.line = line /\ big.to = to /\ big.drawn = drawn
      OBVIOUS
    <3> HIDE DEF big, fit, to, drawn
    <3> QED BY <3>1, <3>3, <3>4 DEF Framed
  <2> QED BY <2>4, <2>5
<1> QED BY <1>6, <1>7

\* Whatever is shown, with the cursor anywhere from the first stop on, if there is one
LEMMA ShowKeeps ==
    ASSUME NEW b \in Boards, NEW o \in Nat, NEW height \in Heights, b.data # <<>> => b.cursor >= 1, Show(b, o, height)
    PROVE  BoardKept' /\ board'.show = b.show /\ board'.data = b.data
<1> DEFINE n == StopsIn(b)
           c == [b EXCEPT !.cursor = Min({b.cursor, n})]
<1>1. b.data \in Seq(DashRows) /\ b.cursor \in Nat
  BY DEF Boards
<1>2. n \in Nat /\ (b.data # <<>> => n >= 1)
  <2>1. StopsOf(b.data, b.open) \in Seq(StopKinds) /\ (b.data # <<>> => Len(StopsOf(b.data, b.open)) >= 1)
    BY <1>1, StopsAre
  <2>2. Len(StopsOf(b.data, b.open)) \in Nat
    BY <2>1
  <2> QED BY <2>1, <2>2 DEF StopsIn
<1>3. board' = c /\ frame' = Draw(c, o, height)
  BY DEF Show, StopsIn
<1> HIDE DEF n
<1>4. Min({b.cursor, n}) = IF b.cursor <= n THEN b.cursor ELSE n
  BY <1>1, <1>2, MinTwo
<1>5. c \in Boards /\ c.data = b.data /\ c.open = b.open /\ c.show = b.show /\ c.cursor = IF b.cursor <= n THEN b.cursor ELSE n
  BY <1>1, <1>2, <1>4 DEF Boards
<1> HIDE DEF c
<1>6. StopsIn(c) = n
  BY <1>5 DEF StopsIn, n
<1>7. AtStop(c)
  BY <1>1, <1>2, <1>5, <1>6 DEF AtStop
<1> DEFINE f == Draw(c, o, height)
<1>8. f.offset \in Nat /\ f.height = height /\ (c.data # <<>> => Framed(f))
  BY <1>5, <1>7, DrawIs
<1> HIDE DEF f
<1>9. board' = c /\ frame' = f
  BY <1>3 DEF f
<1>10. CursorLineDrawn'
  BY <1>8, <1>9 DEF CursorLineDrawn, Framed
<1> QED BY <1>5, <1>7, <1>8, <1>9, <1>10 DEF BoardKept

LEMMA StopsTyped ==
    ASSUME board \in Boards
    PROVE  /\ Stops \in Seq(StopKinds) /\ Len(Stops) \in Nat /\ Len(Stops) = StopsIn(board)
           /\ \A k \in 1..Len(Stops) : Stops[k].section \in Titles
<1>1. board.data \in Seq(DashRows)
  BY DEF Boards
<1>2. Stops \in Seq(StopKinds)
  BY <1>1, StopsAre DEF Stops
<1>3. Len(Stops) = StopsIn(board)
  BY DEF Stops, StopsIn
<1>4. Len(Stops) \in Nat /\ \A k \in 1..Len(Stops) : Stops[k] \in StopKinds
  BY <1>2
<1> QED BY <1>2, <1>3, <1>4 DEF StopKinds

\* No key leaves the stops.
LEMMA KeyIs ==
    ASSUME board \in Boards, NEW key \in {"down", "up", "top", "bottom", "next", "prev"}
    PROVE  Key(key) \in Nat /\ (Len(Stops) >= 1 /\ board.cursor >= 1 => Key(key) >= 1)
<1> DEFINE n == Len(Stops)
           c == board.cursor
           next == Headers((c + 1)..n)
           prev == Headers(1..(c - 1))
<1>1. n \in Nat /\ c \in Nat
  BY StopsTyped DEF Boards
<1>2. /\ key = "down"   => Key(key) = Min({c + 1, n})
      /\ key = "up"     => Key(key) = Max({c - 1, 1})
      /\ key = "top"    => Key(key) = 1
      /\ key = "bottom" => Key(key) = n
      /\ key = "next"   => Key(key) = IF next = {} THEN c ELSE Min(next)
      /\ key = "prev"   => Key(key) = IF prev = {} THEN c ELSE Max(prev)
  BY DEF Key
<1>3. next \subseteq (c + 1)..n /\ prev \subseteq 1..(c - 1)
  BY DEF Headers
<1> HIDE DEF n, c, next, prev
<1> DEFINE k == Key(key)
<1> HIDE DEF k
<1>4. k \in Nat /\ (n >= 1 /\ c >= 1 => k >= 1)
  <2>1. CASE key = "down"
    <3>1. Min({c + 1, n}) = IF c + 1 <= n THEN c + 1 ELSE n
      BY <1>1, MinTwo
    <3> QED BY <2>1, <3>1, <1>1, <1>2 DEF k
  <2>2. CASE key = "up"
    <3>1. Max({c - 1, 1}) = IF c - 1 >= 1 THEN c - 1 ELSE 1
      BY <1>1, MaxTwo
    <3> QED BY <2>2, <3>1, <1>1, <1>2 DEF k
  <2>3. CASE key = "top"
    BY <2>3, <1>2 DEF k
  <2>4. CASE key = "bottom"
    BY <2>4, <1>1, <1>2 DEF k
  <2>5. CASE key = "next"
    <3>1. CASE next = {}
      BY <2>5, <3>1, <1>1, <1>2 DEF k
    <3>2. CASE next # {}
      <4>1. next \subseteq Nat
        BY <1>1, <1>3
      <4>2. Min(next) \in next
        BY <3>2, <4>1, MinOf
      <4>3. Min(next) \in (c + 1)..n
        BY <4>2, <1>3
      <4>4. k = Min(next)
        BY <2>5, <3>2, <1>2 DEF k
      <4> QED BY <4>3, <4>4, <1>1
    <3> QED BY <3>1, <3>2
  <2>6. CASE key = "prev"
    <3>1. CASE prev = {}
      BY <2>6, <3>1, <1>1, <1>2 DEF k
    <3>2. CASE prev # {}
      <4>1. prev \subseteq 0..c
        BY <1>1, <1>3
      <4>2. \E x \in prev : \A y \in prev : y <= x
        BY <3>2, <4>1, <1>1, MaxNat
      <4>3. \A x \in prev, y \in prev : x >= y <=> y <= x
        BY <4>1, <1>1
      <4>4. Max(prev) \in prev
        BY <4>2, <4>3 DEF Max
      <4>5. Max(prev) \in 1..(c - 1)
        BY <4>4, <1>3
      <4>6. k = Max(prev)
        BY <2>6, <3>2, <1>2 DEF k
      <4> QED BY <4>5, <4>6, <1>1
    <3> QED BY <3>1, <3>2
  <2> QED BY <2>1, <2>2, <2>3, <2>4, <2>5, <2>6
<1> QED BY <1>4 DEF k, n, c

LEMMA Opens ==
    ASSUME BoardKept, PlansKept, Open
    PROVE  BoardKept' /\ board'.show /\ board'.data = DashData
<1> DEFINE fresh == [board EXCEPT !.show = TRUE, !.data = DashData]
           b == [fresh EXCEPT !.cursor = Max({1, fresh.cursor})]
<1>1. Show(b, 0, frame.height)
  BY DEF Open
<1>2. board \in Boards /\ frame.height \in Heights
  BY DEF BoardKept
<1>3. DashData \in Seq(DashRows)
  BY DashDataIs
<1>4. fresh \in Boards /\ fresh.show = TRUE /\ fresh.data = DashData /\ fresh.cursor \in Nat
  BY <1>2, <1>3 DEF Boards
<1> HIDE DEF fresh
<1>5. Max({1, fresh.cursor}) \in Nat /\ Max({1, fresh.cursor}) >= 1
  <2>1. Max({1, fresh.cursor}) = IF 1 >= fresh.cursor THEN 1 ELSE fresh.cursor
    BY <1>4, MaxTwo
  <2> QED BY <2>1, <1>4
<1>6. b \in Boards /\ b.show = TRUE /\ b.data = DashData /\ b.cursor >= 1
  BY <1>4, <1>5 DEF Boards
<1> HIDE DEF b
<1>7. 0 \in Nat
  OBVIOUS
<1>8. BoardKept' /\ board'.show = b.show /\ board'.data = b.data
  BY <1>1, <1>2, <1>6, <1>7, ShowKeeps
<1> QED BY <1>6, <1>8

LEMMA Closes ==
    ASSUME BoardKept, Close
    PROVE  BoardKept' /\ ~board'.show
<1>1. board' = [board EXCEPT !.show = FALSE] /\ frame' = frame /\ board \in Boards
  BY DEF Close, BoardKept
<1>2. board' \in Boards /\ ~board'.show
  BY <1>1 DEF Boards
<1> QED BY <1>1, <1>2 DEF BoardKept, CursorLineDrawn

LEMMA Moves ==
    ASSUME BoardKept, Move
    PROVE  BoardKept'
<1>1. board.show /\ board \in Boards /\ frame.offset \in Nat /\ frame.height \in Heights /\ AtStop(board)
  BY DEF Move, BoardKept
<1>2. PICK key \in {"down", "up", "top", "bottom", "next", "prev"} :
          Show([board EXCEPT !.cursor = Key(key)], IF key = "top" THEN 0 ELSE frame.offset, frame.height)
  BY DEF Move
<1> DEFINE b == [board EXCEPT !.cursor = Key(key)]
           o == IF key = "top" THEN 0 ELSE frame.offset
<1>3. Key(key) \in Nat /\ (Len(Stops) >= 1 /\ board.cursor >= 1 => Key(key) >= 1)
  BY <1>1, KeyIs
<1>4. b \in Boards /\ b.cursor = Key(key) /\ b.data = board.data
  BY <1>1, <1>3 DEF Boards
<1>5. o \in Nat
  BY <1>1
<1>6. board.data # <<>> => Len(Stops) >= 1 /\ board.cursor >= 1
  <2>1. Len(Stops) \in Nat /\ Len(Stops) = StopsIn(board)
    BY <1>1, StopsTyped
  <2> QED BY <2>1, <1>1 DEF AtStop
<1>7. Show(b, o, frame.height)
  BY <1>2
<1> HIDE DEF b, o
<1>8. b.data # <<>> => b.cursor >= 1
  BY <1>3, <1>4, <1>6
<1> QED BY <1>1, <1>4, <1>5, <1>7, <1>8, ShowKeeps

LEMMA Folds ==
    ASSUME BoardKept, Fold
    PROVE  BoardKept'
<1> DEFINE titles == {Stops[k].section : k \in DOMAIN Stops}
           this   == {Stops[board.cursor].section}
           flip   == IF this \subseteq board.open THEN board.open \ this ELSE board.open \cup this
           every  == IF titles \subseteq board.open THEN board.open \ titles ELSE board.open \cup titles
<1>1. /\ board.show /\ board \in Boards /\ frame.offset \in Nat /\ frame.height \in Heights /\ AtStop(board)
      /\ board.data # <<>>
  BY DEF Fold, BoardKept
<1>2. PICK o \in {flip, every} : Show([board EXCEPT !.open = o], frame.offset, frame.height)
  BY DEF Fold
<1>3. Stops \in Seq(StopKinds) /\ Len(Stops) = StopsIn(board) /\ \A k \in 1..Len(Stops) : Stops[k].section \in Titles
  BY <1>1, StopsTyped
<1>4. DOMAIN Stops = 1..Len(Stops)
  BY <1>3
<1>5. titles \subseteq Titles
  BY <1>3, <1>4
<1>6. this \subseteq Titles /\ board.cursor >= 1
  <2>1. board.cursor \in 1..Len(Stops)
    BY <1>1, <1>3 DEF AtStop
  <2>2. Len(Stops) \in Nat
    BY <1>3
  <2> QED BY <2>1, <2>2, <1>3
<1>7. board.open \subseteq Titles
  BY <1>1 DEF Boards
<1> HIDE DEF titles, this
<1>8. o \subseteq Titles
  BY <1>2, <1>5, <1>6, <1>7
<1> DEFINE b == [board EXCEPT !.open = o]
<1>9. b \in Boards /\ b.cursor = board.cursor
  BY <1>1, <1>8 DEF Boards
<1>10. Show(b, frame.offset, frame.height)
  BY <1>2
<1> HIDE DEF b
<1>11. b.data # <<>> => b.cursor >= 1
  BY <1>6, <1>9
<1> QED BY <1>1, <1>9, <1>10, <1>11, ShowKeeps

LEMMA Resizes ==
    ASSUME BoardKept, Resize
    PROVE  BoardKept'
<1>1. board.show /\ board \in Boards /\ frame.offset \in Nat /\ AtStop(board)
  BY DEF Resize, BoardKept
<1>2. PICK h \in Heights : Show(board, frame.offset, h)
  BY DEF Resize
<1>3. board.data # <<>> => board.cursor >= 1
  <2>1. Len(Stops) \in Nat /\ Len(Stops) = StopsIn(board)
    BY <1>1, StopsTyped
  <2> QED BY <2>1, <1>1 DEF AtStop
<1> QED BY <1>1, <1>2, <1>3, ShowKeeps

-----------------------------------------------------------------------------
(***************************************************************************)
(* Agenda: the plans.                                                      *)
(***************************************************************************)

Pickers == [item : Chores, field : {"last", "due"}, values : Plans, cursor : PlanDays]

AgendaInv == PlansKept /\ (picker = NoPicker \/ picker \in Pickers) /\ BoardKept

LEMMA TodayIs ==
    ASSUME PlansKept
    PROVE  today \in PlanDays /\ today - 1 \in PlanDays
BY DEF PlansKept, PlanDays

LEMMA LogsKeep ==
    ASSUME PlansKept, NEW i \in Chores, LogService(i)
    PROVE  plan' \in [Chores -> Plans]
<1>1. PICK d \in {today - 1, today} :
          LET latest == Max({plan[i].log, d}) IN plan' = [plan EXCEPT ![i].log = latest, ![i].last = latest]
  BY DEF LogService
<1> DEFINE latest == Max({plan[i].log, d})
<1>2. d \in PlanDays /\ plan \in [Chores -> Plans]
  BY <1>1, TodayIs DEF PlansKept
<1>3. plan[i] \in Plans /\ plan[i].log \in PlanDays \cup {NoDate}
  BY <1>2 DEF Plans
<1>4. d \in Nat /\ plan[i].log \in Nat
  <2>1. \A x \in PlanDays \cup {NoDate} : x \in Nat
    BY PlanDaysIs DEF NoDate
  <2> QED BY <2>1, <1>2, <1>3
<1>5. latest = IF plan[i].log >= d THEN plan[i].log ELSE d
  BY <1>4, MaxTwo
<1>6. latest \in PlanDays \cup {NoDate}
  BY <1>2, <1>3, <1>5
<1>7. plan' = [plan EXCEPT ![i].log = latest, ![i].last = latest]
  BY <1>1
<1> HIDE DEF latest
<1>8. [plan[i] EXCEPT !.log = latest, !.last = latest] \in Plans
  BY <1>3, <1>6 DEF Plans
<1>9. plan' = [plan EXCEPT ![i] = [plan[i] EXCEPT !.log = latest, !.last = latest]]
  BY <1>2, <1>3, <1>7 DEF Plans
<1> QED BY <1>2, <1>8, <1>9

LEMMA Sets ==
    ASSUME PlansKept, NEW i \in Chores, SetEvery(i)
    PROVE  plan' \in [Chores -> Plans]
<1>1. PICK n \in Intervals \ {0}, due \in {NoDate, plan[i].due} : plan' = [plan EXCEPT ![i].every = n, ![i].due = due]
  BY DEF SetEvery
<1>2. plan \in [Chores -> Plans] /\ plan[i] \in Plans /\ due \in PlanDays \cup {NoDate}
  BY <1>1 DEF PlansKept, Plans
<1>3. [plan[i] EXCEPT !.every = n, !.due = due] \in Plans
  BY <1>2 DEF Plans
<1>4. plan' = [plan EXCEPT ![i] = [plan[i] EXCEPT !.every = n, !.due = due]]
  BY <1>1, <1>2 DEF Plans
<1> QED BY <1>2, <1>3, <1>4

LEMMA Picks ==
    ASSUME PlansKept, NEW i \in Chores, OpenPicker(i)
    PROVE  picker' \in Pickers
<1>1. PICK field \in {"last", "due"} :
          picker' = [item |-> i, field |-> field, values |-> PickerValues(i, field),
                     cursor |-> IF plan[i][field] = NoDate THEN today ELSE plan[i][field]]
  BY DEF OpenPicker
<1>2. plan[i] \in Plans /\ today \in PlanDays
  BY TodayIs DEF PlansKept
<1>3. plan[i][field] \in PlanDays \cup {NoDate}
  <2>1. plan[i].last \in PlanDays \cup {NoDate} /\ plan[i].due \in PlanDays \cup {NoDate}
    BY <1>2 DEF Plans
  <2>2. CASE field = "last"
    BY <2>1, <2>2
  <2>3. CASE field = "due"
    BY <2>1, <2>3
  <2> QED BY <2>2, <2>3
<1>4. PickerValues(i, field) \in Plans
  <2>1. [plan[i] EXCEPT !.every = 0] \in Plans
    BY <1>2 DEF Plans, Intervals
  <2> QED BY <2>1, <1>2 DEF PickerValues
<1>5. (IF plan[i][field] = NoDate THEN today ELSE plan[i][field]) \in PlanDays
  BY <1>2, <1>3
<1> QED BY <1>1, <1>4, <1>5 DEF Pickers

LEMMA PicksOther ==
    ASSUME picker = NoPicker \/ picker \in Pickers, PickerKey
    PROVE  picker' \in Pickers
<1>1. picker \in Pickers
  BY DEF PickerKey
<1>2. PICK c \in Cursors : picker' = [picker EXCEPT !.cursor = c]
  BY DEF PickerKey
<1>3. c \in PlanDays
  BY <1>2 DEF Cursors, PlanDays
<1> QED BY <1>1, <1>2, <1>3 DEF Pickers

LEMMA Confirms ==
    ASSUME PlansKept, picker = NoPicker \/ picker \in Pickers, Confirm
    PROVE  plan' \in [Chores -> Plans]
<1> DEFINE saved == [picker.values EXCEPT ![picker.field] = picker.cursor]
           kept == [saved EXCEPT !.log = plan[picker.item].log]
<1>1. picker \in Pickers
  BY DEF Confirm
<1>2. /\ picker.item \in Chores /\ picker.values \in Plans /\ picker.cursor \in PlanDays
      /\ picker.field \in {"last", "due"}
  BY <1>1 DEF Pickers
<1>3. plan \in [Chores -> Plans] /\ plan[picker.item].log \in PlanDays \cup {NoDate}
  BY <1>2 DEF PlansKept, Plans
<1>4. plan' = [plan EXCEPT ![picker.item] = kept]
  BY DEF Confirm
<1>5. saved \in Plans
  <2>1. CASE picker.field = "last"
    <3>1. saved = [picker.values EXCEPT !.last = picker.cursor]
      BY <2>1
    <3> QED BY <3>1, <1>2 DEF Plans
  <2>2. CASE picker.field = "due"
    <3>1. saved = [picker.values EXCEPT !.due = picker.cursor]
      BY <2>2
    <3> QED BY <3>1, <1>2 DEF Plans
  <2> QED BY <2>1, <2>2, <1>2
<1> HIDE DEF saved
<1>6. kept \in Plans
  BY <1>3, <1>5 DEF Plans
<1> HIDE DEF kept
<1> QED BY <1>2, <1>3, <1>4, <1>6

LEMMA AgendaStarts == AgendaInit => AgendaInv
<1> SUFFICES ASSUME AgendaInit PROVE AgendaInv
  OBVIOUS
<1>1. today \in Period
  <2>1. \A d \in Period : d \in Nat
    BY PlanDaysIs DEF PlanDays
  <2>2. Period \subseteq Nat /\ Period # {}
    BY <2>1, AgendaAssumption
  <2> QED BY <2>2, MinOf DEF AgendaInit
<1>2. plan \in [Chores -> Plans]
  <2>1. plan = Planned /\ Planned \in [Chores -> [last : Nat, every : Intervals, due : Nat, log : Nat]]
    BY AgendaAssumption DEF AgendaInit
  <2>2. ASSUME NEW i \in Chores PROVE Planned[i] \in Plans
    <3>1. Planned[i] \in [last : Nat, every : Intervals, due : Nat, log : Nat]
      BY <2>1
    <3>2. {Planned[i].last, Planned[i].due, Planned[i].log} \subseteq PlanDays \cup {NoDate}
      <4> DEFINE X == {{Planned[j].last, Planned[j].due, Planned[j].log} : j \in Chores}
      <4>1. {Planned[i].last, Planned[i].due, Planned[i].log} \in X
        OBVIOUS
      <4>2. (UNION X) \ {NoDate} \subseteq PlanDays
        BY DEF PlanDays
      <4> HIDE DEF X
      <4> QED BY <4>1, <4>2
    <3> QED BY <3>1, <3>2 DEF Plans
  <2> QED BY <2>1, <2>2
<1>3. BoardKept
  <2>1. /\ board = [show |-> FALSE, data |-> <<>>, open |-> {"incidents"}, cursor |-> 0]
        /\ frame.offset = 0 /\ frame.height \in Heights
    BY DEF AgendaInit
  <2>2. board \in Boards /\ ~board.show
    BY <2>1 DEF Boards, Titles
  <2> QED BY <2>1, <2>2 DEF BoardKept, CursorLineDrawn
<1>4. picker = NoPicker
  BY DEF AgendaInit
<1> QED BY <1>1, <1>2, <1>3, <1>4 DEF AgendaInv, PlansKept

LEMMA AgendaSteps == AgendaInv /\ [AgendaNext]_agendaVars => AgendaInv'
<1> SUFFICES ASSUME AgendaInv, [AgendaNext]_agendaVars PROVE AgendaInv'
  OBVIOUS
<1>1. PlansKept /\ (picker = NoPicker \/ picker \in Pickers) /\ BoardKept
  BY DEF AgendaInv
<1>2. ASSUME UNCHANGED <<board, frame>> PROVE BoardKept'
  BY <1>1, <1>2 DEF BoardKept, AtStop, StopsIn, CursorLineDrawn
<1>3. ASSUME UNCHANGED <<today, plan>> PROVE PlansKept'
  BY <1>1, <1>3 DEF PlansKept
<1>4. ASSUME UNCHANGED picker PROVE (picker = NoPicker \/ picker \in Pickers)'
  BY <1>1, <1>4
<1>5. CASE Open
  BY <1>1, <1>3, <1>4, <1>5, Opens DEF Open, AgendaInv
<1>6. CASE Close
  BY <1>1, <1>3, <1>4, <1>6, Closes DEF Close, AgendaInv
<1>7. CASE Move
  BY <1>1, <1>3, <1>4, <1>7, Moves DEF Move, AgendaInv
<1>8. CASE Fold
  BY <1>1, <1>3, <1>4, <1>8, Folds DEF Fold, AgendaInv
<1>9. CASE Resize
  BY <1>1, <1>3, <1>4, <1>9, Resizes DEF Resize, AgendaInv
<1>10. ASSUME NEW i \in Chores, LogService(i) PROVE AgendaInv'
  BY <1>1, <1>2, <1>4, <1>10, LogsKeep DEF LogService, AgendaInv, PlansKept
<1>11. ASSUME NEW i \in Chores, SetEvery(i) PROVE AgendaInv'
  BY <1>1, <1>2, <1>4, <1>11, Sets DEF SetEvery, AgendaInv, PlansKept
<1>12. ASSUME NEW i \in Chores, OpenPicker(i) PROVE AgendaInv'
  BY <1>1, <1>2, <1>3, <1>12, Picks DEF OpenPicker, AgendaInv
<1>13. CASE PickerKey
  BY <1>1, <1>2, <1>3, <1>13, PicksOther DEF PickerKey, AgendaInv
<1>14. CASE Confirm
  BY <1>1, <1>2, <1>14, Confirms DEF Confirm, AgendaInv, PlansKept
<1>15. CASE Cancel
  BY <1>1, <1>2, <1>3, <1>15 DEF Cancel, AgendaInv
<1>16. CASE Tomorrow
  BY <1>1, <1>2, <1>4, <1>16 DEF Tomorrow, AgendaInv, PlansKept
<1>17. CASE UNCHANGED agendaVars
  BY <1>1, <1>2, <1>3, <1>4, <1>17 DEF agendaVars, AgendaInv
<1> QED BY <1>5, <1>6, <1>7, <1>8, <1>9, <1>10, <1>11, <1>12, <1>13, <1>14, <1>15, <1>16, <1>17 DEF AgendaNext

\* Whatever the dashboard's lines, the sections opened and the lines the
\* terminal leaves it, the line of the cursor is among the lines drawn, and
\* these are no more than there is room for (dashboard.go dashboardView).
THEOREM CursorStaysDrawn == AgendaInit /\ [][AgendaNext]_agendaVars => []CursorLineDrawn
<1>1. AgendaInv => CursorLineDrawn
  BY DEF AgendaInv, BoardKept
<1> QED BY <1>1, AgendaStarts, AgendaSteps, PTL

\* In every calendar: a chore serviced later is not due earlier (duration.go
\* AddMonths), and the dashboard leaves out an overdue chore only for a full
\* list of chores at least as late (dashboard.go capSlice).
THEOREM RemindersHold == AgendaInit /\ [][AgendaNext]_agendaVars => Reminders
<1> DEFINE Later == plan' # plan => \A i \in Chores :
               LET p == plan[i] q == plan'[i]
               IN  /\ p.last # NoDate /\ q.last >= p.last
                   /\ p.every = q.every /\ p.every > 0 /\ p.due = NoDate /\ q.due = NoDate
                   => NextDue(q) >= NextDue(p)
           Urgent == ~board.show /\ board'.show =>
               LET shown == UNION {ToSet(s.rows) : s \in {t \in ToSet(board'.data) : t.title = "overdue"}}
               IN  \A i \in Status(Ahead, {}).overdue \ shown :
                       /\ Cardinality(shown) = Cap
                       /\ \A j \in shown : NextDue(plan[j]) <= NextDue(plan[i])
<1>1. AgendaInv /\ AgendaInv' => Later
  <2> SUFFICES ASSUME AgendaInv, AgendaInv', NEW i \in Chores PROVE
               LET p == plan[i] q == plan'[i]
               IN  /\ p.last # NoDate /\ q.last >= p.last
                   /\ p.every = q.every /\ p.every > 0 /\ p.due = NoDate /\ q.due = NoDate
                   => NextDue(q) >= NextDue(p)
    OBVIOUS
  <2>1. plan[i] \in Plans /\ plan'[i] \in Plans
    BY DEF AgendaInv, PlansKept
  <2> QED BY <2>1, LaterDue
<1>2. AgendaInv /\ [AgendaNext]_agendaVars => [Urgent]_agendaVars
  <2> SUFFICES ASSUME AgendaInv, AgendaNext, ~board.show, board'.show
               PROVE  \A i \in Status(Ahead, {}).overdue \ Shown(board'.data) :
                          /\ Cardinality(Shown(board'.data)) = Cap
                          /\ \A j \in Shown(board'.data) : NextDue(plan[j]) <= NextDue(plan[i])
    BY DEF Shown
  <2>1. Open
    <3>1. BoardKept
      BY DEF AgendaInv
    <3> QED BY <3>1, Closes DEF AgendaNext, Move, Fold, Resize, LogService, SetEvery, OpenPicker, PickerKey, Confirm, Cancel, Tomorrow
  <2>2. PlansKept /\ BoardKept
    BY DEF AgendaInv
  <2>3. Shown(board'.data) = ToSet(CapSlice(Overdue))
    BY <2>1, <2>2, Opens, DashDataIs
  <2>4. Dues(Overdue)
    BY <2>2, DuesAre DEF Overdue
  <2>5. Status(Ahead, {}).overdue = Overdue
    BY DEF Status
  <2> QED BY <2>3, <2>4, <2>5, CapSliceIs
<1>3. AgendaInv /\ AgendaInv' /\ [AgendaNext]_agendaVars => [Later]_agendaVars
  BY <1>1
<1>4. AgendaInit /\ [][AgendaNext]_agendaVars => LaterServiceLaterDue
  BY <1>3, AgendaStarts, AgendaSteps, PTL DEF LaterServiceLaterDue
<1>5. AgendaInit /\ [][AgendaNext]_agendaVars => MostUrgentShown
  BY <1>2, AgendaStarts, AgendaSteps, PTL DEF MostUrgentShown
<1> QED BY <1>4, <1>5 DEF Reminders
=============================================================================
