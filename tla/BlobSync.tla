------------------------------ MODULE BlobSync ------------------------------
(***************************************************************************)
(* Files of documents between the devices of a household and the relay:    *)
(* the blob phase of Engine.Sync (internal/sync/engine.go), the relay's    *)
(* content-addressed store with its quota (internal/relay/pgstore.go), and *)
(* the subscription gate that Stripe's webhook moves                       *)
(* (internal/relay/handler.go).                                            *)
(*                                                                         *)
(* A file stands for its content and for its SHA-256.  Operations travel   *)
(* as in SyncEngine; here they only carry the blob_ref of their document,  *)
(* and whether a remote one beats an unsynced local one is left open.      *)
(***************************************************************************)
EXTENDS Naturals, Sequences, FiniteSets

CONSTANTS
    Devices,
    Docs,           \* documents by ID
    Files,          \* contents, each with its hash
    Size,           \* Size[f]: bytes of f once sealed
    Quota,          \* bytes per household; 0 is unlimited
    MaxEdits,       \* BOUND: operations on documents in a behaviour
    MaxEvents,      \* BOUND: deliveries of Stripe's events
    MaxFaults,      \* BOUND: cancelled cycles and failed requests
    None            \* no file, no row, nothing stored

Document == [ref : Files, bytes : Files \cup {None}, gone : BOOLEAN]
Statuses == {"unset", "active", "past_due"}

ASSUME BlobSyncAssumption ==
    /\ IsFiniteSet(Docs)        \* ULIDs
    /\ IsFiniteSet(Files)       \* SHA-256
    /\ Size \in [Files -> Nat]
    /\ Quota \in Nat
    /\ MaxEdits \in Nat /\ MaxEvents \in Nat /\ MaxFaults \in Nat
    /\ None \notin Files \cup Document \cup Docs

VARIABLES
    row,        \* row[d][x]: the document x in the database of d
    unsynced,   \* unsynced[d]: its operations not pushed
    seen,       \* seen[d]: last_seq
    pc,         \* pc[d]: where the cycle of d is
    queue,      \* queue[d]: operations to upload for, then documents to fetch
    hand,       \* hand[d]: the file the cycle holds in memory
    log,        \* the relay's operations
    blobs,      \* blobs[f]: the content the relay stores under hash f
    status,     \* households.stripe_status
    edits, events, faults,
    unsent,     \* HISTORY: files some cycle gave up uploading
    replaced    \* HISTORY: documents whose file was replaced

relay  == <<log, blobs>>
cycle  == <<pc, queue, hand>>
bounds == <<edits, events, faults>>
vars   == <<row, unsynced, seen, cycle, relay, status, bounds, unsent, replaced>>

Init ==
    /\ row = [d \in Devices |-> [x \in Docs |-> None]]
    /\ unsynced = [d \in Devices |-> <<>>]
    /\ seen = [d \in Devices |-> 0]
    /\ pc = [d \in Devices |-> "idle"]
    /\ queue = [d \in Devices |-> <<>>]
    /\ hand = [d \in Devices |-> None]
    /\ log = <<>>
    /\ blobs = [f \in Files |-> None]
    /\ status = "unset"
    /\ edits = 0 /\ events = 0 /\ faults = 0
    /\ unsent = {}
    /\ replaced = {}

-----------------------------------------------------------------------------
(***************************************************************************)
(* The user: documents with a file.  The row and its operation are one     *)
(* step here; SyncEngine looks between them.                               *)
(***************************************************************************)
Alive(d, x) == row[d][x] # None /\ ~row[d][x].gone

Logs(d, x, kind, file) ==
    /\ edits < MaxEdits
    /\ edits' = edits + 1
    /\ unsynced' = [unsynced EXCEPT
            ![d] = Append(@, [kind |-> kind, doc |-> x, file |-> file, by |-> d])]
    /\ UNCHANGED <<seen, cycle, relay, status, events, faults, unsent>>

\* IDs are unique: nobody else has made or heard of x.
CreateDocument(d, x, f) ==
    /\ \A e \in Devices : row[e][x] = None
    /\ row' = [row EXCEPT ![d][x] = [ref |-> f, bytes |-> f, gone |-> FALSE]]
    /\ Logs(d, x, "put", f)
    /\ UNCHANGED replaced

\* UpdateDocument with a replacement file.
ReplaceFile(d, x, f) ==
    /\ Alive(d, x)
    /\ row[d][x].ref # f
    /\ row' = [row EXCEPT ![d][x].ref = f, ![d][x].bytes = f]
    /\ replaced' = replaced \cup {x}
    /\ Logs(d, x, "put", f)

\* The payload is made from the row read again: it names the file it kept.
BlobRef(d, x) == row[d][x].ref

\* UpdateDocument without one asks for a live row; UpdateDocumentExtraction, which
\* is unscoped, also writes to one whose deletion has just been pulled.
EditDocument(d, x) ==
    /\ row[d][x] # None
    /\ Logs(d, x, "put", BlobRef(d, x))
    /\ UNCHANGED <<row, replaced>>

DeleteDocument(d, x) ==
    /\ Alive(d, x)
    /\ row' = [row EXCEPT ![d][x].gone = TRUE]
    /\ Logs(d, x, "delete", None)
    /\ UNCHANGED replaced

RestoreDocument(d, x) ==
    /\ row[d][x] # None /\ row[d][x].gone
    /\ row' = [row EXCEPT ![d][x].gone = FALSE]
    /\ Logs(d, x, "restore", None)
    /\ UNCHANGED replaced

-----------------------------------------------------------------------------
(***************************************************************************)
(* A cycle: pull, push, then the blobs of what was just pushed, then the   *)
(* files of documents that have a checksum and no data.                    *)
(***************************************************************************)
\* requireSubscription: no status at all is let through.
Subscribed == status \in {"unset", "active"}

Goes(d, phase) == pc' = [pc EXCEPT ![d] = phase]
Drops(d)       == hand' = [hand EXCEPT ![d] = None]

StartCycle(d) ==
    /\ pc[d] = "idle"
    /\ Goes(d, "pull")
    /\ UNCHANGED <<row, unsynced, seen, queue, hand, relay, status, bounds, unsent, replaced>>

\* The row of x after a remote operation; a put leaves the data column alone.
Applied(old, op) ==
    CASE op.kind = "put" /\ old = None  -> [ref |-> op.file, bytes |-> None, gone |-> FALSE]
      [] op.kind = "put" /\ old # None  -> [old EXCEPT !.ref = op.file]
      [] op.kind = "delete"             -> [old EXCEPT !.gone = TRUE]
      [] op.kind = "restore"            -> [old EXCEPT !.gone = FALSE]

Contested(d, x) == \E i \in DOMAIN unsynced[d] : unsynced[d][i].doc = x

ApplyNext(d) ==
    /\ pc[d] = "pull"
    /\ Subscribed
    /\ seen[d] < Len(log)
    /\ LET op == log[seen[d] + 1] IN
        \/ /\ op.by # d
           /\ row' = [row EXCEPT ![d][op.doc] = Applied(@, op)]
        \/ /\ op.by = d \/ Contested(d, op.doc)
           /\ UNCHANGED row
    /\ seen' = [seen EXCEPT ![d] = @ + 1]
    /\ UNCHANGED <<unsynced, cycle, relay, status, bounds, unsent, replaced>>

PullDone(d) ==
    /\ pc[d] = "pull"
    /\ Subscribed
    /\ seen[d] = Len(log)
    /\ Goes(d, "push")
    /\ UNCHANGED <<row, unsynced, seen, queue, hand, relay, status, bounds, unsent, replaced>>

HasFile(op) == op.file # None

Push(d) ==
    /\ pc[d] = "push"
    /\ Subscribed
    /\ log' = log \o unsynced[d]
    /\ queue' = [queue EXCEPT ![d] = unsynced[d]]
    /\ unsynced' = [unsynced EXCEPT ![d] = <<>>]
    /\ Goes(d, "head")
    /\ UNCHANGED <<row, seen, hand, blobs, status, bounds, unsent, replaced>>

Refused(d) ==
    /\ pc[d] \in {"pull", "push"}
    /\ ~Subscribed
    /\ Goes(d, "idle")
    /\ UNCHANGED <<row, unsynced, seen, queue, hand, relay, status, bounds, unsent, replaced>>

EndsPhase(d)   == queue' = [queue EXCEPT ![d] = <<>>]
NextInQueue(d) == queue' = [queue EXCEPT ![d] = Tail(@)]

\* Operations without a blob_ref are passed over, and HasBlob asks the relay
\* about the others: what it has is not sent again.
HeadBlob(d) ==
    /\ pc[d] = "head" /\ queue[d] # <<>>
    /\ LET op == Head(queue[d]) IN
        \/ /\ HasFile(op) => Subscribed /\ blobs[op.file] # None
           /\ NextInQueue(d)
           /\ UNCHANGED pc
        \/ /\ HasFile(op) /\ Subscribed /\ blobs[op.file] = None
           /\ Goes(d, "load")
           /\ UNCHANGED queue
    /\ UNCHANGED <<row, unsynced, seen, hand, relay, status, bounds, unsent, replaced>>

HashMatches(f, g) == f = g

\* GetDocument and the hash check of UploadBlob: the row may have changed.
LoadDocument(d) ==
    /\ pc[d] = "load"
    /\ LET op == Head(queue[d]) IN
        IF /\ Alive(d, op.doc)
           /\ row[d][op.doc].bytes # None
           /\ HashMatches(row[d][op.doc].bytes, op.file)
        THEN /\ hand' = [hand EXCEPT ![d] = row[d][op.doc].bytes]
             /\ Goes(d, "put")
             /\ UNCHANGED <<queue, unsent>>
        ELSE /\ NextInQueue(d)
             /\ Goes(d, "head")
             /\ unsent' = unsent \cup {op.file}
             /\ UNCHANGED hand
    /\ UNCHANGED <<row, unsynced, seen, relay, status, bounds, replaced>>

\* BlobUsage, the sum of size_bytes: the number of all the bytes stored.
Bytes(f) == {f} \X (1..Size[f])
Stored   == UNION {Bytes(f) : f \in {g \in Files : blobs[g] # None}}
Used     == Cardinality(Stored)

Fits(f) == Quota = 0 \/ Used + Size[f] <= Quota

\* PutBlob: one transaction, under a lock of the household's row.
PutBlob(d) ==
    /\ pc[d] = "put"
    /\ Subscribed
    /\ LET f == Head(queue[d]).file IN
        blobs' = IF blobs[f] = None /\ Fits(f) THEN [blobs EXCEPT ![f] = hand[d]] ELSE blobs
    /\ NextInQueue(d)
    /\ Drops(d)
    /\ Goes(d, "head")
    /\ UNCHANGED <<row, unsynced, seen, log, status, bounds, unsent, replaced>>

\* MUTANT: an error on one blob ends the phase.
SkipAllBlobs(d) == EndsPhase(d) /\ Goes(d, "head")

\* An error on one blob is counted, and the phase goes on with the next.
SkipBlob(d) ==
    /\ NextInQueue(d)
    /\ Goes(d, "head")

Fault == faults < MaxFaults /\ faults' = faults + 1

\* The relay answers 402, or the request fails.
UploadFails(d) ==
    /\ \/ pc[d] = "put"
       \/ pc[d] = "head" /\ queue[d] # <<>> /\ HasFile(Head(queue[d]))
    /\ (~Subscribed /\ UNCHANGED faults) \/ Fault
    /\ unsent' = unsent \cup {Head(queue[d]).file}
    /\ SkipBlob(d)
    /\ Drops(d)
    /\ UNCHANGED <<row, unsynced, seen, relay, status, edits, events, replaced>>

\* MUTANT: the documents that have their data.
Fetched(d) == {x \in Docs : Alive(d, x) /\ row[d][x].bytes # None}

\* PendingBlobDocuments, after the last upload; the order, by updated_at, is left open.
Unfetched(d) == {x \in Docs : Alive(d, x) /\ row[d][x].bytes = None}

ListPending(d) ==
    /\ pc[d] = "head" /\ queue[d] = <<>>
    /\ \E s \in [1..Cardinality(Unfetched(d)) -> Unfetched(d)] :
        /\ \A x \in Unfetched(d) : \E i \in DOMAIN s : s[i] = x
        /\ queue' = [queue EXCEPT ![d] = [i \in DOMAIN s |->
                [kind |-> "put", doc |-> s[i], file |-> row[d][s[i]].ref, by |-> d]]]
    /\ Goes(d, "get")
    /\ UNCHANGED <<row, unsynced, seen, hand, relay, status, bounds, unsent, replaced>>

\* DownloadBlob checks the hash of what it has decrypted.
GetBlob(d) ==
    /\ pc[d] = "get" /\ queue[d] # <<>>
    /\ LET f == Head(queue[d]).file IN
        IF Subscribed /\ blobs[f] # None /\ HashMatches(blobs[f], f)
        THEN hand' = [hand EXCEPT ![d] = blobs[f]] /\ Goes(d, "save") /\ UNCHANGED queue
        ELSE NextInQueue(d) /\ UNCHANGED <<pc, hand>>
    /\ UNCHANGED <<row, unsynced, seen, relay, status, bounds, unsent, replaced>>

DownloadFails(d) ==
    /\ pc[d] = "get" /\ queue[d] # <<>>
    /\ Fault
    /\ NextInQueue(d)
    /\ UNCHANGED <<row, unsynced, seen, pc, hand, relay, status, edits, events, unsent, replaced>>

SavedRow(d) == Head(queue[d]).doc

\* UpdateDocumentData, of a live row, whatever its checksum is by now.
SaveBlob(d) ==
    /\ pc[d] = "save"
    /\ LET x == SavedRow(d) IN
        row' = IF Alive(d, x) THEN [row EXCEPT ![d][x].bytes = hand[d]] ELSE row
    /\ NextInQueue(d)
    /\ Drops(d)
    /\ Goes(d, "get")
    /\ UNCHANGED <<unsynced, seen, relay, status, bounds, unsent, replaced>>

CycleDone(d) ==
    /\ pc[d] = "get" /\ queue[d] = <<>>
    /\ Goes(d, "idle")
    /\ UNCHANGED <<row, unsynced, seen, queue, hand, relay, status, bounds, unsent, replaced>>

Uploading(d) == {queue[d][i].file : i \in IF pc[d] \in {"head", "load", "put"}
                                          THEN DOMAIN queue[d] ELSE {}} \ {None}

\* Cancelled, timed out, or the process ends; after a push its blobs are left.
Stops(d) ==
    /\ pc[d] # "idle"
    /\ Fault
    /\ unsent' = unsent \cup Uploading(d)
    /\ Goes(d, "idle")
    /\ EndsPhase(d)
    /\ Drops(d)
    /\ UNCHANGED <<row, unsynced, seen, relay, status, edits, events, replaced>>

-----------------------------------------------------------------------------
(***************************************************************************)
(* Stripe's events arrive late, twice and in any order, so that any of     *)
(* them may be the next; the handler stores the status it names.           *)
(***************************************************************************)
StripeWebhook(s) ==
    /\ events < MaxEvents
    /\ events' = events + 1
    /\ status' = s
    /\ UNCHANGED <<row, unsynced, seen, cycle, relay, edits, faults, unsent, replaced>>

-----------------------------------------------------------------------------
UserStep(d) == \E x \in Docs :
    \/ \E f \in Files : CreateDocument(d, x, f) \/ ReplaceFile(d, x, f)
    \/ EditDocument(d, x)
    \/ DeleteDocument(d, x)
    \/ RestoreDocument(d, x)

CycleStep(d) ==
    \/ StartCycle(d) \/ ApplyNext(d) \/ PullDone(d) \/ Push(d) \/ Refused(d)
    \/ HeadBlob(d) \/ LoadDocument(d) \/ PutBlob(d)
    \/ ListPending(d) \/ GetBlob(d) \/ SaveBlob(d) \/ CycleDone(d)
    \/ (~Subscribed /\ UploadFails(d))

Next ==
    \/ \E d \in Devices :
        UserStep(d) \/ CycleStep(d) \/ UploadFails(d) \/ DownloadFails(d) \/ Stops(d)
    \/ \E s \in Statuses \ {"unset"} : StripeWebhook(s)

\* The TUI starts a cycle on launch and on every tick; a step of a cycle is a
\* transaction or a request with a timeout.
Spec == Init /\ [][Next]_vars /\ \A d \in Devices : WF_vars(CycleStep(d))

-----------------------------------------------------------------------------
(* Properties *)

\* However many devices upload at once, a household's blobs never take more
\* than its quota (PutBlob, under the lock of the household's row).
QuotaHeld == Quota > 0 => Used <= Quota

\* A document whose file was never replaced has its own file or none yet, on
\* every device, however downloads, deletions and restores interleave.
FilesMatch == \A d \in Devices, x \in Docs \ replaced :
    row[d][x] # None => row[d][x].bytes \in {None, row[d][x].ref}

\* uploadPendingBlobs never forgets a file without an error or an explanation:
\* once no cycle is uploading it, a file in the relay's log is on the relay, or
\* some cycle failed to send it, or there is no room for it.
NoneForgotten == \A i \in DOMAIN log : LET f == log[i].file IN
    \/ f \in {None} \cup unsent
    \/ blobs[f] # None
    \/ f \in Uploading(log[i].by)
    \/ ~Fits(f)

\* The three together: what uploads and downloads leave on both sides.
FilesSafe == QuotaHeld /\ FilesMatch /\ NoneForgotten

\* A file on the relay reaches every device that has its document: a failed
\* download is tried again by the next cycle, for as long as the document is
\* not deleted there and the household pays.
StoredArrives == \A d \in Devices, x \in Docs :
    <>[](Alive(d, x) /\ blobs[row[d][x].ref] # None /\ Subscribed)
        => <>(Alive(d, x) /\ row[d][x].bytes # None)
=============================================================================
