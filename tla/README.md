# A TLA+ model of micasa

micasa keeps the records of a home (projects, maintenance, incidents, vendors,
documents) in a local SQLite database behind a terminal UI, and can share them
among the devices of a household through a relay that only sees ciphertext.
This directory models the parts of it that are hard to test: devices that sync
through the relay while failures strike anywhere, the database several callers
share, and an event loop that works on snapshots of it while model runs, OCR
and sync cycles go on beside it.

`PROJECT.json` lists the components, the runs, the map from definitions to
source lines, the hazards and the findings. Source paths below are relative to
the repository.

## Inventory of the system

| Component | State it keeps | Operations | Hard behaviour | What makes it correct |
|---|---|---|---|---|
| Sync engine, op application (`internal/sync/engine.go`, `apply.go`, `client.go`) | `last_seq`; during a cycle: the page, its errors, the operations pushed | `Sync` = `pullAll`, `pushAll`, blob upload and download; `ApplyOps`, `applyOne`, `lwwLocalWins` | every transaction and every request is a step the UI, other devices, cancellation and crashes come between | nothing skipped, nothing believed shared that is not, replicas converge, every edit gets through |
| Relay log (`internal/relay/pgstore.go`, `memstore.go`, `handler.go`) | operations by `seq`, `seq_counter` | `Push`, `Pull` | concurrent pushes, repeats of a lost answer | one log, each device's operations in it once and in order |
| Households, invites, key exchange, devices (same files, `internal/sync/household.go`, `cmd/micasa/pro.go`) | households, devices and token hashes, invites with attempts and expiry, exchanges | `CreateHousehold`, `CreateInvite`, `StartJoin`, `CompleteKeyExchange`, `GetKeyExchangeResult`, `RevokeDevice` | three parties, expiry, single-use credentials, lost answers | a code admits whom its owner accepted, limits hold, credentials are given once |
| Blob sync (`engine.go`, `internal/sync/blob.go`, `PutBlob`) | blobs by hash, usage; documents without data | upload after push, download of what is missing, quota | stop between push and upload, concurrent uploads | every referenced blob arrives, quota never exceeded |
| Subscription (`handleStripeWebhook`, `requireSubscription`) | status per household | webhook, gate | repeated and reordered events | access follows the latest state |
| Local store: oplog (`internal/data/oplog.go`, `models.go`) | `sync_oplog_entries`, `sync_devices` | hooks, `writeOplogEntry`, `UnsyncedOps`, `MarkSynced` | row and entry in one or in two commits | each change has its entry |
| Local store: entities (`internal/data/store*.go`) | rows with `deleted_at`, deletion records | create, update, soft delete, restore, hard delete, find-or-create | checks outside the transaction they guard, remote operations that bypass them | no live child of a dead parent |
| TUI sync scheduling (`internal/app/sync.go`, `model_update.go`, `model.go`) | `syncStatus`, debounce generation, pending reload | tick, debounce, done and error messages | timers against cycles | one cycle at a time; an edit is synced soon |
| Chat overlay, LLM streaming (`internal/app/chat.go`, `internal/llm`) | stream channel, cancel function, flags | chunks, cancel, SQL then summary | messages of a cancelled stream | a chunk never lands in another answer |
| Document extraction (`internal/app/extraction.go`, `internal/extract`) | overlay steps, shadow database, id map | stage, rerun, accept, commit | cancel, background runs, ID remapping | all or nothing |
| Full-text search (`internal/data/fts.go`) | FTS tables, triggers | rebuild, search | staleness | index follows rows |
| Pure algorithms (`internal/data/validation.go`, `internal/data/dashboard.go`) | none | intervals, dates, money | boundaries | agree with a reference definition |
| Forms, tables, overlays (`internal/app/forms.go`, `model*.go`, `mouse.go`, `filter.go`, `sort.go`, `table.go`) | modes, forms, drilldowns, overlays, pins, sorts, cursors, cached viewports | keys, clicks, drilldowns, jumps, saves | an event loop whose state is snapshots of the store; cycles beside it | the screen is current, a key reaches what is on top, nothing typed is lost |
| Configuration, CLI and MCP input and output, crypto wrappers, seeds, rendering | none of their own | | little | not modelled |

The components interact as follows. The TUI mutates the store, which writes the
row and an oplog entry; a mutation also arms a debounce whose message, like the
60 s tick, starts `Engine.Sync` in a goroutine. The engine pulls from the
relay, applies to the same SQLite database, pushes the unsynced entries, marks
them, and then moves blobs. Its result comes back to the TUI as a message. A
device gets its household key and token through the relay's invite and key
exchange; every request of a device passes authentication and, on the hosted
relay, the subscription gate that Stripe's webhook moves.

## Modules

| Module | What it is |
|---|---|
| `SyncOps` | The vocabulary of sync: operations, tables, last-writer-wins, what an operation does to a table. No state. |
| `SyncEngine` | Devices (UI thread and sync cycle) and the relay's log. |
| `HouseholdLog` | Abstract specification of sharing: one log, one prefix of it known to each device. |
| `Household` | How a machine gets into a household: `pro invite`, `pro join`, `pro devices revoke`, and the relay's invites, exchanges and devices. |
| `Admission` | Abstract specification of that: asked, accepted, claimed, inside; each once and in this order. |
| `BlobSync` | Files of documents between devices and relay, the quota, and the subscription that admits a request. |
| `LocalStore` | Rows, references, soft deletion, deletion records and the audit trail of one database, and a replica of it. |
| `Records` | The columns of one record through every way to write it: form, cell, command. |
| `Agenda` | What is due and when, the date picker, the dashboard, `micasa status`. |
| `ChatStream` | A question to the chat, its two streams, cancellation, model pulls. |
| `SearchIndex` | Both full-text indexes, their triggers, and a process that sets them up while others write. |
| `Staging` | A batch of operations a model proposed, from its prompt to the tables. |
| `Extraction` | The overlay of an extraction and its background list, OCR, ping, model runs, accepting. |
| `PageOcr` | The goroutines and programs of one OCR. |
| `TuiForms` | The event loop with its forms, beside the sync cycles it starts. |
| `Navigation` | Tabs, drilldowns, links, the dashboard, search, and deletions. |
| `Overlays`, `Tables`, `Viewport` | What is laid over a table, which rows it shows, which columns are drawn. |
| `Listing` | The entries of a list that are in a set, as a function proofs can unfold. |
| `MCSyncEngine`, `MCHousehold`, `MCBlobSync`, `MCStore`, `MCModel`, `MCExtraction`, `MCTuiForms`, `MCNavigation` | Values, symmetry and parts for TLC. |
| `SyncEngineProofs`, `HouseholdProofs`, `BlobSyncProofs`, `LocalStoreProofs`, `ExtractionProofs`, `ChatStreamProofs`, `TuiFormsProofs`, `NavigationProofs` | Theorems and their proofs. |

`SyncEngine` starts where `Household` ends: with devices that have their key and
token. `BlobSync` takes from `SyncEngine` that operations travel once and in
order, and adds what the files do. `TuiForms` takes of a cycle that it may change
a row and end well or badly. `LocalStore` is what all of them write to. These
modules share no variable, so they are checked apart; where one MC module
extends several that have nothing to do with each other (`MCStore`, `MCModel`,
`MCExtraction`, `MCNavigation`), a variable picks the one a behaviour is of, and
the state space is the sum of theirs and not the product.

### How `SyncEngine` corresponds to the code

| Variable | In the code |
|---|---|
| `table[d]` | the syncable tables of device `d`; a row is the identity of the insert or update that wrote its columns (`by`) and whether `deleted_at` is set (`gone`) |
| `oplog[d]`, `applied[d]`, `synced[d]` | `sync_oplog_entries`, and its entries with `applied_at`, `synced_at` set |
| `lastSeq[d]` | `sync_devices.last_seq` |
| `clock[d]` | the latest `created_at` the device has stamped |
| `edit[d]` | the open form, and the time at which its save has written the row but not yet the entry |
| `pc[d]`, `cursor[d]`, `batch[d]`, `more[d]`, `failed[d]`, `outbox[d]` | where `Engine.Sync` is, `seq` in `pullAll`, the operations of the page still to apply, `HasMore`, `len(ar.Errors) > 0`, the operations of the push |
| `relay` | the relay's `ops`; `seq` is the position |
| `faults`, `contested` | not in the code: a bound, and a history variable for `UncontestedRowsConverge` |

One action is one transaction or one exchange with the relay. `Create`,
`SoftDelete`, `Restore`, `HardDelete` are single transactions in the code;
an update is two commits (`updateByIDWith`), hence `SaveRow` and `SaveLog`.
`ApplyCommits`, `ApplyLoses` and `ApplyErrors` are the three outcomes of the
transaction of `applyOne`: the operation applied and recorded, the operation
lost (and its record rolled back with the error that reports the loss), or an
error (a record that exists already, a row that is missing, a name or key that
is taken). Errors are collected and end the cycle after the page
(`AbortPull`); otherwise `last_seq` is stored (`AdvanceSeq`).
`Push` is `PgStore.Push` (`RejectRepeats = TRUE`, where the unique index makes
one repeat refuse the whole push) or `MemStore.Push` (`FALSE`).
`SyncFails` at a step `s` is a failed or cancelled request or transaction of
that step; at `"mark"` it is a push that the relay committed and whose answer,
or whose mark, was lost.

Abstractions. Payloads are the identity of the operation. A device's clock moves
forward between two of its operations; clocks of different devices are
unrelated, so an edit made later may carry an earlier time. `applied_at` is kept
although nothing but `ConflictLosers` reads it. A row's references to other
rows are left out. There is one UI and one cycle per device: `micasa pro sync`
run next to the TUI would be a second.

### How `Household` corresponds to the code

| Variable | In the code |
|---|---|
| `invites` | the relay's invites by code: creator, attempts, consumed, past `expires_at` |
| `exchanges` | the relay's key exchanges: code, completed, older than `keyExchangeExpiry`, and whose private key sealed the credentials still stored |
| `revoked` | `devices.revoked`; the devices themselves are the founder's and those of completed exchanges, which is how `CompleteKeyExchange` makes them |
| `secrets[m]` | the three files of the secrets directory of machine `m` |
| `account[m]` | `sync_devices.id` of `m`'s database once `household_id` is set |
| `cli[m]` | the `pro` command that runs on `m`: its step, the exchange it is about (`to`), the device whose public key it was given (`from`), the sealed key it has received (`box`) |

A request with a token is two steps, `requireAuth` and the handler, since they
are two transactions and a revocation fits between. Requests without a token,
and the poll of the inviter, which only reads, are one. A join saves three
files and then the sync device, with a step for each. `Stops` ends a command at
any point: an interrupt, a timeout, a lost answer, a crash; what the relay has
committed stays. `AnswerLost` is the case in which the command goes on: Go's
HTTP transport repeats a GET, and this GET clears what it returns.

Abstractions. One identity stands for an attempt to join: its exchange ID, its
key pair, and the device ID and token it is given. `BoxOpen` succeeds exactly if
the sealer is the device whose public key the joiner was given. An expiry is a
flag that may be set at any time; where nothing would read it, it is not. An
exchange expires under a joiner that polls only with a failure (`Fault`):
the joiner gives up after 5 minutes and the exchange lasts 15, so the machine
must have slept. There is one household, and a machine runs one command at a
time. `MemStore` and `PgStore` differ in one thing here: `PgStore` rolls the
mark of a refused code back with the error it returns (`KeepsRefusal`).

### How `BlobSync` corresponds to the code

`row[d][x]` is a document in the database of `d` (the hash in its row, its data
if it has them, whether it is deleted), `unsynced[d]` its operations not pushed,
`seen[d]` the stored `last_seq`. `pc`, `queue` and `hand` are the cycle: after
pull and push come one upload per pushed operation with a file
(`uploadPendingBlobs`) and one download per document without data (`fetchPendingBlobs`), and
`hand` is the file read or received before the next step. `log`, `blobs` and
`status` are the relay's operations, its blobs by hash and the household's
subscription. Every request is two steps, the gate (`requireSubscription`) and
the handler. `unsent` and `replaced` are history: files whose upload a cycle gave up,
and documents that were given a second file. Stripe's events come in any order.

### How `LocalStore`, `Records` and `Agenda` correspond to the code

`LocalStore`: `row[x]` is a row of any kind (deleted, the rows it refers to, and
its date or status), `open[x]` its deletion records that have no `restored_at`,
`pending[p]` an operation whose guard a caller has run and whose transaction it
has not. A guard inside the transaction is the same step. `replica` is the
database of a device that has applied the oplog entries: what an operation logs
is in the step that writes. `manual` and `loose` are history: items whose service
date a user typed after the last log changed, and rows that the guards do not
answer for, because a remote operation wrote them, a caller's check was stale
by its write, or no check was made: a create does not ask whether its parents are
alive, and the commit of an extraction (`CommitStep`) restores the vendor, appliance
or item whose name it finds deleted without asking for its parents
(`restoreSoftDeleted`). `Loosened` says which step adds which rows.

`Records`: `record` holds the columns of one record of kind `entity`, each
abstracted to a few values that its printed form and its parser treat
differently; `vendors` are the vendors, `lookups` the copy the forms complete from,
`unlisted` the entities and choices a form's selects do not offer, `metric` the unit
system. A select (`huh.Select`, external) shows its first option when its value is
none of the options, and writes that back: an edit through a form resets the
link to an entity that was deleted, which `Loses` lists. A command may also store a
negative interval, which a form refuses or drops. `Agenda`: a date is a day of a short calendar; `plan`
is the schedule of each chore, `picker` the date picker, `board` the dashboard's
data and cursor, `frame` what was drawn of it.

### How `ChatStream`, `SearchIndex` and `Staging` correspond to the code

`ChatStream`: `chat` is `chatState`, `messages` what it shows; `streams` are the streams
opened so far as their producers know them (open, cancelled, done), `waits[s]` the
commands that wait on one, `running` the other commands, `inbox` the messages
posted and not handled, in no order. `pull`, `pulls` and `model` are the pull of a
model and the model in use. A message carries no question or stream, as in
the code. `interrupted` and `chosen` are history.

`SearchIndex`: `rows` have a status and a text; `entities` and `postings` are the two
indexes, `schema` which triggers exist, `opener` how far a process that opens the
database has come in the statements of its set-up, each its own transaction.
`Staging`: `tables` are the rows by ordinal, `batch` the drafts by what they mean,
`operations` as the model writes them (by ordinals), `base` the ordinals the shadow
database was seeded with, `made` the rows committed; with `pending` the batch belongs to a document that is not
saved yet, and its accept creates that document before the batch.

### How `Extraction` and `PageOcr` correspond to the code

`exs` are the extractions with their steps, `front` and `shown` the overlay, `back`
the background list; `runs` are the runs of the model with their context and
stream, `running` the commands that read none. Everything a message carries is an
extraction's ID; the run it belongs to is known only to the model. `stored` counts
the commits and the documents that accepting has written. `PageOcr`: the goroutine of `ExtractWithProgress` (`at`,
`files`, `out`), one goroutine per page (`page`, `result`), the channels between
them, and the chain of commands that reads (`reader`).

### How `TuiForms`, `Navigation`, `Overlays`, `Tables` and `Viewport` correspond to the code

`TuiForms`: `db` is the store with two records of two fields, the user's and
another device's; `house` and `table` what the screen shows of them; `mode`, `form`,
`confirm`, `editor` the modes and what is edited; `status`, `cycles`, `gen`, `timers`
and `ticking` the scheduling in `sync.go`; `made` and `pushed` the local changes
and what the relay has of them. A handler of the event loop is one step; a cycle
is three: its start, its pulls, its message.

`Navigation`: a view is a tab or a drilldown with the list it loaded, a
snapshot of `status` and `order`, and with the rows it draws, which are those that its
active filter lets through. Which rows a filter `hides` is the matter of `Tables`; here it
is any set of `Filters`, and a save may change only whether the saved row matches.
A link or a jump looks for its row among the rows drawn (`SelectRow`). `details` is the stack, `form`, `prompt`, `dash`
and `searching` are what can be on top. `Overlays`: `open` are the visible ones, and each
has a cursor into a list that shrinks. `Tables`: `full` is what was loaded,
`shown`, `dim` and `cursor` the table, made of it by `pins`, `sorts`, `hidden` and
`mag`. `Viewport`: `put` are the hidden columns, `at` the cursor, `offset` and
`cachedVP` the window and what is cached of it for clicks.

## Runs

| Run | Asks | Bounds | Result |
|---|---|---|---|
| `sync_safety` | `CursorCovers`, `SyncedIsStored`, `UncontestedRowsConverge`, and the implementation of `HouseholdLog` | 2 devices, 2 rows with hard deletes, 3 edits, 2 timestamps, a page of one operation, one failure or crash at any step | holds, 1.8 million states |
| `sync_live` | `EveryEditPushed`, `EveryEditPulled` | the same with one row and one failure before the relay has answered | holds |
| `household` | `AccountComplete`, `CodeLimits`, `AcceptedStays`, and the implementation of `Admission` | 3 machines, 3 codes, 2 attempts to join, 1 attempt per code, 1 active code, one failure, any revocations | holds, 225 thousand states |
| `blobs` | `FilesSafe`, `StoredArrives` | 2 devices, 2 documents, files of size 2 and 3 and a quota of 4, 2 edits, one failed request or one event of Stripe | holds, 319 thousand states |
| `store` | `References`, `LastServiced`, `Traces`; `EditsKeepRest`; `Reminders`, `CursorLineDrawn` | 4 operations of 2 callers and one of another device over each of 8 groups of rows; 2 edits of a record of each kind, areas 0, 7 and 120; 2 chores, 2 days, one change of plan, 2 toggles, terminals of 5 and 6 lines | holds, 1.0 million states |
| `model` | `OwnAffairs`, `QuestionEnds`; `FollowsTables`, `FoundByItsText`, `KindsAnswered`; `BatchAsMeant` | 2 questions, or one and 2 pulls, a token per stream; 3 writes around one opening; one of 12 batches and one change of the tables | holds, 883 thousand states |
| `extraction` | `Unmixed`, `CommitOnce`, `NoRunaway`, `ExtractionEnds`; `RunWhole`, `OcrAnswers` | one extraction in detail or two, 2 model runs; an image, or a PDF of no or of 4 pages with a cap of 3, 2 workers, a channel with room for 1 | holds, 297 thousand states |
| `tui` | `CyclesShown`, `TypedKept`, `PulledKept`, `EditsPushed` | one change typed, 2 saves, one pulled change, one failed cycle; on the rows or on the house | holds, 428 thousand states |
| `nav` | `ViewsTrue`, `CursorLands`, `DeletesAsked`; `KeysLand`; `ShowsWhatItShould`; `DrawnRight` | 5 rows, 2 changes, a filter that keeps off none, an item or a document; 7 overlays; 2 or 3 rows of 2 columns, 2 pins, 1 sort; 5 columns in 3 terminals | holds, 131 thousand states |
| `sync_diverge` | `IdenticalData`: once everything is exchanged all devices have identical data | as `sync_safety`, without a failure | violated |
| `sync_retry` | `EveryEditPushed` with a push whose answer is lost | one row | violated |
| `sync_names` | `EveryEditPulled` with two rows of one unique name | two rows | violated |

Why these bounds. *Sync*: a conflict needs two operations on a row and the
insert before them, hence three edits; a skipped or repeated page needs two
operations of one device, and a page of one makes `HasMore` and the steps between
pages matter. Device IDs are ordered, so that ties have a loser, and timestamps
may be equal. Nothing treats a third device differently from the second: a device
sees one relay log of operations not its own. *Household*: two joiners are what one
code, or two inviters, can confuse; a newcomer that has joined invites in its
turn; three codes let one be consumed, one expire and one stay active; a limit of
one is reached within these bounds. One failure is enough for a torn join and
its repetition. `KeepsRefusal` is `TRUE`: with `FALSE` a refusal changes nothing,
so the behaviours of `PgStore` are among those checked. Newcomers are symmetric,
and symmetry is used with safety only. *Blobs*: one of the two files fits, so the
second upload of either device decides about the quota. Two edits are a document and its
change, or two documents, each created on its device; a restore, and an
extraction that changes a deleted document, would be third ones, and are covered only by
the proof (`FilesStaySafe`). *Store*: the
longest chain is log, item, appliance, with a document on it; four operations
delete two of them, restore one and change a reference. A stale check needs two
callers and no more. *Model*: one question
is interrupted while the other is answered; an opening that writes overlap needs a write before, one
during and one after. *Extraction*: two extractions can take each other's place;
a rerun is the second run of the model; with two workers and three pages one
page waits for a worker. *TUI*: a second save is what a stale form would undo. *Navigation*:
an item, its log and the log's document are the deepest stack of
drilldowns; the item that is the log's parent is the row a filter can keep off while a link
leads to it.

`nav` checks for deadlock: there is always a key. The other runs
do not: their bounded edits end in states where nothing remains to be
done, and progress is asked by the liveness properties.

`UncontestedRowsConverge` is the strongest convergence the code gives. A row is
contested when a device edits it without having recorded all there is on it,
when a pull changes it under an open form, and when a crash tears a save.
Every other row reads the same everywhere once all is exchanged, whatever
failed on the way. `InSync` is the premise; a device whose pull is stuck
satisfies it never, which is why progress is a separate question (`sync_live` and
the runs that show where it fails). `sync_live` cuts no cycle between applying
a page and storing the cursor, and has no hard deletes and no names in common, so
it says nothing of operations that fail to apply.

`CommitOnce` says that an extraction's operations are committed at most once, that
it is on no list from then on, and that its document is created by one accept
only; in that accept a new document may be written twice, where
the model proposed an operation for it beside rows of other tables
(`Whole` in `Staging` says the same of the rows). `Unmixed` keeps extractions apart; it says nothing of
what a superseded run of the same extraction still posts, since a message names no
run. `NoRunaway` is about runs of the model, and leaves out extractions that a late OCR
result has started again.

### Fairness

`SyncEngine!FairSpec` assumes weak fairness of each device's cycle, because the
TUI starts one on launch and another at every 60 s tick, requests have timeouts and
transactions end; and of `SaveLog`, the second half of a save under way. `BlobSync`
assumes the same of its cycles, and `TuiForms` of the tick, which re-arms
itself, and of the cycle under way. `Extraction` assumes that OCR and ping return,
and that a stream under way goes on or ends, since its context has a timeout;
`PageOcr` that goroutines run, programs end and the interface reads on unless
it has stopped. `ChatStream` assumes that the commands under way post their
message. Edits, keys, failures and crashes are never forced. Failures are bounded: a relay
that never answers is outside what any protocol could promise.

### Findings

1. *Devices diverge* (`sync_diverge`). A local edit that has lost to a newer
   remote one is still pushed, and the other device, which has nothing unsynced
   on the row by then, applies it over the newer one. Documented:
   "Both devices now have identical data".
2. *A lost answer to a push blocks pushing for ever* (`sync_retry`).
3. *Two rows with one unique name block pulling on both devices*
   (`sync_names`). Seeded project types and maintenance categories are such
   rows on any two devices that were started before they joined.

### Other disagreements met

The models contain these as the code has them, and the properties that would say
otherwise name them as exceptions; no run is spent on them.

- Sync: the record of a lost conflict is rolled back with the error that reports
  it (`internal/sync/apply.go:298`, `internal/data/oplog.go:322`). A cycle cut
  between applying a page and storing `last_seq` never pulls again, because the
  repeated operations collide with their own entries (`engine.go:107`); so does a
  page with a remote operation on a row that was hard deleted locally.
- Households: a one-time code admits every device that asked before the first was
  accepted (`internal/relay/pgstore.go:552`, `store.go:67`); `pro invite` completes
  the first pending exchange, whatever its code (`cmd/micasa/pro.go:528`).
- Files: a pulled change of a document's hash leaves the old data and is never
  fetched (`PendingBlobDocuments`); an upload that fails after its operation was
  marked synced is not retried (`engine.go:73`); `requireSubscription` knows no
  lifetime status.
- Local store: `last_serviced_at`, a vendor's contact changed by a quote and a
  restored incident's status are written without an operation
  (`store_vendor.go`, `store.go`), so another device does not see them; row and
  operation of an update are two commits; a create does not ask whether its parent is alive;
  and an extraction's commit that finds a deleted item by name restores it under a deleted
  appliance (`shadow.go:472`, `store_maintenance.go:48`, `store.go:86`), against the guard on
  restores (`docs/content/docs/reference/data-storage.md:84-94`).
- Records: a quote for an existing vendor blanks its contact against
  `docs/content/docs/guide/quotes.md:42-44`; editing a document's title drops its
  extracted text (`documents.md:142`, `store_document.go:132`); an item with an
  interval and a due date loses the date in any form; one whose
  appliance was deleted loses the reference with any edit in a form, as do an incident and
  a document, and a quote whose project was deleted is given the first project there is
  (`forms.go:1538-1623`, `2421-2441`); `UpdateDocument` promises that "entity linkage is always
  preserved" (`store_document.go:132`) and leaves out neither of its columns.
- Agenda: the due date wins over the interval, so an item serviced late stays
  overdue (`docs/content/docs/guide/maintenance.md`); the dashboard caps its list, `micasa status` does not.
- Search: a document changed by a pull while deleted is found by its old text once
  restored, until the next opening (`fts.go`); every process that opens the
  database drops and rebuilds the index of the others, statement by statement.
- Staging: `store.go:369` says `RowCounts` counts rows not deleted; it counts all,
  and the prompt lists the others, so the model's ordinals may differ. References of an update to
  a row of its own batch are not remapped (`shadow.go:261-268`): with a foreign key the whole
  batch is refused, and a document's link keeps the ordinal, also in a document
  that was pending (`extraction.go:876-887`). `acceptDeferredExtraction` hands on
  "non-document operations" only (`extraction.go:901`), but `commitInner` goes by what was staged
  (`shadow.go:225-257`): a document proposed beside other rows is written twice.
- Chat: a chunk of an interrupted stream enters the next answer (`chat.go:962`,
  against `llm-chat.md:97-99`), and one of the next question may enter the one after;
  a stream that times out silently leaves the chat
  streaming until ctrl+c.
- Extraction: a commit that fails leaves the document that was saved first and every
  retry fails on it (`extraction.go:904`); a late OCR result starts a second run;
  the last message of an OCR nobody reads keeps its goroutine and directory.
- Navigation: a link or jump to a live row that the target's filter keeps off reports "not found
  (deleted?)" (`model.go:513`) and leaves the cursor where it was.
- TUI: `m.house` is not loaded again after a pull (`reloadAll` has no callers,
  `plans/tui-sync-integration.md:363`); deletions and restores arm no debounce
  (`internal/app/sync.go:48`); a cycle that fails after it pulled does not
  reload; an inline edit keeps its index when rows move.
- Tables and columns: closing a service log moves the cursor to a column that may be
  hidden (`model_tabs.go:380`); hiding a pinned column leaves the rows in the
  order of the store.

## Proofs

All theorems hold for every value of the constants that satisfies the named
assumptions of the modules, which say no more than that IDs are finite sets
apart from each other and from the markers for nothing, and that bounds are
numbers; what a module assumes beyond that is said with its theorems. Each module
proves an inductive invariant and takes its theorems from it.

`SyncEngineProofs`, from `SyncOpsAssumption` and `SyncEngineAssumption`:

- `TypeCorrect`: `Spec => []TypeOK`. `TypeOK` is not inductive: `ApplyCommits`
  applies `relay[n]` for an `n` of the page, so the page must lie on the relay
  (`BatchesOnRelay`), which needs that the relay only grows (`RelayGrows`); and
  `LoadUnsynced` orders the unsynced operations, so oplogs must be finite
  (`FiniteOplogs`).
- `SyncedStored`: `Spec => []SyncedIsStored`. The invariant adds `MarksStored`:
  between the relay's commit and `MarkSynced` the outbox is on the relay.
- `NoneSkipped`: `Spec => []CursorCovers`. The invariant (`CursorInv`) relates
  the two cursors: what lies behind the pulled one is recorded, was beaten
  locally, or is still in the page, unless an error was collected; what lies
  behind the stored one is recorded or beaten. It rests on `PageIsPrefix` (a page
  has no holes), `CoveredStays` and `OplogGrows`, and on unsynced operations
  being the device's own.

`StepOfDevice` divides each step by what it means to one device (a step of its
cycle, the end of its cycle, or nothing to its cycle), and each preservation
proof follows that division, then the actions of the cycle.

The refinement is `LogImplemented`: under `RejectRepeats` (the hosted
relay; the other one accepts repeats and does not implement the log),
`Spec => ImplementsHouseholdLog`. A push must publish operations of one device that are
newer than all it has published, so `LogInv` says: a device's clock is not behind
what it has stamped (`ClockAhead`), what is on the relay in its name is its own
(`SharedIsOwn`), what it has not shared is newer than what it has
(`UnsharedIsNewest`), an outbox is in order (`PushInOrder`), and a page ends at
an operation of another device or at the end (`PageEndsAbroad`).
Then `PushPublishes`, `AdvanceLearns` and `OthersStutter` map every step.

Two more theorems have the hypothesis `RejectRepeats`:

- `RowsConverge`: `Spec => []UncontestedRowsConverge`. The operations on an
  uncontested row have one order, the relay's and then that of the one device with
  more to push, which knows all the others (`FreshKnowsAll`). Each device knows a prefix
  of it (`KnownIsPrefix`), nothing behind its cursors is missing (`PulledIsKnown`), and its
  row reads as the last write and the last insert, delete or restore of that prefix say
  (`RowIsLatest`). This holds while no device is stuck (`NoneStuck`): one whose operations are
  stored and not marked is refused for ever (the finding of `sync_retry`), and is never
  in sync again. Around it, `RowsInv` orders the inserts and the relay.
  The hypothesis is needed. Of an operation whose answer was lost, a device believes
  that it is still to be sent; another device's edit made on top of it with an earlier clock
  loses to it there. `MemStore` then accepts the repeat, and the device is in sync
  without that edit.
- `RelayHistoryInOrder`: each device's operations stand on the relay once and in
  order, none on a row before the one that created it (`RelayInOrder`, `InsertFirst`).

`HouseholdProofs`, from `HouseholdAssumption`, for all machines, limits and either store:

- `HouseholdTypeCorrect` and `AccountsComplete`: `AccountComplete` speaks of the end of a join,
  and holds because each step knows what the ones before have saved
  (`CommandsOK`), because nothing overwrites the
  secrets of a member (`MembersOK`), and because an exchange a command waits on
  was begun with a code that exists (`CodesExist`).
- `AcceptedJoinersGetIn`: `Spec => AcceptedStays`. It needs that no two machines
  wait for one exchange (`WaitersApart`): the answer of one would otherwise be
  claimed by the other.
- `LimitsHold`: `Spec => []CodeLimits`. `LimitsInv` ties the attempts counted in
  an invite to the number of exchanges begun with it (`AttemptsCount`).
- `AdmissionImplemented`: `Spec => ImplementsAdmission`. An exchange is claimed by
  whoever empties it, and is empty then, so that nothing is claimed or entered twice.

`BlobSyncProofs`, from `BlobSyncAssumption`: `BlobTypeCorrect` and
`FilesStaySafe` (`Spec => []FilesSafe`). `BlobInv` adds that what a cycle has in
hand is the file at the head of its queue (`HandHolds`), that a document is
mentioned only where a put precedes (`PutFirst`, `RowsMade`), and that all that
mentions a document never replaced names one file (`OneFile`). The quota needs
sums over finite sets of blobs.

`ExtractionProofs`: `ExtractionTypeCorrect`, `NothingMixed`, `WrittenOnce`,
`NoneRunsAway`. `PipelineInv` says that a run that is alive is the one its
extraction would cancel (`RunsFit`), since a first run starts only when the OCR is
over and another only when the pipeline is (`EarlyOpen`); that an extraction is in the
foreground or once in the background (`OnePlace`); and that one that has written
is nowhere (`WrittenGone`). `CommitOnce` also says which documents a step creates; that
is a step property, and follows from the invariant by one case per action.

The OCR is proved there too, from `PagesAssumption`: `OcrTypeCorrect` and `RunsAreWhole`
(`PagesSpec => []RunWhole`), for any number of pages and workers and a channel of any
size. `OcrInv` counts: unless the run is cancelled, pages completed and signals still in
`pageDone` are the pages that are over, pages rasterized and signals still in
`rasterDone` are the rasterized pages (`Counted`). So when the loop has counted all
pages, none is missing, and what it drains from `rasterDone` brings the other stage to
the total (`AllCounted`). `Told` says that the frame sent last, in the channel or read,
has what was counted last, and `Queue` that only the last message is final. Pages run
only between the first frame and the join (`Born`), while the directory is there.

`ChatStreamProofs`, from `ChatAssumption`: `ChatTypeCorrect` and `AffairsStayOwn`
(`Spec => []OwnAffairs`), for any number of questions. `ChatInv` has two halves. Until
something is interrupted (`Calm`), one thing at most is under way for the question asked
last, a command, a read or a chunk, and the chat could cancel it. Afterwards (`Stirred`)
all that is under way, and the channels the chat holds, are for the interrupted question
or a later one, since an interruption leaves no channel of an earlier one. The proof
made the property weaker than its first form, which two questions satisfy and three do
not: a late chunk of an interrupted question makes the next stream be read twice at a
time, so a chunk of the second question, which was not interrupted, may enter the
third answer. `NoticeGone`, `Trims`, `Appended` and `Tokened` say what the helpers on
messages leave; `Named` holds the models a switch under way may turn into the chat's.

`SearchIndex` is proved in the same module, from `SearchAssumption`: `SearchTypeCorrect`,
`EntitiesFollow` (`[]FollowsTables`), `DocumentsFound` (`[]FoundByItsText`),
`AllKindsAnswered` (`[]KindsAnswered`), for any tables, parents and rows. A set-up is a
list of statements, so the invariant says for each of them what holds after it
(`SetUpFollows`): which triggers are there and which tables have been copied. Where all
are there (`AllThere`), the index is the bag that copying would make, and every write
keeps it so. `PostingsFollow` does the same for documents, and `Answered`
counts what `BestMatches` returns. `SearchAssumption` says that documents have no
parents, that a table is listed once, and that `Score` orders the rows: the query breaks
ties of rank by `entity_id` in every `ORDER BY`.

`TuiFormsProofs`: `TuiTypeCorrect`, `PulledIsShown` (`[]CyclesShown`), and the
action properties `NothingTypedLost` (`TypedKept`) and `NothingPulledUndone`
(`PulledKept`). In `TuiInv` the table may be stale only while a cycle has not
said what it pulled or a form keeps the reload waiting (`Seen`), which must
end with the form (`PendingInForm`); a form and the external editor exclude each
other (`Alone`), dirtiness compares with the stored text (`SnapKept`), and a form has the
others' fields as stored unless it was raced (`Read`).

`LocalStoreProofs`, from `LocalStoreAssumption`: `StoreTypeCorrect`,
`ReferencesHold`, `LastServicedHolds`, `TracesHold`. None of the three properties is
inductive alone. A live log keeps its item alive even if other devices touched the log
(`Guarded`), or restoring the item would bring back a date that went stale; what the
replica says of deleted rows must agree too (`Followed`), because a restore
brings it back. Every operation is a write of one row, a change
of `deleted_at`, a purge or no write (`Written`, `Flipped`, `Purged`), and each shape
preserves `StoreInv` by one lemma; `LatestDate` shows that a finite set of
logs has a latest date.

`Records` is proved there too, from `RecordsAssumption` (the marker for NULL is not a
number): `RecordTypeCorrect`, and `EditsKeep` (`EditsKeepRest`), which needs that an
area survives being shown in square metres and read back, for every square footage.
`ColumnFacts` says what each column of the nine kinds of records holds, and
`RereadShows` that a value printed and parsed again shows the same.

And `Agenda`, from `AgendaAssumption`: `CursorStaysDrawn` (`[]CursorLineDrawn`) and
`RemindersHold` (`Reminders`), for any calendar, chores, sections and heights. The
assumption says that the calendar outlasts the plans by the longest interval, that
chores are numbers and finitely many, and that the overlay leaves the dashboard three
lines, as `buildDashboardOverlay` does: a line between two marks takes three.
`AgendaInv` keeps the cursor at a stop. `CountFlattens` and `StopsAre` show that the lines
drawn have as many stops as the keys go through, so the cursor has a line
(`LineIs`). `FitIs` shows that three rounds settle: a window that needs another
number of marks moves by at most what they take. For the dates, months follow
each other (`FirstsFollow`), so that what is clamped to a month's end stays behind the
months after it (`AddMonthsRises`). For the list, the number of chores due before a chore is its
place and no two share one (`BeforeDiffers`), so each place has its chore (`BySoonestIs`).

`NavigationProofs` covers three modules. From `OverlaysAssumption` (at least two sections
of the house profile, a column, a root in the tree of operations):
`OverlayTypeCorrect` and `KeysReach` (`[]KeysLand`), for any columns, trees and results.
The invariant adds which overlays exclude each other (`Stacked`), from which it
follows that the three orders in which the code goes through them have the same
first one (`SameTop`), and where the cursors are while their lists are on the
screen (`CursorsPlaced`). That a collapsed tree is not empty needs a root among its nodes.

From `NavigationAssumption` (a Documents tab, no tab of service logs, the
sections of the dashboard among the tabs, at least one): `NavigationTypeCorrect`,
`ViewsStayTrue` (`[]ViewsTrue`), `CursorsLand` (`[]CursorLands`) and `OnlyTheAsked`
(`DeletesAsked`). `NavInv` says that the drilldowns are a stack, each of a row of the list
below it (`Stack`), and that these rows are not deleted for good (`ParentsThere`).
The latter holds because deletion for good asks first: a question about a maintenance
item or an incident is put in a tab, with no drilldown open (`QuestionFits`), and what is
of another kind is not deleted. The document search is open over documents only (`SearchFits`),
and the list on top is that of the store (`Fresh`) with the cursor on what was meant
(`Landed`). `DefsAre` and `RoutesFit` go through the twelve routes. Lists are made by
`Only` and `FlattenSeq`, recursive functions, about which `Inductively`, an
induction over sets of numbers that follows from `Nat` being well-founded, proves
what they keep and in which order.

From `ViewportAssumption` (each column has a minimum of one at least, no larger than
its maximum if it has one, and no narrower natural width): `ColumnsDrawnRight` (`[]DrawnRight`), for any
columns and terminals. `ViewKept` adds that some column is visible and that the first one
drawn is not beyond the cursor's. The argument is about sums (`SumIs`, `SumChanges`): widths
grow by no more than what is left (`GrowsTo`), and shrink by all that is missing unless
each is at its minimum (`ShrinksTo`). The window is chosen by the widths in the whole table
and then given widths of its own, with what is left of the terminal; it
fits (`WindowFits`) because a column that may shrink in the table may do so in the
window. So the window has the cursor (`RangeIs`) and fits, unless it is one column.

From `TablesAssumption` (rows with distinct IDs, cells that are numbers or NULL, a
Status column): `RowsShownRight` (`ShowsWhatItShould`). `TablesInv` says that the table
is what a refresh would make of the rows loaded, unless it is stale (`Current`), and that it
holds each row once, in any case; the latter is needed because sorting starts from the rows
shown. A sort stack with the ID at its end orders any rows (`SortOrderIs`): two rows
differ in some column of the stack, so in a first one, and NULLs are last in each. An
order of finitely many rows ranks them from nought without gaps (`Ranked`), so to sort is to
put each row where its rank says (`SortedIs`) and the order they come in does not
matter (`SortedAgain`); the code's stable sort does the same where no two rows tie. The pins
that translation makes stand for the same rows in the other mode, or for more as
magnitudes (`TranslatedMatches`).

Model-checked only:

- All liveness (`EveryEditPushed`, `EveryEditPulled`, `StoredArrives`, `QuestionEnds`,
  `ExtractionEnds`, `OcrAnswers`, `EditsPushed`): the prover does neither fairness nor `ENABLED`.
- `BatchAsMeant`, where the batch is built by folds over operations: the prover
  knows a fold only by its definition, so each needs a theory of its own first.
- The findings are refuted by TLC; nothing is to be proved there.

## Plan

What the proofs lack is `Staging`. The way is that of `Tables`: its folds written
as recursive functions, and the lemmas on them by `Inductively`.

## Not modelled

`pro init` is `Household`'s initial state, and other households are left out of it.
Rendering as such (colours, labels, hints), configuration, CLI and MCP input and
output, seeds and fixtures have no state others depend on. Encryption is
invisible to these properties. Of the oplog, the relabelling of device IDs after a join
and `ConflictLosers`, which nothing calls, are left out; of the store, project types and
categories, which only the seed writes, and settings; of extraction, the text of
PDFs and `Pipeline.Run`, which nothing in production calls; of the relay, signatures of
webhooks and the pages that only read.
