------------------------------ MODULE TuiForms ------------------------------
(***************************************************************************)
(* The terminal program while it edits and syncs (internal/app): the sync  *)
(* cycles it starts by a 60 s tick and 2 s after an edit, the forms, and   *)
(* what its tables and its house header show meanwhile.                    *)
(*                                                                         *)
(* A cycle of the engine runs beside the event loop and writes to the same *)
(* database. A record is two fields: `mine`, which this user edits, and    *)
(* `theirs`, which another device changes; a save writes both. A value is  *)
(* the number of the change that made it, 0 if there is no record.         *)
(***************************************************************************)
EXTENDS Naturals, SequencesExt

CONSTANTS
    MaxTyped,   \* BOUND: texts typed, deletions and restores
    MaxSaves,   \* BOUND: changes made to the database
    MaxPulls,   \* BOUND: changes pulled
    MaxFaults   \* BOUND: cycles that fail, saves refused

ASSUME TuiAssumption == {MaxTyped, MaxSaves, MaxPulls, MaxFaults} \subseteq Nat

VARIABLES
    db,                 \* the records "house" and "row", as stored
    house,              \* m.house; hasHouse is house # Blank
    table,              \* the row as the active tab shows it
    missed,             \* HISTORY: a failed cycle changed the row unseen
    mode, prevMode, detail,
    form, confirm,      \* m.fs or what an overlay edits; the question asked
    editor,             \* the form an external editor works for
    pendingReload,
    status, cycles, gen, timers, ticking,  \* of sync.go
    made, pushed,       \* local changes: in the oplog, and on the relay
    typed, pulls, faults

view  == <<table, missed>>
modes == <<mode, prevMode, detail>>
sync  == <<status, cycles, gen, timers, ticking>>
log   == <<made, pushed>>
vars  == <<db, house, view, modes, form, confirm, editor, pendingReload, sync, log,
           typed, pulls, faults>>

Blank  == [mine |-> 0, theirs |-> 0]
First  == [mine |-> 1, theirs |-> 1]
NoForm == [of |-> "none", mine |-> 0, theirs |-> 0, snap |-> 0, done |-> FALSE,
           kept |-> 0, edited |-> FALSE, raced |-> FALSE]   \* HISTORY: these three

Target(of) == IF of \in {"house", "field"} THEN "house" ELSE "row"
InForm == form.of \in {"row", "notes", "house"}     \* modeForm; the others are inline
Idle   == form.of = "none" /\ editor.of = "none" /\ mode # "over"

-----------------------------------------------------------------------------
(* Loading and reloading.                                                  *)

\* MUTANT: a form starts from the row the table shows.
FromTable == table

\* The edit forms read their row from the store (StartEditForm, InlineEdit).
FromStore == db["row"]

Reloads(d)  == table' = d["row"] /\ missed' = FALSE
\* reloadEffectiveTab
ReloadsEffective(d) == IF detail THEN UNCHANGED view ELSE Reloads(d)

-----------------------------------------------------------------------------
(* Forms.                                                                  *)

Form(of, v) ==
    [NoForm EXCEPT !.of = of, !.mine = v.mine, !.theirs = v.theirs, !.snap = v.mine, !.kept = v.mine]

\* activateForm
Activate(f) ==
    /\ form' = f
    /\ prevMode' = mode /\ mode' = "form"
    /\ UNCHANGED detail

\* openNotesEdit, openEdit..Form; the house's form starts from m.house
OpenForm(of) ==
    /\ Idle /\ mode = "edit"
    /\ of = "house" => house # Blank
    /\ Activate(Form(of, IF of = "house" THEN house ELSE FromStore))
    /\ UNCHANGED <<db, house, view, confirm, editor, pendingReload, sync, log, typed, pulls, faults>>

\* openInlineInput on a cell, houseOverlayStartEdit on a field of the house
OpenInline(of) ==
    /\ Idle
    /\ \/ of = "inline" /\ mode = "edit" /\ form' = Form(of, FromStore)
       \/ of = "field" /\ house # Blank /\ form' = Form(of, house)
    /\ UNCHANGED <<db, house, view, modes, confirm, editor, pendingReload, sync, log, typed, pulls, faults>>

Type ==
    /\ form.of # "none" /\ ~form.done /\ confirm = "none"
    /\ typed < MaxTyped
    /\ typed' = typed + 1
    /\ form' = [form EXCEPT !.mine = typed' + 1]
    /\ UNCHANGED <<db, house, view, modes, confirm, editor, pendingReload, sync, log, pulls, faults>>

Dirty     == form.mine # form.snap
Mandatory == form.of = "house" /\ house = Blank

\* CreateHouseProfile refuses a second house; any other save may be refused too.
MaySave   == Mandatory => db["house"] = Blank
Refuses   == (~MaySave /\ UNCHANGED faults) \/ (faults < MaxFaults /\ faults' = faults + 1)

\* handleFormSubmit, with the operation the save adds to the oplog
Submits ==
    /\ MaySave /\ made < MaxSaves
    /\ db' = [db EXCEPT ![Target(form.of)] = [mine |-> form.mine, theirs |-> form.theirs]]
    /\ house' = IF Target(form.of) = "house" THEN db'["house"] ELSE house
    /\ made' = made + 1

\* The debounce of reloadAfterMutation, armed by Update
Debounces ==
    /\ gen' = gen + 1
    /\ timers' = timers \cup {gen'}
    /\ UNCHANGED <<status, cycles, ticking>>

\* exitForm, when the rows are d: of a save, or as they were
ExitForm(d, saved) ==
    /\ mode' = prevMode /\ UNCHANGED <<prevMode, detail>>
    /\ form' = NoForm /\ confirm' = "none"
    /\ pendingReload' = FALSE
    /\ \/ pendingReload /\ Reloads(d)
       \/ ~pendingReload /\ saved /\ ReloadsEffective(d)
       \/ ~pendingReload /\ ~saved /\ UNCHANGED view

\* saveForm. After a refused save the form stays as completed: it takes no more
\* text, and every later message saves again.
Complete ==
    /\ InForm /\ confirm = "none"
    /\ \/ /\ Submits /\ Debounces
          /\ ExitForm(db', TRUE)
          /\ UNCHANGED <<pushed, faults>>
       \/ /\ Refuses
          /\ form' = [form EXCEPT !.done = TRUE]
          /\ UNCHANGED <<db, house, view, modes, confirm, pendingReload, sync, log>>
    /\ UNCHANGED <<editor, typed, pulls>>

\* saveFormInPlace, by ctrl+s: snapshotForm, and the form stays
SaveInPlace ==
    /\ InForm /\ confirm = "none"
    /\ Submits /\ Debounces
    /\ form' = [form EXCEPT !.snap = form.mine, !.kept = form.mine]
    /\ ReloadsEffective(db')
    /\ UNCHANGED <<modes, confirm, editor, pendingReload, pushed, typed, pulls, faults>>

\* submitInlineInput; houseOverlaySubmitEdit reloads nothing and arms no timer
SubmitInline ==
    /\ form.of \in {"inline", "field"}
    /\ Submits
    /\ form' = NoForm
    /\ \/ form.of = "inline" /\ Debounces /\ ReloadsEffective(db')
       \/ form.of = "field" /\ UNCHANGED <<sync, view>>
    /\ UNCHANGED <<modes, confirm, editor, pendingReload, pushed, typed, pulls, faults>>

\* closeInlineInput, houseOverlayCancelEdit
CancelInline ==
    /\ form.of \in {"inline", "field"}
    /\ form' = NoForm
    /\ UNCHANGED <<db, house, view, modes, confirm, editor, pendingReload, sync, log, typed, pulls, faults>>

-----------------------------------------------------------------------------
(* Leaving a form.                                                         *)

\* MUTANT: a textarea is left without asking.
AsksForRows == Dirty /\ form.of = "row"

AsksFirst == Dirty /\ ~Mandatory

\* ESC in updateForm; the first form is not left, it starts anew
Escape ==
    /\ InForm /\ confirm = "none"
    /\ \/ /\ AsksFirst
          /\ confirm' = "discard"
          /\ UNCHANGED <<form, view, modes, pendingReload>>
       \/ /\ ~AsksFirst /\ ~form.done /\ Mandatory
          /\ Activate(Form("house", Blank))
          /\ UNCHANGED <<view, confirm, pendingReload>>
       \/ /\ ~AsksFirst /\ ~form.done /\ ~Mandatory
          /\ ExitForm(db, FALSE)
    /\ UNCHANGED <<db, house, editor, sync, log, typed, pulls, faults>>

Over ==
    /\ mode' = "over" /\ form' = NoForm /\ confirm' = "none" /\ cycles' = <<>>
    /\ UNCHANGED <<prevMode, detail, view, pendingReload, status, gen, timers, ticking>>

\* handleConfirmDiscard
Confirm ==
    /\ \/ confirm = "discard" /\ ExitForm(db, FALSE) /\ UNCHANGED sync
       \/ confirm = "quit" /\ Over
       \/ /\ confirm # "none"
          /\ confirm' = "none"
          /\ UNCHANGED <<form, view, modes, pendingReload, sync>>
    /\ UNCHANGED <<db, house, editor, log, typed, pulls, faults>>

Quit ==
    /\ mode # "over" /\ editor.of = "none"
    /\ \/ /\ InForm /\ Dirty
          /\ confirm' = "quit"
          /\ UNCHANGED <<form, view, modes, pendingReload, sync>>
       \/ ~(InForm /\ Dirty) /\ Over
    /\ UNCHANGED <<db, house, editor, log, typed, pulls, faults>>

\* The notes' text goes to $EDITOR; the form is closed for that time.
LaunchEditor ==
    /\ form.of = "notes" /\ confirm = "none"
    /\ editor' = form
    /\ ExitForm(db, FALSE)
    /\ UNCHANGED <<db, house, sync, log, typed, pulls, faults>>

\* handleEditorFinished, with another text or the same; it may have failed.
EditorFinished ==
    /\ editor.of # "none"
    /\ \E new \in {0, 1} :
          /\ typed + new <= MaxTyped /\ typed' = typed + new
          /\ LET text == IF new = 1 THEN typed' + 1 ELSE editor.mine
             IN  Activate([editor EXCEPT !.mine = text, !.snap = text, !.edited = TRUE, !.done = FALSE])
    /\ editor' = NoForm
    /\ UNCHANGED <<db, house, view, confirm, pendingReload, sync, log, pulls, faults>>

-----------------------------------------------------------------------------
(* Other keys.                                                             *)

\* enterEditMode, and enterNormalMode
ToggleEdit ==
    /\ Idle /\ mode \in {"normal", "edit"}
    /\ mode' = IF mode = "normal" THEN "edit" ELSE "normal"
    /\ UNCHANGED <<db, house, view, prevMode, detail, form, confirm, editor, pendingReload, sync, log,
                   typed, pulls, faults>>

\* toggleDeleteSelected: the oplog gets an operation, no debounce is armed
ToggleDelete ==
    /\ Idle /\ mode = "edit" /\ typed < MaxTyped /\ made < MaxSaves
    /\ typed' = typed + 1
    /\ db' = [db EXCEPT !["row"].mine = typed' + 1]
    /\ made' = made + 1
    /\ ReloadsEffective(db')
    /\ UNCHANGED <<house, modes, form, confirm, editor, pendingReload, sync, pushed, pulls, faults>>

\* openDetailWith; switchToTab and closeDetail reload the tab that they show
Navigate ==
    /\ Idle /\ mode = "normal"
    /\ \/ ~detail /\ detail' = TRUE /\ UNCHANGED view
       \/ detail' = FALSE /\ Reloads(db)
    /\ UNCHANGED <<db, house, mode, prevMode, form, confirm, editor, pendingReload, sync, log,
                   typed, pulls, faults>>

-----------------------------------------------------------------------------
(* Syncing.                                                                *)

\* doSync
StartCycle ==
    /\ status' = "syncing"
    /\ cycles' = Append(cycles, [at |-> "pull", pulled |-> FALSE, takes |-> 0])

\* MUTANT: the timer is set again only when a cycle starts.
SetsWhenStarting == ticking' = (status # "syncing")

SetsTimer == ticking' = TRUE

\* syncTickMsg
Tick ==
    /\ ticking /\ mode # "over"
    /\ SetsTimer
    /\ IF status = "syncing" THEN UNCHANGED <<status, cycles>> ELSE StartCycle
    /\ UNCHANGED <<db, house, view, modes, form, confirm, editor, pendingReload, gen, timers, log,
                   typed, pulls, faults>>

MaySync(g) == g = gen /\ status # "syncing"

\* syncDebounceMsg
Debounced(g) ==
    /\ g \in timers /\ mode # "over"
    /\ timers' = timers \ {g}
    /\ IF MaySync(g) THEN StartCycle ELSE UNCHANGED <<status, cycles>>
    /\ UNCHANGED <<db, house, view, modes, form, confirm, editor, pendingReload, gen, ticking, log,
                   typed, pulls, faults>>

Raced(f, rec) == IF f.of # "none" /\ Target(f.of) = rec THEN [f EXCEPT !.raced = TRUE] ELSE f

\* The pull: nothing, or a change of one record. If local changes are not pushed
\* yet, the two conflict, and what is pulled may win as a whole.
CyclePulls(c) ==
    /\ cycles[c].at = "pull"
    /\ \/ /\ cycles' = [cycles EXCEPT ![c].at = "push"]
          /\ UNCHANGED <<db, form, editor, pulls>>
       \/ /\ pulls < MaxPulls
          /\ pulls' = pulls + 1
          /\ \E rec \in {"house", "row"} :
                /\ \E mine \in {db[rec].mine} \cup (IF db[rec] = Blank \/ pushed < made THEN {1} ELSE {}) :
                      db' = [db EXCEPT ![rec] = [mine |-> mine, theirs |-> pulls' + 1]]
                /\ form' = Raced(form, rec) /\ editor' = Raced(editor, rec)
          /\ cycles' = [cycles EXCEPT ![c].at = "push", ![c].pulled = TRUE]
    /\ UNCHANGED <<house, view, modes, confirm, pendingReload, status, gen, timers, ticking, log,
                   typed, faults>>

\* The push: the operations that are unsynced as it begins, marked when it ends.
CyclePushes(c) ==
    /\ \/ /\ cycles[c].at = "push"
          /\ cycles' = [cycles EXCEPT ![c].at = "sent", ![c].takes = made]
          /\ UNCHANGED pushed
       \/ /\ cycles[c].at = "sent"
          /\ cycles' = [cycles EXCEPT ![c].at = "done"]
          /\ pushed' = IF cycles[c].takes > pushed THEN cycles[c].takes ELSE pushed
    /\ UNCHANGED <<db, house, view, modes, form, confirm, editor, pendingReload, status, gen, timers,
                   ticking, made, typed, pulls, faults>>

\* MUTANT: while a form is open nothing is done, and nothing later.
SkipsInForm == IF mode = "form" THEN UNCHANGED <<view, pendingReload>>
               ELSE Reloads(db) /\ UNCHANGED pendingReload

\* A reload under an open form waits for exitForm.
ShowsPulled == IF mode = "form" THEN pendingReload' = TRUE /\ UNCHANGED view
               ELSE Reloads(db) /\ UNCHANGED pendingReload

\* syncDoneMsg
SyncDone(c) ==
    /\ cycles[c].at = "done"
    /\ cycles' = RemoveAt(cycles, c)
    /\ status' = "synced"
    /\ IF cycles[c].pulled THEN ShowsPulled ELSE UNCHANGED <<view, pendingReload>>
    /\ UNCHANGED <<db, house, modes, form, confirm, editor, gen, timers, ticking, log, typed, pulls, faults>>

\* syncErrorMsg, whatever was pulled before
SyncError(c) ==
    /\ cycles[c].at # "done" /\ faults < MaxFaults
    /\ faults' = faults + 1
    /\ cycles' = RemoveAt(cycles, c)
    /\ status' = "offline"
    /\ missed' = (missed \/ cycles[c].pulled)
    /\ UNCHANGED <<db, house, table, modes, form, confirm, editor, pendingReload, gen, timers, ticking, log,
                   typed, pulls>>

-----------------------------------------------------------------------------
\* NewModel and the program's Init: without a house its form opens first.
Init ==
    /\ \E h \in {Blank, First} :
          /\ db = [rec \in {"house", "row"} |-> IF rec = "house" THEN h ELSE First]
          /\ house = h
          /\ form = IF h = Blank THEN Form("house", Blank) ELSE NoForm
          /\ mode = IF h = Blank THEN "form" ELSE "normal"
    /\ table = First /\ missed = FALSE
    /\ prevMode = "normal" /\ detail = FALSE
    /\ confirm = "none" /\ editor = NoForm /\ pendingReload = FALSE
    /\ status = "syncing" /\ cycles = <<[at |-> "pull", pulled |-> FALSE, takes |-> 0]>>
    /\ gen = 0 /\ timers = {} /\ ticking = TRUE
    /\ made = 0 /\ pushed = 0
    /\ typed = 0 /\ pulls = 0 /\ faults = 0

Keys ==
    \/ \E of \in {"row", "notes", "house"} : OpenForm(of)
    \/ \E of \in {"inline", "field"} : OpenInline(of)
    \/ Type \/ Complete \/ SaveInPlace \/ SubmitInline \/ CancelInline
    \/ Escape \/ Confirm \/ Quit \/ LaunchEditor \/ EditorFinished
    \/ ToggleEdit \/ ToggleDelete \/ Navigate

CycleStep ==
    \E c \in DOMAIN cycles : CyclePulls(c) \/ CyclePushes(c) \/ SyncDone(c) \/ SyncError(c)

Next == Keys \/ Tick \/ (\E g \in timers : Debounced(g)) \/ CycleStep

\* Timers go off and cycles end; the user need not do anything.
Spec == Init /\ [][Next]_vars /\ WF_vars(Tick) /\ WF_vars(CycleStep)

-----------------------------------------------------------------------------
\* There is one sync cycle at a time: Engine.Sync is "not safe for concurrent
\* use", and only syncStatus keeps a tick and a debounce apart.
OneCycle == Len(cycles) <= 1 /\ (cycles # <<>> => status = "syncing")

\* Outside a form, when no cycle has something to show, the active tab shows
\* the database - unless a cycle failed after it had pulled.
FreshView ==
    mode \in {"normal", "edit"} /\ ~detail /\ ~missed /\ (\A c \in DOMAIN cycles : ~cycles[c].pulled)
    => table = db["row"]

\* Both: no cycle runs beside another, and what one has pulled is shown.
CyclesShown == OneCycle /\ FreshView

Unsaved(f) == f.of \in {"row", "notes", "house"} /\ f.mine # f.kept

\* What was typed into a form is saved, or still there, or given up by an answer
\* to a question. Not asked for: the first form, and what $EDITOR brought back.
TypedKept ==
    [][Unsaved(form) /\ ~form.edited /\ ~Mandatory
       => \/ form.mine \in {form'.mine, editor'.mine, db'[Target(form.of)].mine}
          \/ confirm # "none"
          \/ form'.of = form.of /\ typed' > typed]_vars

\* A save puts nothing back that was pulled before the edit began. Not asked for
\* the house, whose fields are edited as m.house has them.
PulledKept ==
    [][db'["row"].theirs < db["row"].theirs => form.of # "none" /\ form.raced]_vars

\* Whatever a debounce is dropped for, every change gets to the relay while the
\* program runs.
EditsPushed ==
    \A n \in 1..MaxSaves : made >= n ~> (pushed >= n \/ mode = "over")

=============================================================================
