----------------------------- MODULE SyncEngine -----------------------------
(***************************************************************************)
(* Devices of one household and the relay's log between them: the local    *)
(* mutations that feed each oplog (internal/data), the pull-then-push      *)
(* cycle of Engine.Sync with the application of remote operations          *)
(* (internal/sync), and the relay's Push and Pull (internal/relay).        *)
(*                                                                         *)
(* A device runs two threads: the UI, which mutates rows one edit at a     *)
(* time, and a sync cycle, whose every database transaction and HTTP       *)
(* exchange is a step of its own.  The blob phase is another module's.     *)
(***************************************************************************)
EXTENDS SyncOps, Sequences, FiniteSets

CONSTANTS
    Purgeable,    \* rows of tables with a hard delete (incidents, maintenance)
    PageSize,     \* operations per pull, 100 in the code
    RejectRepeats,\* TRUE: PgStore's unique index; FALSE: MemStore
    MaxOps,       \* BOUND: local operations over all devices
    MaxFaults,    \* BOUND: failures and crashes in a behaviour
    FaultSteps,   \* the steps of a cycle a failure may strike
    NoEdit        \* no form is open

ASSUME SyncEngineAssumption ==
    /\ Purgeable \subseteq Rows
    /\ PageSize \in Nat \ {0}
    /\ RejectRepeats \in BOOLEAN
    /\ MaxOps \in Nat
    /\ MaxFaults \in Nat
    /\ NoEdit \notin [row : Rows, at : {0} \cup Times]

VARIABLES
    table,      \* table[d]: the syncable rows of device d
    oplog,      \* oplog[d]: the operations recorded in sync_oplog_entries
    applied,    \* applied[d]: those with applied_at set
    synced,     \* synced[d]: those with synced_at set
    clock,      \* clock[d]: the last timestamp d stamped
    edit,       \* edit[d]: the form open in the UI, and how far its save is
    lastSeq,    \* lastSeq[d]: SyncDevice.last_seq
    pc,         \* pc[d]: the next step of d's sync cycle
    cursor,     \* cursor[d]: the highest seq the cycle has pulled
    batch,      \* batch[d]: the seqs of the pulled page still to apply
    more,       \* more[d]: the page's HasMore
    failed,     \* failed[d]: ApplyOps has collected an error
    outbox,     \* outbox[d]: the operations of the push under way
    relay,      \* the relay's log; an operation's seq is its position
    faults,     \* failures so far
    contested   \* HISTORY: rows edited concurrently, or torn by a crash

store   == <<table, oplog, applied, synced, lastSeq>>
uiVars  == <<clock, edit>>
cycle   == <<pc, cursor, batch, more, failed, outbox>>
vars    == <<store, uiVars, cycle, relay, faults, contested>>

Steps == {"idle", "pull", "apply", "load", "send", "mark"}
Edit  == [row : Rows, at : {0} \cup Times]  \* at = 0: the form is not saved

TypeOK ==
    /\ table \in [Devices -> Table]
    /\ oplog \in [Devices -> SUBSET Op]
    /\ applied \in [Devices -> SUBSET Op]
    /\ synced \in [Devices -> SUBSET Op]
    /\ clock \in [Devices -> Nat]
    /\ edit \in [Devices -> Edit \cup {NoEdit}]
    /\ lastSeq \in [Devices -> Nat]
    /\ pc \in [Devices -> Steps]
    /\ cursor \in [Devices -> Nat]
    /\ batch \in [Devices -> SUBSET Nat]
    /\ more \in [Devices -> BOOLEAN]
    /\ failed \in [Devices -> BOOLEAN]
    /\ outbox \in [Devices -> Seq(Op)]
    /\ relay \in Seq(Op)
    /\ faults \in Nat
    /\ contested \in SUBSET Rows

Init ==
    /\ table = [d \in Devices |-> [r \in Rows |-> Absent]]
    /\ oplog = [d \in Devices |-> {}]
    /\ applied = [d \in Devices |-> {}]
    /\ synced = [d \in Devices |-> {}]
    /\ clock = [d \in Devices |-> 0]
    /\ edit = [d \in Devices |-> NoEdit]
    /\ lastSeq = [d \in Devices |-> 0]
    /\ pc = [d \in Devices |-> "idle"]
    /\ cursor = [d \in Devices |-> 0]
    /\ batch = [d \in Devices |-> {}]
    /\ more = [d \in Devices |-> FALSE]
    /\ failed = [d \in Devices |-> FALSE]
    /\ outbox = [d \in Devices |-> <<>>]
    /\ relay = <<>>
    /\ faults = 0
    /\ contested = {}

UnsyncedOps(d) == oplog[d] \ synced[d]
OnRow(ops, r)  == {o \in ops : o.row = r}

-----------------------------------------------------------------------------
(***************************************************************************)
(* The UI thread.  Inserts, deletes and restores write the row and the     *)
(* oplog entry in one transaction; an update (updateByIDWith) commits the  *)
(* row first and the entry after it.  A form is modal: while it is open no *)
(* other mutation starts on that device, but sync goes on.                 *)
(***************************************************************************)

\* An edit of row r by d is contested if d has not recorded all there is on r.
Contest(d, r) ==
    IF \E e \in Devices : OnRow(oplog[e], r) \ oplog[d] # {}
    THEN contested' = contested \cup {r}
    ELSE UNCHANGED contested

RecordLocal(d, op) ==
    /\ oplog' = [oplog EXCEPT ![d] = @ \cup {op}]
    /\ applied' = [applied EXCEPT ![d] = @ \cup {op}]
    /\ Contest(d, op.row)
    /\ UNCHANGED <<synced, lastSeq, cycle, relay, faults>>

\* The clock of a device moves forward between two of its operations.
Stamp(d, t) ==
    /\ t > clock[d]
    /\ clock' = [clock EXCEPT ![d] = t]
    /\ Cardinality(UNION {oplog[e] : e \in Devices}) +
       Cardinality({e \in Devices : edit[e] # NoEdit /\ edit[e].at # 0}) < MaxOps

Alive(d, r) == table[d][r] # Absent /\ ~table[d][r].gone

\* One transaction: the row is written and the operation logged.
Mutate(d, op, newRow) ==
    /\ edit[d] = NoEdit
    /\ Stamp(d, op.ts)
    /\ table' = [table EXCEPT ![d][op.row] = newRow]
    /\ RecordLocal(d, op)
    /\ UNCHANGED edit

LocalOp(d, r, kind, t) == [dev |-> d, ts |-> t, row |-> r, kind |-> kind]

Create(d, r, t) ==
    /\ \A e \in Devices : OnRow(oplog[e], r) = {}        \* a fresh ULID
    /\ ~NameTaken(table[d], r)
    /\ LET op == LocalOp(d, r, "insert", t) IN Mutate(d, op, Written(Absent, op))

SoftDelete(d, r, t) ==
    /\ Alive(d, r)
    /\ LET op == LocalOp(d, r, "delete", t) IN Mutate(d, op, Written(table[d][r], op))

Restore(d, r, t) ==
    /\ table[d][r] # Absent
    /\ LET op == LocalOp(d, r, "restore", t) IN Mutate(d, op, Written(table[d][r], op))

HardDelete(d, r, t) ==
    /\ r \in Purgeable
    /\ table[d][r] # Absent
    /\ Mutate(d, LocalOp(d, r, "delete", t), Absent)

OpenForm(d, r) ==
    /\ edit[d] = NoEdit
    /\ Alive(d, r)
    /\ edit' = [edit EXCEPT ![d] = [row |-> r, at |-> 0]]
    /\ UNCHANGED <<store, clock, cycle, relay, faults, contested>>

CancelForm(d) ==
    /\ edit[d] # NoEdit /\ edit[d].at = 0
    /\ edit' = [edit EXCEPT ![d] = NoEdit]
    /\ UNCHANGED <<store, clock, cycle, relay, faults, contested>>

\* The scoped UPDATE touches no soft-deleted row, and reports no error then.
SaveRow(d, t) ==
    /\ edit[d] # NoEdit /\ edit[d].at = 0
    /\ Stamp(d, t)
    /\ edit' = [edit EXCEPT ![d].at = t]
    /\ table' = IF Alive(d, edit[d].row)
                THEN [table EXCEPT ![d][edit[d].row].by = <<d, t>>]
                ELSE table
    /\ UNCHANGED <<oplog, applied, synced, lastSeq, cycle, relay, faults, contested>>

SaveLog(d) ==
    /\ edit[d] # NoEdit /\ edit[d].at # 0
    /\ RecordLocal(d, LocalOp(d, edit[d].row, "update", edit[d].at))
    /\ edit' = [edit EXCEPT ![d] = NoEdit]
    /\ UNCHANGED <<table, clock>>

UI(d) ==
    \/ \E r \in Rows, t \in Times :
        \/ Create(d, r, t)
        \/ SoftDelete(d, r, t)
        \/ Restore(d, r, t)
        \/ HardDelete(d, r, t)
    \/ \E r \in Rows : OpenForm(d, r)
    \/ \E t \in Times : SaveRow(d, t)
    \/ CancelForm(d)
    \/ SaveLog(d)

-----------------------------------------------------------------------------
(***************************************************************************)
(* The sync cycle, pull then push.  Between its steps the UI mutates.      *)
(***************************************************************************)

\* The cycle ends, well or not: everything that is not in the database goes.
EndCycle(d) ==
    /\ pc' = [pc EXCEPT ![d] = "idle"]
    /\ cursor' = [cursor EXCEPT ![d] = 0]
    /\ batch' = [batch EXCEPT ![d] = {}]
    /\ more' = [more EXCEPT ![d] = FALSE]
    /\ failed' = [failed EXCEPT ![d] = FALSE]
    /\ outbox' = [outbox EXCEPT ![d] = <<>>]

Goto(d, step) == pc' = [pc EXCEPT ![d] = step]

\* MUTANT of StartSync: the stored last_seq is not read.
StartFromZero(d) ==
    /\ pc[d] = "idle"
    /\ Goto(d, "pull")
    /\ cursor' = [cursor EXCEPT ![d] = 0]
    /\ UNCHANGED <<store, uiVars, batch, more, failed, outbox, relay, faults, contested>>

StartSync(d) ==
    /\ pc[d] = "idle"
    /\ Goto(d, "pull")
    /\ cursor' = [cursor EXCEPT ![d] = lastSeq[d]]
    /\ UNCHANGED <<store, uiVars, batch, more, failed, outbox, relay, faults, contested>>

\* What the relay holds for d behind seq: the operations of other devices.
Pending(d, seq) == {n \in DOMAIN relay : n > seq /\ relay[n].dev # d}
Page(pending)   == {n \in pending : Cardinality({m \in pending : m <= n}) <= PageSize}

Pull(d) ==
    /\ pc[d] = "pull"
    /\ LET pending == Pending(d, cursor[d]) IN
       /\ pending # {}
       /\ batch' = [batch EXCEPT ![d] = Page(pending)]
       /\ more' = [more EXCEPT ![d] = Page(pending) # pending]
       /\ \E top \in Page(pending) :
            /\ \A n \in Page(pending) : n <= top
            /\ cursor' = [cursor EXCEPT ![d] = top]
    /\ failed' = [failed EXCEPT ![d] = FALSE]
    /\ Goto(d, "apply")
    /\ UNCHANGED <<store, uiVars, outbox, relay, faults, contested>>

PullNothing(d) ==
    /\ pc[d] = "pull"
    /\ Pending(d, cursor[d]) = {}
    /\ Goto(d, "load")
    /\ UNCHANGED <<store, uiVars, cursor, batch, more, failed, outbox, relay, faults, contested>>

\* MUTANT of LosesLocally: operations already shared take part too.
LosesToAnyLocal(d, op) ==
    \E o \in OnRow(oplog[d], op.row) : lwwLocalWins(o.ts, o.dev, op.ts, op.dev)

\* applyOne compares with the newest unsynced local operation on the row.
LosesLocally(d, op) ==
    LET rivals == OnRow(UnsyncedOps(d), op.row) IN
    \E o \in rivals :
        /\ \A p \in rivals : p.ts <= o.ts
        /\ lwwLocalWins(o.ts, o.dev, op.ts, op.dev)

\* The oplog's primary key refuses an operation recorded before.
ApplyFails(d, op) ==
    \/ op \in oplog[d]
    \/ ~LosesLocally(d, op) /\ ~Applicable(table[d], op)

\* One transaction per operation, in seq order: n is the first one left.
TakeFromBatch(d, n) ==
    /\ pc[d] = "apply"
    /\ \A m \in batch[d] : n <= m
    /\ batch' = [batch EXCEPT ![d] = @ \ {n}]
    /\ UNCHANGED <<lastSeq, uiVars, pc, cursor, more, outbox, relay, faults>>

ApplyCommits(d) == \E n \in batch[d] :
    /\ TakeFromBatch(d, n)
    /\ LET op == relay[n] IN
       /\ ~ApplyFails(d, op) /\ ~LosesLocally(d, op)
       /\ table' = [table EXCEPT ![d] = ApplyTo(@, op)]
       /\ oplog' = [oplog EXCEPT ![d] = @ \cup {op}]
       /\ applied' = [applied EXCEPT ![d] =
                        (@ \ OnRow(UnsyncedOps(d), op.row)) \cup {op}]
       /\ synced' = [synced EXCEPT ![d] = @ \cup {op}]
       /\ contested' = IF edit[d] # NoEdit /\ edit[d].row = op.row
                       THEN contested \cup {op.row}
                       ELSE contested
    /\ UNCHANGED failed

\* recordUnappliedOp reports the loss as an error, which rolls its own insert
\* back: a remote operation that loses leaves no trace.
ApplyLoses(d) == \E n \in batch[d] :
    /\ TakeFromBatch(d, n)
    /\ ~ApplyFails(d, relay[n]) /\ LosesLocally(d, relay[n])
    /\ UNCHANGED <<table, oplog, applied, synced, failed, contested>>

ApplyErrors(d) == \E n \in batch[d] :
    /\ TakeFromBatch(d, n)
    /\ ApplyFails(d, relay[n])
    /\ failed' = [failed EXCEPT ![d] = TRUE]
    /\ UNCHANGED <<table, oplog, applied, synced, contested>>

\* Any error of the page ends the cycle before last_seq is stored.
AbortPull(d) ==
    /\ pc[d] = "apply" /\ batch[d] = {} /\ failed[d]
    /\ EndCycle(d)
    /\ UNCHANGED <<store, uiVars, relay, faults, contested>>

\* MUTANT of AdvanceSeq: last_seq is stored although the page had errors.
AdvanceAnyway(d) ==
    /\ pc[d] = "apply" /\ batch[d] = {}
    /\ lastSeq' = [lastSeq EXCEPT ![d] = cursor[d]]
    /\ Goto(d, IF more[d] THEN "pull" ELSE "load")
    /\ UNCHANGED <<table, oplog, applied, synced, uiVars, cursor, batch, more, failed,
                   outbox, relay, faults, contested>>

AdvanceSeq(d) ==
    /\ pc[d] = "apply" /\ batch[d] = {} /\ ~failed[d]
    /\ lastSeq' = [lastSeq EXCEPT ![d] = cursor[d]]
    /\ Goto(d, IF more[d] THEN "pull" ELSE "load")
    /\ UNCHANGED <<table, oplog, applied, synced, uiVars, cursor, batch, more, failed,
                   outbox, relay, faults, contested>>

\* UnsyncedOps orders by created_at; applied_at plays no part.
InOrder(ops) ==
    {s \in [1..Cardinality(ops) -> ops] :
        /\ \A o \in ops : \E i \in DOMAIN s : s[i] = o
        /\ \A i, j \in DOMAIN s : i < j => s[i].ts < s[j].ts}

LoadUnsynced(d) ==
    /\ pc[d] = "load"
    /\ UnsyncedOps(d) # {}
    /\ outbox' \in {[outbox EXCEPT ![d] = s] : s \in InOrder(UnsyncedOps(d))}
    /\ Goto(d, "send")
    /\ UNCHANGED <<store, uiVars, cursor, batch, more, failed, relay, faults, contested>>

NothingToPush(d) ==
    /\ pc[d] = "load"
    /\ UnsyncedOps(d) = {}
    /\ EndCycle(d)
    /\ UNCHANGED <<store, uiVars, relay, faults, contested>>

OnRelay == {relay[n] : n \in DOMAIN relay}
Outgoing(d) == {outbox[d][i] : i \in DOMAIN outbox[d]}

\* MUTANT of PushRefused: the relay stores an operation again.
NeverRefused(d) == FALSE

\* PgStore.Push is one transaction: one repeated operation refuses them all.
PushRefused(d) == RejectRepeats /\ Outgoing(d) \cap OnRelay # {}

Push(d) ==
    /\ pc[d] = "send"
    /\ ~PushRefused(d)
    /\ relay' = relay \o outbox[d]
    /\ Goto(d, "mark")
    /\ UNCHANGED <<store, uiVars, cursor, batch, more, failed, outbox, faults, contested>>

PushFails(d) ==
    /\ pc[d] = "send"
    /\ PushRefused(d)
    /\ EndCycle(d)
    /\ UNCHANGED <<store, uiVars, relay, faults, contested>>

\* MUTANT of MarkSynced: what was logged since the push is marked with it.
MarkAllSynced(d) ==
    /\ pc[d] = "mark"
    /\ synced' = [synced EXCEPT ![d] = @ \cup UnsyncedOps(d)]
    /\ EndCycle(d)
    /\ UNCHANGED <<table, oplog, applied, lastSeq, uiVars, relay, faults, contested>>

\* MUTANT of MarkSynced: only the first operation of the push is marked.
MarkFirstSynced(d) ==
    /\ pc[d] = "mark"
    /\ synced' = [synced EXCEPT ![d] = @ \cup {outbox[d][1]}]
    /\ EndCycle(d)
    /\ UNCHANGED <<table, oplog, applied, lastSeq, uiVars, relay, faults, contested>>

MarkSynced(d) ==
    /\ pc[d] = "mark"
    /\ synced' = [synced EXCEPT ![d] = @ \cup Outgoing(d)]
    /\ EndCycle(d)
    /\ UNCHANGED <<table, oplog, applied, lastSeq, uiVars, relay, faults, contested>>

Cycle(d) ==
    \/ StartSync(d)
    \/ Pull(d) \/ PullNothing(d)
    \/ ApplyCommits(d) \/ ApplyLoses(d) \/ ApplyErrors(d)
    \/ AbortPull(d) \/ AdvanceSeq(d)
    \/ LoadUnsynced(d) \/ NothingToPush(d)
    \/ Push(d) \/ PushFails(d) \/ MarkSynced(d)

-----------------------------------------------------------------------------
(***************************************************************************)
(* Failures.  A cycle stops at a step: the request or its response is      *)
(* lost, the context is cancelled on quit, the process dies.  A crash of   *)
(* the process also loses a save that has written the row only.            *)
(***************************************************************************)
SyncFails(d) ==
    /\ pc[d] \in FaultSteps
    /\ faults < MaxFaults
    /\ faults' = faults + 1
    /\ EndCycle(d)
    /\ UNCHANGED <<store, uiVars, relay, contested>>

CrashMidSave(d) ==
    /\ edit[d] # NoEdit /\ edit[d].at # 0
    /\ pc[d] \in FaultSteps \cup {"idle"}
    /\ faults < MaxFaults
    /\ faults' = faults + 1
    /\ edit' = [edit EXCEPT ![d] = NoEdit]
    /\ contested' = contested \cup {edit[d].row}
    /\ EndCycle(d)
    /\ UNCHANGED <<store, clock, relay>>

Next == \E d \in Devices : UI(d) \/ Cycle(d) \/ SyncFails(d) \/ CrashMidSave(d)

Spec == Init /\ [][Next]_vars

(***************************************************************************)
(* The TUI starts a cycle on launch and on every 60s tick, each of its     *)
(* steps is a transaction or a request with a timeout, and a save that has *)
(* written its row goes on to log it.                                      *)
(***************************************************************************)
Fairness == \A d \in Devices : WF_vars(Cycle(d)) /\ WF_vars(SaveLog(d))

FairSpec == Spec /\ Fairness

-----------------------------------------------------------------------------
(***************************************************************************)
(* Safety.                                                                 *)
(***************************************************************************)

\* An operation behind a device's last_seq was never skipped: the device has
\* recorded it, or a newer operation of its own on the row had beaten it.
\* (pullAll stores last_seq apart from the operations it covers.)
CursorCovers ==
    \A d \in Devices : \A n \in DOMAIN relay :
        n <= lastSeq[d] /\ relay[n].dev # d =>
            \/ relay[n] \in oplog[d]
            \/ \E o \in OnRow(oplog[d], relay[n].row) :
                /\ o.dev = d
                /\ lwwLocalWins(o.ts, o.dev, relay[n].ts, relay[n].dev)

\* An operation a device holds for synced is on the relay: whatever request
\* or answer was lost, no local change is believed shared that is not.
SyncedIsStored ==
    \A d \in Devices : synced[d] \subseteq OnRelay

\* A device that has nothing to push and nothing to pull.
InSync(d) == UnsyncedOps(d) = {} /\ Pending(d, lastSeq[d]) = {}

Shown(d, r) == IF Alive(d, r) THEN table[d][r].by ELSE Absent

\* A row no two devices edited at once, and no crash tore, reads the same on
\* any two devices once everything is exchanged, however cycles interleaved
\* and whichever of them failed.
UncontestedRowsConverge ==
    (\A d \in Devices : InSync(d) /\ edit[d] = NoEdit) =>
        \A r \in Rows \ contested : \A d, e \in Devices : Shown(d, r) = Shown(e, r)

\* The relay's log and the stored cursors implement the shared log.
Shared == INSTANCE HouseholdLog WITH log <- relay, known <- lastSeq
ImplementsHouseholdLog == Shared!Spec

-----------------------------------------------------------------------------
(***************************************************************************)
(* Liveness, under FairSpec.                                               *)
(***************************************************************************)

\* What a device has logged is pushed, and what the others have pushed is
\* taken in, whatever failure strikes before the answer to a request.
EveryEditPushed == \A d \in Devices : []<>(UnsyncedOps(d) = {})
EveryEditPulled == \A d \in Devices : []<>(Pending(d, lastSeq[d]) = {})

-----------------------------------------------------------------------------
(***************************************************************************)
(* What the documents say and the code does not do; see the README.        *)
(***************************************************************************)

\* relay-architecture.md: after an exchange all devices have identical data.
IdenticalData ==
    (\A d \in Devices : InSync(d) /\ edit[d] = NoEdit) =>
        \A r \in Rows : \A d, e \in Devices : Shown(d, r) = Shown(e, r)

=============================================================================
