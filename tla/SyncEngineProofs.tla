-------------------------- MODULE SyncEngineProofs --------------------------
(***************************************************************************)
(* Theorems about SyncEngine, for every set of devices and rows, every     *)
(* page size and every bound. The last ones are of a relay that refuses    *)
(* repeats: the engine implements HouseholdLog, and a row edited without a *)
(* contest reads the same on all devices once all is exchanged.            *)
(*                                                                         *)
(* For the latter RowsInv says of every row where its operations come from *)
(* and in which order they are; ConvergeInv of an uncontested one that its *)
(* operations are one history, of which each device knows a prefix and has *)
(* applied what it knows.                                                  *)
(***************************************************************************)
EXTENDS SyncEngine, FiniteSetTheorems, SequenceTheorems, TLAPS

-----------------------------------------------------------------------------
(***************************************************************************)
(* What the operators return.                                              *)
(***************************************************************************)

\* An operation writes a row wherever applyOpToTable finds what it needs.
LEMMA WrittenType ==
    ASSUME NEW op \in Op, NEW row \in Row \cup {Absent},
           op.kind = "insert" \/ row # Absent
    PROVE  Written(row, op) \in Row
<1>1. /\ op.dev \in Devices /\ op.ts \in Times
      /\ IdOf(op) \in OpId
  BY DEF Op, OpId, IdOf
<1>2. CASE op.kind = "insert"
  BY <1>1, <1>2 DEF Written, Row
<1>3. CASE op.kind # "insert"
  BY <1>1, <1>3 DEF Written, Row
<1> QED BY <1>2, <1>3

\* applyOpToTable leaves a table a table.
LEMMA ApplyToType ==
    ASSUME NEW op \in Op, NEW t \in Table, Applicable(t, op)
    PROVE  ApplyTo(t, op) \in Table
<1>1. op.row \in Rows
  BY DEF Op
<1>2. t[op.row] \in Row \cup {Absent}
  BY <1>1 DEF Table
<1>3. op.kind = "insert" \/ t[op.row] # Absent
  BY DEF Applicable
<1>4. Written(t[op.row], op) \in Row
  BY <1>2, <1>3, WrittenType
<1> QED
  BY <1>1, <1>4 DEF ApplyTo, Table

LEMMA LocalOpType ==
    ASSUME NEW d \in Devices, NEW r \in Rows, NEW k \in Kinds, NEW t \in Times
    PROVE  /\ LocalOp(d, r, k, t) \in Op
           /\ LocalOp(d, r, k, t).dev = d
           /\ LocalOp(d, r, k, t).ts = t
           /\ LocalOp(d, r, k, t).row = r
           /\ LocalOp(d, r, k, t).kind = k
BY DEF LocalOp, Op

\* The order in which UnsyncedOps returns a finite set of operations.
LEMMA InOrderType ==
    ASSUME NEW ops \in SUBSET Op, IsFiniteSet(ops), NEW s \in InOrder(ops)
    PROVE  s \in Seq(Op) /\ \A i \in DOMAIN s : s[i] \in ops
<1>1. Cardinality(ops) \in Nat
  BY FS_CardinalityType
<1>2. s \in [1..Cardinality(ops) -> ops]
  BY DEF InOrder
<1>3. s \in [1..Cardinality(ops) -> Op]
  BY <1>2
<1>4. s \in Seq(Op)
  BY <1>1, <1>3, IsASeq
<1> QED
  BY <1>2, <1>4

-----------------------------------------------------------------------------
(***************************************************************************)
(* Type correctness.  An oplog stays finite, so that its unsynced part has *)
(* an order to be pushed in.                                               *)
(***************************************************************************)
FiniteOplogs == \A d \in Devices : IsFiniteSet(oplog[d])

TypeInv == TypeOK /\ FiniteOplogs

\* The page a device is applying lies on the relay.
BatchesOnRelay == \A d \in Devices : batch[d] \subseteq DOMAIN relay

\* Recording a local operation keeps the oplog's types.
LEMMA RecordLocalType ==
    ASSUME TypeInv, NEW d \in Devices, NEW op \in Op, RecordLocal(d, op)
    PROVE  /\ oplog' \in [Devices -> SUBSET Op]
           /\ applied' \in [Devices -> SUBSET Op]
           /\ contested' \in SUBSET Rows
           /\ FiniteOplogs'
<1>1. oplog' = [oplog EXCEPT ![d] = @ \cup {op}]
  BY DEF RecordLocal
<1>2. oplog' \in [Devices -> SUBSET Op]
  BY <1>1 DEF TypeInv, TypeOK
<1>3. applied' \in [Devices -> SUBSET Op]
  BY DEF RecordLocal, TypeInv, TypeOK
<1>4. contested' \in SUBSET Rows
  BY DEF RecordLocal, Contest, TypeInv, TypeOK, Op
<1>5. FiniteOplogs'
  <2> SUFFICES ASSUME NEW e \in Devices PROVE IsFiniteSet(oplog'[e])
    BY DEF FiniteOplogs
  <2>1. IsFiniteSet(oplog[e]) /\ IsFiniteSet(oplog[e] \cup {op})
    BY FS_AddElement DEF TypeInv, FiniteOplogs
  <2>2. oplog'[e] = oplog[e] \/ oplog'[e] = oplog[e] \cup {op}
    BY <1>1 DEF TypeInv, TypeOK
  <2> QED
    BY <2>1, <2>2
<1> QED
  BY <1>2, <1>3, <1>4, <1>5

\* A local mutation in one transaction.
LEMMA MutateType ==
    ASSUME TypeInv, NEW d \in Devices, NEW op \in Op,
           NEW newRow \in Row \cup {Absent}, Mutate(d, op, newRow)
    PROVE  TypeInv'
<1>1. /\ oplog' \in [Devices -> SUBSET Op]
      /\ applied' \in [Devices -> SUBSET Op]
      /\ contested' \in SUBSET Rows
      /\ FiniteOplogs'
  BY RecordLocalType DEF Mutate
<1>2. op.ts \in Nat /\ op.row \in Rows
  BY DEF Op, Times
<1>3. clock' \in [Devices -> Nat]
  BY <1>2 DEF Mutate, Stamp, TypeInv, TypeOK
<1>4. table' \in [Devices -> Table]
  BY <1>2 DEF Mutate, TypeInv, TypeOK, Table
<1> QED
  BY <1>1, <1>3, <1>4 DEF Mutate, RecordLocal, TypeInv, TypeOK, cycle

\* Every step of the UI thread.
LEMMA UIType ==
    ASSUME TypeInv, NEW d \in Devices, UI(d)
    PROVE  TypeInv'
<1>1. ASSUME NEW r \in Rows, NEW t \in Times, Create(d, r, t) PROVE TypeInv'
  <2> DEFINE op == LocalOp(d, r, "insert", t)
  <2>1. op \in Op /\ op.kind = "insert"
    BY LocalOpType DEF Kinds
  <2>2. Written(Absent, op) \in Row
    BY <2>1, WrittenType
  <2>3. Mutate(d, op, Written(Absent, op))
    BY <1>1 DEF Create
  <2> QED
    BY <2>1, <2>2, <2>3, MutateType
<1>2. ASSUME NEW r \in Rows, NEW t \in Times, SoftDelete(d, r, t) PROVE TypeInv'
  <2> DEFINE op == LocalOp(d, r, "delete", t)
  <2>1. op \in Op
    BY LocalOpType DEF Kinds
  <2>2. table[d][r] \in Row \cup {Absent} /\ table[d][r] # Absent
    BY <1>2 DEF SoftDelete, Alive, TypeInv, TypeOK, Table
  <2>3. Written(table[d][r], op) \in Row
    BY <2>1, <2>2, WrittenType
  <2>4. Mutate(d, op, Written(table[d][r], op))
    BY <1>2 DEF SoftDelete
  <2> QED
    BY <2>1, <2>3, <2>4, MutateType
<1>3. ASSUME NEW r \in Rows, NEW t \in Times, Restore(d, r, t) PROVE TypeInv'
  <2> DEFINE op == LocalOp(d, r, "restore", t)
  <2>1. op \in Op
    BY LocalOpType DEF Kinds
  <2>2. table[d][r] \in Row \cup {Absent} /\ table[d][r] # Absent
    BY <1>3 DEF Restore, TypeInv, TypeOK, Table
  <2>3. Written(table[d][r], op) \in Row
    BY <2>1, <2>2, WrittenType
  <2>4. Mutate(d, op, Written(table[d][r], op))
    BY <1>3 DEF Restore
  <2> QED
    BY <2>1, <2>3, <2>4, MutateType
<1>4. ASSUME NEW r \in Rows, NEW t \in Times, HardDelete(d, r, t) PROVE TypeInv'
  <2>1. LocalOp(d, r, "delete", t) \in Op
    BY LocalOpType DEF Kinds
  <2> QED
    BY <1>4, <2>1, MutateType DEF HardDelete
<1>5. ASSUME NEW r \in Rows, OpenForm(d, r) PROVE TypeInv'
  <2>1. edit' \in [Devices -> Edit \cup {NoEdit}]
    BY <1>5 DEF OpenForm, Edit, TypeInv, TypeOK
  <2> QED
    BY <1>5, <2>1 DEF OpenForm, TypeInv, TypeOK, FiniteOplogs, store, cycle
<1>6. ASSUME NEW t \in Times, SaveRow(d, t) PROVE TypeInv'
  <2>1. edit[d] \in Edit
    BY <1>6 DEF SaveRow, TypeInv, TypeOK
  <2>2. edit' \in [Devices -> Edit \cup {NoEdit}]
    BY <1>6, <2>1 DEF SaveRow, Edit, TypeInv, TypeOK
  <2>3. clock' \in [Devices -> Nat]
    BY <1>6 DEF SaveRow, Stamp, Times, TypeInv, TypeOK
  <2>4. table' \in [Devices -> Table]
    <3> DEFINE r == edit[d].row
    <3>1. r \in Rows /\ <<d, t>> \in OpId
      BY <2>1 DEF Edit, OpId
    <3>2. CASE ~Alive(d, r)
      BY <1>6, <3>2 DEF SaveRow, TypeInv, TypeOK
    <3>3. CASE Alive(d, r)
      <4>1. table[d][r] \in Row
        BY <3>1, <3>3 DEF Alive, TypeInv, TypeOK, Table
      <4>2. [table[d][r] EXCEPT !.by = <<d, t>>] \in Row
        BY <3>1, <4>1 DEF Row
      <4>3. table' = [table EXCEPT ![d][r] = [table[d][r] EXCEPT !.by = <<d, t>>]]
        BY <1>6, <3>1, <3>3 DEF SaveRow, TypeInv, TypeOK, Table
      <4> QED
        BY <3>1, <4>2, <4>3 DEF TypeInv, TypeOK, Table
    <3> QED
      BY <3>2, <3>3
  <2> QED
    BY <1>6, <2>2, <2>3, <2>4 DEF SaveRow, TypeInv, TypeOK, FiniteOplogs, cycle
<1>7. ASSUME CancelForm(d) PROVE TypeInv'
  <2>1. edit' \in [Devices -> Edit \cup {NoEdit}]
    BY <1>7 DEF CancelForm, TypeInv, TypeOK
  <2> QED
    BY <1>7, <2>1 DEF CancelForm, TypeInv, TypeOK, FiniteOplogs, store, cycle
<1>8. ASSUME SaveLog(d) PROVE TypeInv'
  <2> DEFINE op == LocalOp(d, edit[d].row, "update", edit[d].at)
  <2>1. edit[d] \in Edit /\ edit[d].at # 0
    BY <1>8 DEF SaveLog, TypeInv, TypeOK
  <2>2. op \in Op
    BY <2>1, LocalOpType DEF Edit, Kinds
  <2>3. RecordLocal(d, op)
    BY <1>8 DEF SaveLog
  <2>4. /\ oplog' \in [Devices -> SUBSET Op]
        /\ applied' \in [Devices -> SUBSET Op]
        /\ contested' \in SUBSET Rows
        /\ FiniteOplogs'
    BY <2>2, <2>3, RecordLocalType
  <2>5. edit' \in [Devices -> Edit \cup {NoEdit}]
    BY <1>8 DEF SaveLog, TypeInv, TypeOK
  <2> QED
    BY <1>8, <2>3, <2>4, <2>5 DEF SaveLog, RecordLocal, TypeInv, TypeOK, cycle
<1> QED
  BY <1>1, <1>2, <1>3, <1>4, <1>5, <1>6, <1>7, <1>8 DEF UI

\* However a cycle ends.
LEMMA EndCycleType ==
    ASSUME TypeInv, NEW d \in Devices, EndCycle(d)
    PROVE  /\ pc' \in [Devices -> Steps]
           /\ cursor' \in [Devices -> Nat]
           /\ batch' \in [Devices -> SUBSET Nat]
           /\ more' \in [Devices -> BOOLEAN]
           /\ failed' \in [Devices -> BOOLEAN]
           /\ outbox' \in [Devices -> Seq(Op)]
<1>1. /\ pc' \in [Devices -> Steps]
      /\ cursor' \in [Devices -> Nat]
      /\ batch' \in [Devices -> SUBSET Nat]
      /\ more' \in [Devices -> BOOLEAN]
      /\ failed' \in [Devices -> BOOLEAN]
  BY DEF EndCycle, Steps, TypeInv, TypeOK
<1>2. <<>> \in Seq(Op)
  BY EmptySeq
<1>3. outbox' \in [Devices -> Seq(Op)]
  BY <1>2 DEF EndCycle, TypeInv, TypeOK
<1> QED
  BY <1>1, <1>3

\* Seqs are natural numbers, and each holds an operation.
LEMMA RelayType ==
    ASSUME TypeInv
    PROVE  /\ DOMAIN relay = 1..Len(relay)
           /\ Len(relay) \in Nat
           /\ \A n \in DOMAIN relay : n \in Nat /\ relay[n] \in Op
<1>1. relay \in Seq(Op)
  BY DEF TypeInv, TypeOK
<1> QED
  BY <1>1, LenProperties, ElementOfSeq

\* The seqs a pull looks at are on the relay.
LEMMA PageType ==
    ASSUME NEW d \in Devices, NEW seq
    PROVE  Page(Pending(d, seq)) \subseteq DOMAIN relay
BY DEF Pending, Page

\* Every step of the sync cycle.
LEMMA CycleType ==
    ASSUME TypeInv, BatchesOnRelay, NEW d \in Devices, Cycle(d)
    PROVE  TypeInv'
<1> USE DEF TypeInv, TypeOK, FiniteOplogs, store, uiVars
<1>1. ASSUME StartSync(d) PROVE TypeInv'
  BY <1>1 DEF StartSync, Goto, Steps
<1>2. ASSUME Pull(d) PROVE TypeInv'
  <2> DEFINE page == Page(Pending(d, cursor[d]))
  <2>1. page \in SUBSET Nat
    BY PageType, RelayType
  <2>2. /\ batch' \in [Devices -> SUBSET Nat]
        /\ cursor' \in [Devices -> Nat]
    BY <1>2, <2>1 DEF Pull
  <2>3. /\ pc' \in [Devices -> Steps]
        /\ more' \in [Devices -> BOOLEAN]
        /\ failed' \in [Devices -> BOOLEAN]
    BY <1>2 DEF Pull, Goto, Steps
  <2> QED
    BY <1>2, <2>2, <2>3 DEF Pull
<1>3. ASSUME PullNothing(d) PROVE TypeInv'
  BY <1>3 DEF PullNothing, Goto, Steps
<1>4. ASSUME ApplyCommits(d) PROVE TypeInv'
  <2>1. PICK n \in batch[d] :
          /\ TakeFromBatch(d, n)
          /\ ~ApplyFails(d, relay[n]) /\ ~LosesLocally(d, relay[n])
          /\ table' = [table EXCEPT ![d] = ApplyTo(@, relay[n])]
          /\ oplog' = [oplog EXCEPT ![d] = @ \cup {relay[n]}]
          /\ applied' = [applied EXCEPT ![d] =
                (@ \ OnRow(UnsyncedOps(d), relay[n].row)) \cup {relay[n]}]
          /\ synced' = [synced EXCEPT ![d] = @ \cup {relay[n]}]
          /\ contested' = IF edit[d] # NoEdit /\ edit[d].row = relay[n].row
                          THEN contested \cup {relay[n].row}
                          ELSE contested
          /\ UNCHANGED failed
    BY <1>4 DEF ApplyCommits
  <2> DEFINE op == relay[n]
  <2>2. op \in Op /\ op.row \in Rows
    BY RelayType DEF BatchesOnRelay, Op
  <2>3. Applicable(table[d], op)
    BY <2>1 DEF ApplyFails
  <2>4. ApplyTo(table[d], op) \in Table
    BY <2>2, <2>3, ApplyToType
  <2>5. /\ table' \in [Devices -> Table]
        /\ oplog' \in [Devices -> SUBSET Op]
        /\ applied' \in [Devices -> SUBSET Op]
        /\ synced' \in [Devices -> SUBSET Op]
        /\ contested' \in SUBSET Rows
    <3> HIDE DEF op
    <3> QED
      BY <2>1, <2>2, <2>4 DEF op
  <2>6. batch' \in [Devices -> SUBSET Nat]
    BY <2>1 DEF TakeFromBatch
  <2>7. FiniteOplogs'
    <3> SUFFICES ASSUME NEW e \in Devices PROVE IsFiniteSet(oplog'[e])
      OBVIOUS
    <3>1. IsFiniteSet(oplog[e]) /\ IsFiniteSet(oplog[e] \cup {op})
      BY FS_AddElement
    <3>2. oplog'[e] = oplog[e] \/ oplog'[e] = oplog[e] \cup {op}
      BY <2>1
    <3> QED
      BY <3>1, <3>2
  <2> QED
    BY <2>1, <2>5, <2>6, <2>7 DEF TakeFromBatch
<1>5. ASSUME ApplyLoses(d) PROVE TypeInv'
  BY <1>5 DEF ApplyLoses, TakeFromBatch
<1>6. ASSUME ApplyErrors(d) PROVE TypeInv'
  BY <1>6 DEF ApplyErrors, TakeFromBatch
<1>7. ASSUME AbortPull(d) PROVE TypeInv'
  BY <1>7, EndCycleType DEF AbortPull
<1>8. ASSUME AdvanceSeq(d) PROVE TypeInv'
  BY <1>8 DEF AdvanceSeq, Goto, Steps
<1>9. ASSUME LoadUnsynced(d) PROVE TypeInv'
  <2>1. PICK s \in InOrder(UnsyncedOps(d)) : outbox' = [outbox EXCEPT ![d] = s]
    BY <1>9 DEF LoadUnsynced
  <2>2. UnsyncedOps(d) \in SUBSET Op /\ IsFiniteSet(UnsyncedOps(d))
    BY FS_Difference DEF UnsyncedOps
  <2>3. s \in Seq(Op)
    BY <2>2, InOrderType
  <2>4. outbox' \in [Devices -> Seq(Op)]
    BY <2>1, <2>3
  <2>5. pc' \in [Devices -> Steps]
    BY <1>9 DEF LoadUnsynced, Goto, Steps
  <2> QED
    BY <1>9, <2>4, <2>5 DEF LoadUnsynced
<1>10. ASSUME NothingToPush(d) PROVE TypeInv'
  BY <1>10, EndCycleType DEF NothingToPush
<1>11. ASSUME Push(d) PROVE TypeInv'
  <2>1. relay \o outbox[d] \in Seq(Op)
    BY ConcatProperties
  <2> QED
    BY <1>11, <2>1 DEF Push, Goto, Steps
<1>12. ASSUME PushFails(d) PROVE TypeInv'
  BY <1>12, EndCycleType DEF PushFails
<1>13. ASSUME MarkSynced(d) PROVE TypeInv'
  <2>1. Outgoing(d) \subseteq Op
    BY ElementOfSeq, LenProperties DEF Outgoing
  <2>2. synced' \in [Devices -> SUBSET Op]
    BY <1>13, <2>1 DEF MarkSynced
  <2> QED
    BY <1>13, <2>2, EndCycleType DEF MarkSynced
<1> QED
  BY <1>1, <1>2, <1>3, <1>4, <1>5, <1>6, <1>7, <1>8, <1>9, <1>10, <1>11, <1>12,
     <1>13 DEF Cycle

\* A failure, of the cycle or of the process.
LEMMA FaultType ==
    ASSUME TypeInv, NEW d \in Devices, SyncFails(d) \/ CrashMidSave(d)
    PROVE  TypeInv'
<1> USE DEF TypeInv, TypeOK, FiniteOplogs, store, uiVars
<1>1. ASSUME SyncFails(d) PROVE TypeInv'
  BY <1>1, EndCycleType DEF SyncFails
<1>2. ASSUME CrashMidSave(d) PROVE TypeInv'
  <2>1. edit[d] \in Edit
    BY <1>2 DEF CrashMidSave
  <2>2. contested' \in SUBSET Rows /\ edit' \in [Devices -> Edit \cup {NoEdit}]
    BY <1>2, <2>1 DEF CrashMidSave, Edit
  <2>3. /\ pc' \in [Devices -> Steps]
        /\ cursor' \in [Devices -> Nat]
        /\ batch' \in [Devices -> SUBSET Nat]
        /\ more' \in [Devices -> BOOLEAN]
        /\ failed' \in [Devices -> BOOLEAN]
        /\ outbox' \in [Devices -> Seq(Op)]
    BY <1>2, EndCycleType DEF CrashMidSave
  <2> QED
    BY <1>2, <2>2, <2>3 DEF CrashMidSave
<1> QED
  BY <1>1, <1>2

-----------------------------------------------------------------------------
(***************************************************************************)
(* The page a device is applying lies on the relay: the cycle keeps seqs,  *)
(* and the relay only grows.                                               *)
(***************************************************************************)

\* The relay keeps what it has.
LEMMA RelayGrows ==
    ASSUME TypeInv, [Next]_vars
    PROVE  /\ DOMAIN relay \subseteq DOMAIN relay'
           /\ \A n \in DOMAIN relay : relay'[n] = relay[n]
<1>1. ASSUME NEW d \in Devices, Push(d)
      PROVE  /\ DOMAIN relay \subseteq DOMAIN relay'
             /\ \A n \in DOMAIN relay : relay'[n] = relay[n]
  <2>1. relay \in Seq(Op) /\ outbox[d] \in Seq(Op)
    BY DEF TypeInv, TypeOK
  <2>2. relay' = relay \o outbox[d]
    BY <1>1 DEF Push
  <2> QED
    BY <2>1, <2>2, ConcatProperties, LenProperties
<1>2. ASSUME NEW d \in Devices, UI(d) PROVE relay' = relay
  BY <1>2 DEF UI, Create, SoftDelete, Restore, HardDelete, Mutate, RecordLocal,
     OpenForm, SaveRow, CancelForm, SaveLog
<1>3. ASSUME NEW d \in Devices, Cycle(d), ~Push(d) PROVE relay' = relay
  BY <1>3 DEF Cycle, StartSync, Pull, PullNothing, ApplyCommits, ApplyLoses,
     ApplyErrors, TakeFromBatch, AbortPull, AdvanceSeq, LoadUnsynced, NothingToPush,
     PushFails, MarkSynced
<1>4. ASSUME NEW d \in Devices, SyncFails(d) \/ CrashMidSave(d) PROVE relay' = relay
  BY <1>4 DEF SyncFails, CrashMidSave
<1> QED
  BY <1>1, <1>2, <1>3, <1>4 DEF Next, vars
\* What a step means to one device: a step of its cycle, the end of its cycle,
\* or nothing to its cycle while its oplog may gain operations of its own.
Quiet(d) ==
    /\ pc'[d] = pc[d] /\ cursor'[d] = cursor[d] /\ batch'[d] = batch[d]
    /\ failed'[d] = failed[d] /\ outbox'[d] = outbox[d]
    /\ lastSeq'[d] = lastSeq[d] /\ synced'[d] = synced[d]
    /\ oplog[d] \subseteq oplog'[d]
    /\ \A o \in oplog'[d] \ oplog[d] : o.dev = d

Stops(d) == EndCycle(d) /\ UNCHANGED <<store, relay>>

LEMMA StepOfDevice ==
    ASSUME TypeInv, [Next]_vars, NEW d \in Devices
    PROVE  Cycle(d) \/ Stops(d) \/ Quiet(d)
<1>1. CASE UNCHANGED vars
  BY <1>1 DEF vars, store, cycle, Quiet
<1>2. ASSUME NEW e \in Devices, NEW op \in Op, op.dev = e, RecordLocal(e, op)
      PROVE  Quiet(d)
  <2>1. \/ oplog'[d] = oplog[d]
        \/ e = d /\ oplog'[d] = oplog[d] \cup {op}
    BY <1>2 DEF RecordLocal, TypeInv, TypeOK
  <2>2. UNCHANGED <<pc, cursor, batch, failed, outbox, lastSeq, synced>>
    BY <1>2 DEF RecordLocal, cycle
  <2> QED
    BY <1>2, <2>1, <2>2 DEF Quiet
<1>3. ASSUME NEW e \in Devices, UI(e) PROVE Quiet(d)
  <2>1. ASSUME NEW r \in Rows, NEW t \in Times, NEW k \in Kinds, NEW row,
               Mutate(e, LocalOp(e, r, k, t), row)
        PROVE  Quiet(d)
    BY <1>2, <2>1, LocalOpType DEF Mutate
  <2>2. ASSUME NEW r \in Rows, NEW t \in Times,
               Create(e, r, t) \/ SoftDelete(e, r, t) \/ Restore(e, r, t)
                 \/ HardDelete(e, r, t)
        PROVE  Quiet(d)
    BY <2>1, <2>2 DEF Create, SoftDelete, Restore, HardDelete, Kinds
  <2>3. CASE SaveLog(e)
    <3>1. edit[e] \in Edit /\ edit[e].at # 0
      BY <2>3 DEF SaveLog, TypeInv, TypeOK
    <3>2. edit[e].row \in Rows /\ edit[e].at \in Times
      BY <3>1 DEF Edit
    <3> QED
      BY <1>2, <2>3, <3>2, LocalOpType DEF SaveLog, Kinds
  <2>4. ASSUME CancelForm(e) \/ (\E r \in Rows : OpenForm(e, r))
                 \/ (\E t \in Times : SaveRow(e, t))
        PROVE  Quiet(d)
    BY <2>4 DEF CancelForm, OpenForm, SaveRow, store, cycle, Quiet
  <2> QED
    BY <1>3, <2>2, <2>3, <2>4 DEF UI
<1>4. ASSUME NEW e \in Devices, EndCycle(e), UNCHANGED <<oplog, synced, lastSeq>>, e # d
      PROVE  Quiet(d)
  BY <1>4 DEF EndCycle, Quiet, TypeInv, TypeOK
<1>5. ASSUME NEW e \in Devices, Cycle(e), e # d PROVE Quiet(d)
  <2> USE DEF Quiet, TypeInv, TypeOK, Goto, store, TakeFromBatch
  <2>1. CASE StartSync(e) \/ Pull(e) \/ PullNothing(e)
    BY <1>5, <2>1 DEF StartSync, Pull, PullNothing
  <2>2. CASE ApplyCommits(e) \/ ApplyLoses(e) \/ ApplyErrors(e)
    BY <1>5, <2>2 DEF ApplyCommits, ApplyLoses, ApplyErrors
  <2>3. CASE AdvanceSeq(e) \/ LoadUnsynced(e) \/ Push(e)
    BY <1>5, <2>3 DEF AdvanceSeq, LoadUnsynced, Push
  <2>4. CASE AbortPull(e) \/ NothingToPush(e) \/ PushFails(e)
    BY <1>4, <1>5, <2>4 DEF AbortPull, NothingToPush, PushFails
  <2>5. CASE MarkSynced(e)
    BY <1>5, <2>5 DEF MarkSynced, EndCycle
  <2> QED
    BY <1>5, <2>1, <2>2, <2>3, <2>4, <2>5 DEF Cycle
<1>6. ASSUME NEW e \in Devices, SyncFails(e) \/ CrashMidSave(e)
      PROVE  Stops(d) \/ Quiet(d)
  BY <1>4, <1>6 DEF SyncFails, CrashMidSave, store, Stops
<1> QED
  BY <1>1, <1>3, <1>5, <1>6 DEF Next

LEMMA BatchesStep ==
    ASSUME TypeInv, BatchesOnRelay, [Next]_vars
    PROVE  BatchesOnRelay'
<1> SUFFICES ASSUME NEW d \in Devices PROVE batch'[d] \subseteq DOMAIN relay'
  BY DEF BatchesOnRelay
<1>1. DOMAIN relay \subseteq DOMAIN relay' /\ batch[d] \subseteq DOMAIN relay
  BY RelayGrows DEF BatchesOnRelay
<1>2. CASE Quiet(d)
  BY <1>1, <1>2 DEF Quiet
<1>3. CASE Stops(d)
  BY <1>3 DEF Stops, EndCycle, TypeInv, TypeOK
<1>4. CASE Cycle(d)
  <2> USE DEF TypeInv, TypeOK
  <2>1. CASE Pull(d)
    BY <1>1, <2>1, PageType DEF Pull
  <2>2. CASE ApplyCommits(d) \/ ApplyLoses(d) \/ ApplyErrors(d)
    BY <1>1, <2>2 DEF ApplyCommits, ApplyLoses, ApplyErrors, TakeFromBatch
  <2>3. CASE AbortPull(d) \/ NothingToPush(d) \/ PushFails(d) \/ MarkSynced(d)
    BY <2>3 DEF AbortPull, NothingToPush, PushFails, MarkSynced, EndCycle
  <2>4. CASE StartSync(d) \/ PullNothing(d) \/ AdvanceSeq(d) \/ LoadUnsynced(d) \/ Push(d)
    BY <1>1, <2>4 DEF StartSync, PullNothing, AdvanceSeq, LoadUnsynced, Push
  <2> QED
    BY <1>4, <2>1, <2>2, <2>3, <2>4 DEF Cycle
<1> QED
  BY <1>2, <1>3, <1>4, StepOfDevice

\* Init and every step keep the types, with the page and the finite oplogs.
LEMMA TypeInit == Init => TypeInv /\ BatchesOnRelay
<1> SUFFICES ASSUME Init PROVE TypeInv /\ BatchesOnRelay
  OBVIOUS
<1>1. TypeOK
  <2>1. <<>> \in Seq(Op)
    BY EmptySeq
  <2> QED
    BY <2>1 DEF Init, TypeOK, Table, Steps
<1>2. FiniteOplogs
  BY FS_EmptySet DEF Init, FiniteOplogs
<1>3. BatchesOnRelay
  BY DEF Init, BatchesOnRelay
<1> QED
  BY <1>1, <1>2, <1>3 DEF TypeInv

LEMMA TypeStep ==
    ASSUME TypeInv, BatchesOnRelay, [Next]_vars
    PROVE  TypeInv' /\ BatchesOnRelay'
<1>1. BatchesOnRelay'
  BY BatchesStep
<1>2. CASE Next
  BY <1>1, <1>2, UIType, CycleType, FaultType DEF Next
<1>3. CASE UNCHANGED vars
  BY <1>1, <1>3 DEF vars, store, uiVars, cycle, TypeInv, TypeOK, FiniteOplogs
<1> QED
  BY <1>1, <1>2, <1>3

\* Every variable keeps its type in every behaviour.  (A page is applied seq
\* by seq: it must still be there, on the relay, when its turn comes.)
THEOREM TypeCorrect == Spec => []TypeOK
<1>1. Init => TypeInv /\ BatchesOnRelay
  BY TypeInit
<1>2. TypeInv /\ BatchesOnRelay /\ [Next]_vars => (TypeInv /\ BatchesOnRelay)'
  BY TypeStep
<1>3. TypeInv => TypeOK
  BY DEF TypeInv
<1> QED
  BY <1>1, <1>2, <1>3, PTL DEF Spec
-----------------------------------------------------------------------------
(***************************************************************************)
(* SyncedIsStored.  MarkSynced marks what the push before it stored: the   *)
(* invariant it needs is about the state between the two.                  *)
(***************************************************************************)
MarksStored == \A d \in Devices : pc[d] = "mark" => Outgoing(d) \subseteq OnRelay

StoredInv == MarksStored /\ SyncedIsStored

LEMMA StoredStep ==
    ASSUME TypeInv, BatchesOnRelay, StoredInv, [Next]_vars
    PROVE  StoredInv'
<1> SUFFICES ASSUME NEW d \in Devices
             PROVE  /\ pc'[d] = "mark" => Outgoing(d)' \subseteq OnRelay'
                    /\ synced'[d] \subseteq OnRelay'
  BY DEF StoredInv, MarksStored, SyncedIsStored
<1>1. OnRelay \subseteq OnRelay'
  BY RelayGrows DEF OnRelay
<1>2. /\ synced[d] \subseteq OnRelay
      /\ pc[d] = "mark" => Outgoing(d) \subseteq OnRelay
  BY DEF StoredInv, MarksStored, SyncedIsStored
<1>3. CASE Quiet(d)
  BY <1>1, <1>2, <1>3 DEF Quiet, Outgoing
<1>4. ASSUME EndCycle(d), synced'[d] \subseteq OnRelay'
      PROVE  /\ pc'[d] = "mark" => Outgoing(d)' \subseteq OnRelay'
             /\ synced'[d] \subseteq OnRelay'
  <2>1. pc'[d] = "idle"
    BY <1>4 DEF EndCycle, TypeInv, TypeOK
  <2> QED
    BY <1>4, <2>1
<1>5. CASE Stops(d)
  BY <1>1, <1>2, <1>4, <1>5 DEF Stops, store
<1>6. CASE Cycle(d)
  <2>1. CASE StartSync(d) \/ Pull(d) \/ PullNothing(d) \/ AdvanceSeq(d) \/ LoadUnsynced(d)
    <3>1. pc'[d] # "mark" /\ synced' = synced
      BY <2>1 DEF StartSync, Pull, PullNothing, AdvanceSeq, LoadUnsynced, Goto, store,
         TypeInv, TypeOK
    <3> QED
      BY <1>1, <1>2, <3>1
  <2>2. CASE ApplyCommits(d)
    <3>1. PICK n \in batch[d] : /\ TakeFromBatch(d, n)
                                /\ synced' = [synced EXCEPT ![d] = @ \cup {relay[n]}]
      BY <2>2 DEF ApplyCommits
    <3>2. relay[n] \in OnRelay
      BY DEF OnRelay, BatchesOnRelay
    <3>3. synced'[d] = synced[d] \cup {relay[n]} /\ pc'[d] = "apply"
      BY <3>1 DEF TakeFromBatch, TypeInv, TypeOK
    <3> QED
      BY <1>1, <1>2, <3>2, <3>3
  <2>3. CASE ApplyLoses(d) \/ ApplyErrors(d)
    <3>1. pc'[d] # "mark" /\ synced' = synced
      BY <2>3 DEF ApplyLoses, ApplyErrors, TakeFromBatch
    <3> QED
      BY <1>1, <1>2, <3>1
  <2>4. CASE AbortPull(d) \/ NothingToPush(d) \/ PushFails(d)
    BY <1>1, <1>2, <1>4, <2>4 DEF AbortPull, NothingToPush, PushFails, store
  <2>5. CASE Push(d)
    <3>1. relay \in Seq(Op) /\ outbox[d] \in Seq(Op)
      BY DEF TypeInv, TypeOK
    <3>2. relay' = relay \o outbox[d] /\ outbox' = outbox /\ synced' = synced
      BY <2>5 DEF Push, store
    <3>3. ASSUME NEW i \in DOMAIN outbox[d] PROVE outbox[d][i] \in OnRelay'
      <4>1. /\ Len(relay) + i \in DOMAIN relay'
            /\ relay'[Len(relay) + i] = outbox[d][i]
        BY <3>1, <3>2, ConcatProperties, LenProperties
      <4> QED
        BY <4>1 DEF OnRelay
    <3> QED
      BY <1>1, <1>2, <3>2, <3>3 DEF Outgoing
  <2>6. CASE MarkSynced(d)
    <3>1. synced'[d] = synced[d] \cup Outgoing(d) /\ Outgoing(d) \subseteq OnRelay
      BY <1>2, <2>6 DEF MarkSynced, TypeInv, TypeOK
    <3> QED
      BY <1>1, <1>2, <1>4, <2>6, <3>1 DEF MarkSynced
  <2> QED
    BY <1>6, <2>1, <2>2, <2>3, <2>4, <2>5, <2>6 DEF Cycle
<1> QED
  BY <1>3, <1>5, <1>6, StepOfDevice

\* No device ever holds an operation for synced that the relay has not stored,
\* whatever requests fail and wherever a cycle is cut.
THEOREM SyncedStored == Spec => []SyncedIsStored
<1>1. Init => TypeInv /\ BatchesOnRelay /\ StoredInv
  <2>1. Init => StoredInv
    BY DEF Init, StoredInv, MarksStored, SyncedIsStored
  <2> QED
    BY <2>1, TypeInit
<1>2. TypeInv /\ BatchesOnRelay /\ StoredInv /\ [Next]_vars
        => (TypeInv /\ BatchesOnRelay /\ StoredInv)'
  BY TypeStep, StoredStep
<1>3. StoredInv => SyncedIsStored
  BY DEF StoredInv
<1> QED
  BY <1>1, <1>2, <1>3, PTL DEF Spec
-----------------------------------------------------------------------------
(***************************************************************************)
(* CursorCovers.  The cycle holds two cursors, the one it has pulled to    *)
(* and the one it has stored; what lies behind the first is covered or     *)
(* still in the page, unless an operation of the page has failed.          *)
(***************************************************************************)
Beaten(d, op) ==
    \E o \in OnRow(oplog[d], op.row) :
        o.dev = d /\ lwwLocalWins(o.ts, o.dev, op.ts, op.dev)

Covered(d, n) == relay[n].dev # d => relay[n] \in oplog[d] \/ Beaten(d, relay[n])

CoveredTo(d, seq) == \A n \in DOMAIN relay : n <= seq => Covered(d, n)

CursorInv == \A d \in Devices :
    /\ lastSeq[d] <= Len(relay) /\ cursor[d] <= Len(relay)
    /\ pc[d] = "pull" => cursor[d] = lastSeq[d]
    /\ \A o \in UnsyncedOps(d) : o.dev = d
    /\ CoveredTo(d, lastSeq[d])
    /\ pc[d] = "apply" /\ ~failed[d] =>
          \A n \in DOMAIN relay : n <= cursor[d] => n \in batch[d] \/ Covered(d, n)

\* A page has no holes: it is the oldest part of what is pending.
LEMMA PageIsPrefix ==
    ASSUME NEW pending \in SUBSET Nat, NEW top \in Page(pending),
           NEW n \in pending, n <= top
    PROVE  n \in Page(pending)
<1> DEFINE below == {m \in pending : m <= n}
           upTo  == {m \in pending : m <= top}
<1>1. top \in Nat /\ n \in Nat /\ \A m \in pending : m \in Nat
  BY DEF Page
<1>2. below \subseteq upTo /\ upTo \subseteq 0..top
  <2>1. ASSUME NEW m \in pending, m <= n PROVE m <= top
    BY <1>1, <2>1
  <2>2. ASSUME NEW m \in pending, m <= top PROVE m \in 0..top
    BY <1>1, <2>2
  <2> QED
    BY <2>1, <2>2
<1>3. Cardinality(upTo) <= PageSize
  BY DEF Page
<1> SUFFICES Cardinality(below) <= PageSize
  BY DEF Page
<1> HIDE DEF below, upTo
<1>4. IsFiniteSet(0..top)
  BY <1>1, FS_Interval
<1>5. IsFiniteSet(upTo) /\ IsFiniteSet(below)
  BY <1>2, <1>4, FS_Subset
<1>6. /\ Cardinality(below) \in Nat /\ Cardinality(upTo) \in Nat
      /\ Cardinality(below) <= Cardinality(upTo)
  BY <1>2, <1>5, FS_Subset, FS_CardinalityType
<1> QED
  BY <1>3, <1>6, SyncEngineAssumption

\* What is covered stays covered: oplogs grow and the relay keeps what it has.
LEMMA CoveredStays ==
    ASSUME TypeInv, [Next]_vars, NEW d \in Devices, oplog[d] \subseteq oplog'[d],
           NEW n \in DOMAIN relay, Covered(d, n)
    PROVE  Covered(d, n)'
<1>1. relay'[n] = relay[n]
  BY RelayGrows
<1> QED
  BY <1>1 DEF Covered, Beaten, OnRow

\* A cycle and its end take nothing from the oplog either.
LEMMA OplogGrows ==
    ASSUME TypeInv, [Next]_vars, NEW d \in Devices
    PROVE  oplog[d] \subseteq oplog'[d]
<1>1. CASE Quiet(d)
  BY <1>1 DEF Quiet
<1>2. CASE Stops(d)
  BY <1>2 DEF Stops, store
<1>3. CASE ApplyCommits(d)
  BY <1>3 DEF ApplyCommits, TypeInv, TypeOK
<1>4. ASSUME Cycle(d), ~ApplyCommits(d) PROVE oplog' = oplog
  BY <1>4 DEF Cycle, StartSync, Pull, PullNothing, ApplyLoses, ApplyErrors, AbortPull,
     AdvanceSeq, LoadUnsynced, NothingToPush, Push, PushFails, MarkSynced, store
<1> QED
  BY <1>1, <1>2, <1>3, <1>4, StepOfDevice
\* A step of the cycle keeps every operation behind its two cursors covered.
LEMMA CursorCycle ==
    ASSUME TypeInv, BatchesOnRelay, CursorInv, [Next]_vars, NEW d \in Devices, Cycle(d)
    PROVE  /\ lastSeq'[d] <= Len(relay) /\ cursor'[d] <= Len(relay)
           /\ pc'[d] = "pull" => cursor'[d] = lastSeq'[d]
           /\ \A o \in UnsyncedOps(d)' : o.dev = d
           /\ \A n \in DOMAIN relay : n <= lastSeq'[d] => Covered(d, n)'
           /\ pc'[d] = "apply" /\ ~failed'[d] =>
                 \A n \in DOMAIN relay :
                    n <= cursor'[d] => n \in batch'[d] \/ Covered(d, n)'
<1> DEFINE Kept == \A n \in DOMAIN relay : Covered(d, n) => Covered(d, n)'
           Goal == /\ lastSeq'[d] <= Len(relay) /\ cursor'[d] <= Len(relay)
                   /\ pc'[d] = "pull" => cursor'[d] = lastSeq'[d]
                   /\ \A o \in UnsyncedOps(d)' : o.dev = d
                   /\ \A n \in DOMAIN relay : n <= lastSeq'[d] => Covered(d, n)'
                   /\ pc'[d] = "apply" /\ ~failed'[d] =>
                         \A n \in DOMAIN relay :
                            n <= cursor'[d] => n \in batch'[d] \/ Covered(d, n)'
<1> SUFFICES Goal
  OBVIOUS
<1>1. Kept
  BY OplogGrows, CoveredStays
<1>2. /\ lastSeq[d] <= Len(relay) /\ cursor[d] <= Len(relay)
      /\ pc[d] = "pull" => cursor[d] = lastSeq[d]
      /\ \A o \in UnsyncedOps(d) : o.dev = d
      /\ \A n \in DOMAIN relay : n <= lastSeq[d] => Covered(d, n)
      /\ pc[d] = "apply" /\ ~failed[d] =>
            \A n \in DOMAIN relay : n <= cursor[d] => n \in batch[d] \/ Covered(d, n)
  BY DEF CursorInv, CoveredTo
<1> HIDE DEF Kept
<1>3. DOMAIN relay = 1..Len(relay) /\ Len(relay) \in Nat
  BY RelayType
<1>4. ASSUME EndCycle(d), lastSeq' = lastSeq, oplog' = oplog, synced[d] \subseteq synced'[d]
      PROVE  Goal
  <2>1. pc'[d] = "idle" /\ cursor'[d] = 0
    BY <1>4 DEF EndCycle, TypeInv, TypeOK
  <2> QED
    BY <1>1, <1>2, <1>3, <1>4, <2>1 DEF Kept, UnsyncedOps
<1>5. CASE StartSync(d)
  <2>1. pc'[d] = "pull" /\ cursor'[d] = lastSeq[d] /\ UNCHANGED store
    BY <1>5 DEF StartSync, Goto, TypeInv, TypeOK
  <2> QED
    BY <1>1, <1>2, <2>1 DEF Kept, UnsyncedOps, store
<1>6. CASE Pull(d)
  <2> DEFINE pending == Pending(d, cursor[d])
  <2>1. PICK top \in Page(pending) : cursor' = [cursor EXCEPT ![d] = top]
    BY <1>6 DEF Pull
  <2>2. /\ pc[d] = "pull" /\ pc'[d] = "apply" /\ cursor'[d] = top
        /\ batch'[d] = Page(pending) /\ UNCHANGED store
    BY <1>6, <2>1 DEF Pull, Goto, TypeInv, TypeOK
  <2>3. pending \in SUBSET Nat /\ top \in DOMAIN relay
    <3>1. pending \subseteq DOMAIN relay /\ Page(pending) \subseteq pending
      BY DEF Pending, Page
    <3> QED
      BY <1>3, <3>1
  <2>4. ASSUME NEW n \in DOMAIN relay, n <= top
        PROVE  n \in Page(pending) \/ Covered(d, n)
    <3>1. CASE n <= cursor[d]
      BY <1>2, <2>2, <3>1
    <3>2. CASE relay[n].dev = d
      BY <3>2 DEF Covered
    <3>3. CASE ~(n <= cursor[d]) /\ relay[n].dev # d
      <4>1. n > cursor[d]
        BY <1>3, <3>3 DEF TypeInv, TypeOK
      <4>2. n \in pending
        BY <3>3, <4>1 DEF Pending
      <4> HIDE DEF pending
      <4> QED
        BY <2>3, <2>4, <4>2, PageIsPrefix
    <3> QED
      BY <3>1, <3>2, <3>3
  <2> QED
    BY <1>1, <1>2, <1>3, <2>2, <2>3, <2>4 DEF Kept, UnsyncedOps, store
<1>7. CASE PullNothing(d)
  <2>1. pc'[d] = "load" /\ UNCHANGED <<store, cursor>>
    BY <1>7 DEF PullNothing, Goto, TypeInv, TypeOK
  <2> QED
    BY <1>1, <1>2, <2>1 DEF Kept, UnsyncedOps, store
<1>8. ASSUME NEW n \in batch[d], TakeFromBatch(d, n), Covered(d, n)' \/ failed'[d],
             failed[d] => failed'[d], \A o \in UnsyncedOps(d)' : o \in UnsyncedOps(d)
      PROVE  Goal
  <2>1. /\ pc[d] = "apply" /\ pc'[d] = pc[d] /\ cursor' = cursor /\ lastSeq' = lastSeq
        /\ batch'[d] = batch[d] \ {n}
    BY <1>8 DEF TakeFromBatch, TypeInv, TypeOK
  <2> QED
    BY <1>1, <1>2, <1>8, <2>1 DEF Kept
<1>9. CASE ApplyCommits(d)
  <2>1. PICK n \in batch[d] :
          /\ TakeFromBatch(d, n)
          /\ oplog' = [oplog EXCEPT ![d] = @ \cup {relay[n]}]
          /\ synced' = [synced EXCEPT ![d] = @ \cup {relay[n]}]
          /\ UNCHANGED failed
    BY <1>9 DEF ApplyCommits
  <2>2. relay' = relay /\ relay[n] \in oplog'[d]
    BY <2>1 DEF TakeFromBatch, TypeInv, TypeOK
  <2>3. Covered(d, n)'
    BY <2>2 DEF Covered
  <2>4. \A o \in UnsyncedOps(d)' : o \in UnsyncedOps(d)
    BY <2>1 DEF UnsyncedOps, TypeInv, TypeOK
  <2> QED
    BY <1>8, <2>1, <2>3, <2>4
<1>10. CASE ApplyLoses(d)
  <2>1. PICK n \in batch[d] : TakeFromBatch(d, n) /\ LosesLocally(d, relay[n])
    BY <1>10 DEF ApplyLoses
  <2>2. UNCHANGED <<oplog, synced, failed, relay>>
    BY <1>10, <2>1 DEF ApplyLoses, TakeFromBatch
  <2>3. Beaten(d, relay[n])
    BY <1>2, <2>1 DEF LosesLocally, Beaten, OnRow, UnsyncedOps
  <2>4. Covered(d, n)'
    BY <2>2, <2>3 DEF Covered, Beaten, OnRow
  <2> QED
    BY <1>8, <2>1, <2>2, <2>4 DEF UnsyncedOps
<1>11. CASE ApplyErrors(d)
  <2>1. PICK n \in batch[d] : TakeFromBatch(d, n)
    BY <1>11 DEF ApplyErrors
  <2>2. failed'[d] /\ UNCHANGED <<oplog, synced>>
    BY <1>11 DEF ApplyErrors, TypeInv, TypeOK
  <2> QED
    BY <1>8, <2>1, <2>2 DEF UnsyncedOps
<1>12. CASE AbortPull(d) \/ NothingToPush(d) \/ PushFails(d)
  BY <1>4, <1>12 DEF AbortPull, NothingToPush, PushFails, store
<1>13. CASE AdvanceSeq(d)
  <2>1. /\ pc[d] = "apply" /\ batch[d] = {} /\ ~failed[d]
        /\ lastSeq'[d] = cursor[d] /\ cursor' = cursor /\ pc'[d] # "apply"
        /\ UNCHANGED <<oplog, synced>>
    BY <1>13 DEF AdvanceSeq, Goto, TypeInv, TypeOK
  <2> QED
    BY <1>1, <1>2, <2>1 DEF Kept, UnsyncedOps
<1>14. CASE LoadUnsynced(d) \/ Push(d)
  <2>1. pc'[d] \in {"send", "mark"} /\ UNCHANGED <<store, cursor>>
    BY <1>14 DEF LoadUnsynced, Push, Goto, TypeInv, TypeOK
  <2> QED
    BY <1>1, <1>2, <2>1 DEF Kept, UnsyncedOps, store
<1>15. CASE MarkSynced(d)
  BY <1>4, <1>15 DEF MarkSynced, TypeInv, TypeOK
<1> QED
  BY <1>5, <1>6, <1>7, <1>9, <1>10, <1>11, <1>12, <1>13, <1>14, <1>15 DEF Cycle

LEMMA CursorStep ==
    ASSUME TypeInv, BatchesOnRelay, CursorInv, [Next]_vars
    PROVE  CursorInv'
<1> SUFFICES ASSUME NEW d \in Devices
             PROVE  /\ lastSeq'[d] <= Len(relay') /\ cursor'[d] <= Len(relay')
                    /\ pc'[d] = "pull" => cursor'[d] = lastSeq'[d]
                    /\ \A o \in UnsyncedOps(d)' : o.dev = d
                    /\ CoveredTo(d, lastSeq[d])'
                    /\ pc'[d] = "apply" /\ ~failed'[d] =>
                          \A n \in DOMAIN relay' :
                            n <= cursor'[d] => n \in batch'[d] \/ Covered(d, n)'
  BY DEF CursorInv
<1>1. /\ lastSeq[d] <= Len(relay) /\ cursor[d] <= Len(relay)
      /\ pc[d] = "pull" => cursor[d] = lastSeq[d]
      /\ \A o \in UnsyncedOps(d) : o.dev = d
      /\ \A n \in DOMAIN relay : n <= lastSeq[d] => Covered(d, n)
      /\ pc[d] = "apply" /\ ~failed[d] =>
            \A n \in DOMAIN relay : n <= cursor[d] => n \in batch[d] \/ Covered(d, n)
  BY DEF CursorInv, CoveredTo
<1>2. \A n \in DOMAIN relay : Covered(d, n) => Covered(d, n)'
  BY OplogGrows, CoveredStays
<1>3. /\ lastSeq'[d] <= Len(relay) /\ cursor'[d] <= Len(relay)
      /\ pc'[d] = "pull" => cursor'[d] = lastSeq'[d]
      /\ \A o \in UnsyncedOps(d)' : o.dev = d
      /\ \A n \in DOMAIN relay : n <= lastSeq'[d] => Covered(d, n)'
      /\ pc'[d] = "apply" /\ ~failed'[d] =>
            \A n \in DOMAIN relay : n <= cursor'[d] => n \in batch'[d] \/ Covered(d, n)'
  <2>1. CASE Quiet(d)
    BY <1>1, <1>2, <2>1 DEF Quiet, UnsyncedOps
  <2>2. CASE Stops(d)
    <3>1. pc'[d] = "idle" /\ cursor'[d] = 0 /\ UNCHANGED <<lastSeq, oplog, synced>>
      BY <2>2 DEF Stops, EndCycle, store, TypeInv, TypeOK
    <3>2. 0 <= Len(relay)
      BY RelayType
    <3> QED
      BY <1>1, <1>2, <3>1, <3>2 DEF UnsyncedOps
  <2>3. CASE Cycle(d)
    BY <2>3, CursorCycle
  <2> QED
    BY <2>1, <2>2, <2>3, StepOfDevice
<1>4. /\ Len(relay) <= Len(relay') /\ Len(relay) \in Nat /\ Len(relay') \in Nat
      /\ DOMAIN relay = 1..Len(relay) /\ DOMAIN relay' = 1..Len(relay')
  <2>1. DOMAIN relay = 1..Len(relay) /\ Len(relay) \in Nat
    BY RelayType
  <2>2. DOMAIN relay' = 1..Len(relay') /\ Len(relay') \in Nat
    <3>1. relay' \in Seq(Op)
      BY TypeStep DEF TypeInv, TypeOK
    <3> QED
      BY <3>1, LenProperties
  <2> QED
    BY <2>1, <2>2, RelayGrows
<1>5. lastSeq'[d] \in Nat /\ cursor'[d] \in Nat
  BY TypeStep DEF TypeInv, TypeOK
<1>6. \A n \in DOMAIN relay' :
        n <= lastSeq'[d] \/ n <= cursor'[d] => n \in DOMAIN relay
  BY <1>3, <1>4, <1>5
<1> QED
  BY <1>3, <1>4, <1>5, <1>6 DEF CoveredTo

LEMMA CursorInit == Init => CursorInv
<1> SUFFICES ASSUME Init PROVE CursorInv
  OBVIOUS
<1>1. Len(relay) = 0 /\ \A n \in DOMAIN relay : FALSE
  BY DEF Init
<1>2. \A d \in Devices : /\ lastSeq[d] = 0 /\ cursor[d] = 0 /\ pc[d] = "idle"
                         /\ UnsyncedOps(d) = {}
  BY DEF Init, UnsyncedOps
<1>3. ASSUME NEW d \in Devices
      PROVE  /\ lastSeq[d] <= Len(relay) /\ cursor[d] <= Len(relay)
             /\ pc[d] # "pull" /\ pc[d] # "apply"
             /\ \A o \in UnsyncedOps(d) : o.dev = d
             /\ CoveredTo(d, lastSeq[d])
  <2>1. lastSeq[d] <= Len(relay) /\ cursor[d] <= Len(relay)
    BY <1>1, <1>2
  <2>2. CoveredTo(d, lastSeq[d])
    BY <1>1 DEF CoveredTo
  <2> QED
    BY <1>2, <2>1, <2>2
<1> QED
  BY <1>3 DEF CursorInv

\* No operation behind a stored cursor was skipped: it is in the device's
\* oplog, or a newer local operation on the row had beaten it.
THEOREM NoneSkipped == Spec => []CursorCovers
<1>1. Init => TypeInv /\ BatchesOnRelay /\ CursorInv
  BY TypeInit, CursorInit
<1>2. TypeInv /\ BatchesOnRelay /\ CursorInv /\ [Next]_vars
        => (TypeInv /\ BatchesOnRelay /\ CursorInv)'
  BY TypeStep, CursorStep
<1>3. CursorInv => CursorCovers
  BY DEF CursorInv, CoveredTo, Covered, Beaten, CursorCovers
<1> QED
  BY <1>1, <1>2, <1>3, PTL DEF Spec

-----------------------------------------------------------------------------
(***************************************************************************)
(* SyncEngine implements HouseholdLog: with a relay that refuses repeats,  *)
(* what devices push and pull is one shared log in which each device's     *)
(* operations stand once, in the order it made them, and of which each     *)
(* device knows a prefix.                                                  *)
(***************************************************************************)

\* The operations d made itself.
Own(d)   == {o \in oplog[d] : o.dev = d}
Saved(d) == edit[d] # NoEdit /\ edit[d].at # 0

\* Every operation of d shared so far is older than op.
Newest(d, op) == \A n \in DOMAIN relay : relay[n].dev = d => relay[n].ts < op.ts

-----------------------------------------------------------------------------
(***************************************************************************)
(* The inductive invariant: what d has yet to push is newer than all it    *)
(* has pushed, unless the answer to a push was lost and it is stored       *)
(* already; a push under way carries everything d made before it loaded;   *)
(* a page being applied ends at an operation of another device.            *)
(***************************************************************************)

\* A device's clock is ahead of everything it has recorded, and the operation
\* of a save under way is newer than everything recorded.
ClockAhead == \A d \in Devices :
    /\ \A o \in Own(d) : o.ts <= clock[d]
    /\ Saved(d) => edit[d].at <= clock[d] /\ \A o \in Own(d) : o.ts < edit[d].at

\* The relay has an operation from the device that made it.
SharedIsOwn == \A n \in DOMAIN relay : \A d \in Devices :
    relay[n].dev = d => relay[n] \in oplog[d]

UnsharedIsNewest == \A d \in Devices : \A o \in UnsyncedOps(d) :
    o \in OnRelay \/ Newest(d, o)

\* What a push carries: unsynced operations in the order they were made, and
\* none made before it was left behind.
PushInOrder == \A d \in Devices : pc[d] = "send" =>
    /\ Len(outbox[d]) > 0
    /\ Outgoing(d) \subseteq UnsyncedOps(d)
    /\ \A i, j \in DOMAIN outbox[d] : i < j => outbox[d][i].ts < outbox[d][j].ts
    /\ \A o \in UnsyncedOps(d) \ Outgoing(d) : \A p \in Outgoing(d) : p.ts < o.ts

PageEndsAbroad == \A d \in Devices : pc[d] = "apply" =>
    /\ cursor[d] \in DOMAIN relay /\ cursor[d] > lastSeq[d]
    /\ relay[cursor[d]].dev # d

LogInv == /\ ClockAhead /\ SharedIsOwn /\ UnsharedIsNewest
          /\ PushInOrder /\ PageEndsAbroad

-----------------------------------------------------------------------------
(***************************************************************************)
(* What a step does to the operations of one device.                       *)
(***************************************************************************)
ClockOf(d) ==
    /\ \A o \in Own(d) : o.ts <= clock[d]
    /\ Saved(d) => edit[d].at <= clock[d] /\ \A o \in Own(d) : o.ts < edit[d].at

\* What is new in d's oplog is an operation d just made, newer than all its own.
NewIsNewest(d) == \A o \in oplog'[d] \ oplog[d] :
    o.dev = d /\ \A p \in Own(d) : p.ts < o.ts

\* Operations have times and those of d are in its oplog.
LEMMA OwnType ==
    ASSUME TypeInv, NEW d \in Devices
    PROVE  /\ \A o \in Own(d) : o \in Op /\ o.ts \in Nat /\ o.dev = d
           /\ clock[d] \in Nat
           /\ Saved(d) => edit[d] \in Edit /\ edit[d].at \in Nat
BY DEF Own, Saved, TypeInv, TypeOK, Op, Edit, Times

\* Recording an operation newer than all of d's own, at a time on its clock.
LEMMA RecordNewest ==
    ASSUME TypeInv, NEW d \in Devices, NEW op \in Op, op.dev = d, RecordLocal(d, op),
           \A p \in Own(d) : p.ts < op.ts /\ p.ts <= clock'[d],
           op.ts <= clock'[d], edit'[d] = NoEdit
    PROVE  NewIsNewest(d) /\ ClockOf(d)'
<1>1. oplog'[d] = oplog[d] \cup {op}
  BY DEF RecordLocal, TypeInv, TypeOK
<1>2. NewIsNewest(d)
  BY <1>1 DEF NewIsNewest
<1>3. Own(d)' = Own(d) \cup {op}
  BY <1>1 DEF Own
<1> QED
  BY <1>2, <1>3 DEF ClockOf, Saved

LEMMA UINewest ==
    ASSUME TypeInv, NEW d \in Devices, ClockOf(d), UI(d)
    PROVE  NewIsNewest(d) /\ ClockOf(d)'
<1>1. /\ \A o \in Own(d) : o.ts \in Nat /\ o.ts <= clock[d]
      /\ clock[d] \in Nat
  BY OwnType DEF ClockOf
<1>2. ASSUME NEW r \in Rows, NEW t \in Times, NEW k \in Kinds, NEW row,
             Mutate(d, LocalOp(d, r, k, t), row)
      PROVE  NewIsNewest(d) /\ ClockOf(d)'
  <2> DEFINE op == LocalOp(d, r, k, t)
  <2>1. op \in Op /\ op.dev = d /\ op.ts = t
    BY LocalOpType
  <2>2. RecordLocal(d, op) /\ edit'[d] = NoEdit /\ Stamp(d, t)
    BY <1>2, <2>1 DEF Mutate
  <2>3. t \in Nat /\ t > clock[d] /\ clock'[d] = t
    BY <2>2 DEF Stamp, Times, TypeInv, TypeOK
  <2>4. /\ \A p \in Own(d) : p.ts < op.ts /\ p.ts <= clock'[d]
        /\ op.ts <= clock'[d]
    BY <1>1, <2>1, <2>3
  <2> QED
    BY <2>1, <2>2, <2>4, RecordNewest
<1>3. ASSUME NEW r \in Rows, NEW t \in Times,
             \/ Create(d, r, t) \/ SoftDelete(d, r, t)
             \/ Restore(d, r, t) \/ HardDelete(d, r, t)
      PROVE  NewIsNewest(d) /\ ClockOf(d)'
  BY <1>2, <1>3 DEF Create, SoftDelete, Restore, HardDelete, Kinds
<1>4. CASE SaveLog(d)
  <2> DEFINE op == LocalOp(d, edit[d].row, "update", edit[d].at)
  <2>1. Saved(d) /\ RecordLocal(d, op) /\ clock' = clock /\ edit'[d] = NoEdit
    BY <1>4 DEF SaveLog, Saved, TypeInv, TypeOK
  <2>2. edit[d].row \in Rows /\ edit[d].at \in Times
    BY <2>1, OwnType DEF Edit, Saved
  <2>3. op \in Op /\ op.dev = d /\ op.ts = edit[d].at
    BY <2>2, LocalOpType DEF Kinds
  <2>4. /\ \A p \in Own(d) : p.ts < op.ts /\ p.ts <= clock'[d]
        /\ op.ts <= clock'[d]
    BY <1>1, <2>1, <2>3 DEF ClockOf
  <2> QED
    BY <2>1, <2>3, <2>4, RecordNewest
<1>5. ASSUME NEW t \in Times, SaveRow(d, t)
      PROVE  NewIsNewest(d) /\ ClockOf(d)'
  <2>1. t \in Nat /\ t > clock[d] /\ clock'[d] = t /\ oplog' = oplog
    BY <1>5 DEF SaveRow, Stamp, Times, TypeInv, TypeOK
  <2>2. edit'[d].at = t
    BY <1>5 DEF SaveRow, Edit, TypeInv, TypeOK
  <2> QED
    BY <1>1, <2>1, <2>2 DEF NewIsNewest, ClockOf, Own, Saved
<1>6. ASSUME CancelForm(d) \/ (\E r \in Rows : OpenForm(d, r))
      PROVE  NewIsNewest(d) /\ ClockOf(d)'
  <2>1. clock' = clock /\ oplog' = oplog
    BY <1>6 DEF CancelForm, OpenForm, store
  <2>2. edit'[d] = NoEdit \/ edit'[d].at = 0
    BY <1>6 DEF CancelForm, OpenForm, TypeInv, TypeOK
  <2> QED
    BY <1>1, <2>1, <2>2 DEF NewIsNewest, ClockOf, Own, Saved
<1> QED
  BY <1>3, <1>4, <1>5, <1>6 DEF UI

\* A pulled operation is recorded if the oplog lacks it: the relay has nothing
\* of d's that d lacks, so it is not d's own.
LEMMA CycleOwn ==
    ASSUME TypeInv, BatchesOnRelay, SharedIsOwn, NEW d \in Devices, Cycle(d)
    PROVE  /\ Own(d)' = Own(d) /\ UNCHANGED uiVars
           /\ \A o \in oplog'[d] \ oplog[d] : o \in synced'[d]
<1>1. CASE ApplyCommits(d)
  <2>1. PICK n \in batch[d] :
          /\ TakeFromBatch(d, n) /\ ~ApplyFails(d, relay[n])
          /\ oplog' = [oplog EXCEPT ![d] = @ \cup {relay[n]}]
          /\ synced' = [synced EXCEPT ![d] = @ \cup {relay[n]}]
    BY <1>1 DEF ApplyCommits
  <2>2. /\ oplog'[d] = oplog[d] \cup {relay[n]}
        /\ synced'[d] = synced[d] \cup {relay[n]}
        /\ UNCHANGED uiVars
    BY <2>1 DEF TakeFromBatch, TypeInv, TypeOK
  <2>3. n \in DOMAIN relay /\ relay[n] \notin oplog[d]
    BY <2>1 DEF BatchesOnRelay, ApplyFails
  <2>4. relay[n].dev # d
    BY <2>3 DEF SharedIsOwn
  <2> QED
    BY <2>2, <2>4 DEF Own
<1>2. ASSUME ~ApplyCommits(d) PROVE oplog' = oplog /\ UNCHANGED uiVars
  BY <1>2 DEF Cycle, StartSync, Pull, PullNothing, ApplyLoses, ApplyErrors,
     TakeFromBatch, AbortPull, AdvanceSeq, LoadUnsynced, NothingToPush, Push, PushFails,
     MarkSynced, store
<1> QED
  BY <1>1, <1>2 DEF Own

\* Both for any step, seen from one device.
LEMMA StepNewest ==
    ASSUME TypeInv, BatchesOnRelay, LogInv, [Next]_vars, NEW d \in Devices
    PROVE  /\ ClockOf(d)'
           /\ oplog[d] \subseteq oplog'[d]
           /\ \A o \in oplog'[d] \ oplog[d] :
                 \/ o.dev = d /\ \A p \in Own(d) : p.ts < o.ts
                 \/ o \in synced'[d]
<1>1. ClockOf(d) /\ SharedIsOwn
  BY DEF LogInv, ClockAhead, ClockOf
<1>2. oplog[d] \subseteq oplog'[d]
  BY OplogGrows
<1>3. CASE UI(d)
  BY <1>1, <1>2, <1>3, UINewest DEF NewIsNewest
<1>4. CASE Cycle(d)
  <2>1. /\ Own(d)' = Own(d) /\ UNCHANGED <<clock, edit>>
        /\ \A o \in oplog'[d] \ oplog[d] : o \in synced'[d]
    BY <1>1, <1>4, CycleOwn DEF uiVars
  <2> QED
    BY <1>1, <1>2, <2>1 DEF ClockOf, Saved
<1>5. CASE SyncFails(d) \/ CrashMidSave(d) \/ UNCHANGED vars
  <2>1. oplog' = oplog /\ clock' = clock /\ (edit'[d] = edit[d] \/ edit'[d] = NoEdit)
    BY <1>5 DEF SyncFails, CrashMidSave, store, uiVars, vars, TypeInv, TypeOK
  <2> QED
    BY <1>1, <2>1 DEF ClockOf, Own, Saved
<1>6. ASSUME NEW e \in Devices, e # d,
             UI(e) \/ Cycle(e) \/ SyncFails(e) \/ CrashMidSave(e)
      PROVE  /\ oplog'[d] = oplog[d] /\ clock'[d] = clock[d] /\ edit'[d] = edit[d]
  <2> USE DEF TypeInv, TypeOK
  <2>1. CASE UI(e)
    <3>1. ASSUME NEW op, NEW row, Mutate(e, op, row)
          PROVE  oplog'[d] = oplog[d] /\ clock'[d] = clock[d] /\ edit'[d] = edit[d]
      BY <1>6, <3>1 DEF Mutate, Stamp, RecordLocal
    <3>2. ASSUME NEW t \in Times, SaveRow(e, t)
          PROVE  oplog'[d] = oplog[d] /\ clock'[d] = clock[d] /\ edit'[d] = edit[d]
      BY <1>6, <3>2 DEF SaveRow, Stamp
    <3>3. ASSUME SaveLog(e) \/ CancelForm(e) \/ \E r \in Rows : OpenForm(e, r)
          PROVE  oplog'[d] = oplog[d] /\ clock'[d] = clock[d] /\ edit'[d] = edit[d]
      BY <1>6, <3>3 DEF SaveLog, CancelForm, OpenForm, RecordLocal, store
    <3> QED
      BY <2>1, <3>1, <3>2, <3>3 DEF UI, Create, SoftDelete, Restore, HardDelete
  <2>2. CASE Cycle(e)
    BY <1>6, <2>2 DEF Cycle, StartSync, Pull, PullNothing, ApplyCommits, ApplyLoses,
       ApplyErrors, TakeFromBatch, AbortPull, AdvanceSeq, LoadUnsynced, NothingToPush,
       Push, PushFails, MarkSynced, store, uiVars
  <2>3. CASE SyncFails(e) \/ CrashMidSave(e)
    BY <1>6, <2>3 DEF SyncFails, CrashMidSave, store, uiVars
  <2> QED
    BY <1>6, <2>1, <2>2, <2>3
<1>7. ASSUME NEW e \in Devices, e # d,
             UI(e) \/ Cycle(e) \/ SyncFails(e) \/ CrashMidSave(e)
      PROVE  ClockOf(d)'
  BY <1>1, <1>6, <1>7 DEF ClockOf, Own, Saved
<1> QED
  BY <1>2, <1>3, <1>4, <1>5, <1>6, <1>7 DEF Next

\* The relay gains what one device pushes, and nothing else.
LEMMA RelayStep ==
    ASSUME TypeInv, [Next]_vars
    PROVE  relay' = relay \/ \E e \in Devices : Push(e)
<1>1. ASSUME NEW d \in Devices, UI(d) PROVE relay' = relay
  BY <1>1 DEF UI, Create, SoftDelete, Restore, HardDelete, Mutate, RecordLocal,
     OpenForm, SaveRow, CancelForm, SaveLog
<1>2. ASSUME NEW d \in Devices, Cycle(d), ~Push(d) PROVE relay' = relay
  BY <1>2 DEF Cycle, StartSync, Pull, PullNothing, ApplyCommits, ApplyLoses,
     ApplyErrors, TakeFromBatch, AbortPull, AdvanceSeq, LoadUnsynced, NothingToPush,
     PushFails, MarkSynced
<1>3. ASSUME NEW d \in Devices, SyncFails(d) \/ CrashMidSave(d) PROVE relay' = relay
  BY <1>3 DEF SyncFails, CrashMidSave
<1> QED
  BY <1>1, <1>2, <1>3 DEF Next, vars

\* Where a push puts its operations.
LEMMA Pushed ==
    ASSUME TypeInv, NEW e \in Devices, Push(e)
    PROVE  /\ Len(relay) \in Nat /\ Len(outbox[e]) \in Nat
           /\ DOMAIN outbox[e] = 1..Len(outbox[e])
           /\ DOMAIN relay = 1..Len(relay)
           /\ Len(relay') = Len(relay) + Len(outbox[e])
           /\ DOMAIN relay' = 1..(Len(relay) + Len(outbox[e]))
           /\ \A n \in 1..Len(relay) : relay'[n] = relay[n]
           /\ \A i \in DOMAIN outbox[e] : relay'[Len(relay) + i] = outbox[e][i]
           /\ \A n \in DOMAIN relay' :
                n \notin DOMAIN relay => /\ n - Len(relay) \in DOMAIN outbox[e]
                                         /\ relay'[n] = outbox[e][n - Len(relay)]
                                         /\ relay'[n] \in Outgoing(e)
<1>1. relay \in Seq(Op) /\ outbox[e] \in Seq(Op) /\ relay' = relay \o outbox[e]
  BY DEF Push, TypeInv, TypeOK
<1>2. /\ Len(relay) \in Nat /\ Len(outbox[e]) \in Nat
      /\ DOMAIN outbox[e] = 1..Len(outbox[e]) /\ DOMAIN relay = 1..Len(relay)
      /\ relay' \in Seq(Op) /\ Len(relay') = Len(relay) + Len(outbox[e])
      /\ DOMAIN relay' = 1..(Len(relay) + Len(outbox[e]))
      /\ \A n \in 1..Len(relay) : relay'[n] = relay[n]
      /\ \A n \in 1..(Len(relay) + Len(outbox[e])) :
            n > Len(relay) => relay'[n] = outbox[e][n - Len(relay)]
  BY <1>1, ConcatProperties, LenProperties
<1>3. \A i \in DOMAIN outbox[e] : relay'[Len(relay) + i] = outbox[e][i]
  <2> SUFFICES ASSUME NEW i \in 1..Len(outbox[e])
               PROVE  relay'[Len(relay) + i] = outbox[e][i]
    BY <1>2
  <2>1. /\ Len(relay) + i \in 1..(Len(relay) + Len(outbox[e]))
        /\ Len(relay) + i > Len(relay) /\ (Len(relay) + i) - Len(relay) = i
    BY <1>2
  <2> QED
    BY <1>2, <2>1
<1>4. ASSUME NEW n \in DOMAIN relay', n \notin DOMAIN relay
      PROVE  /\ n - Len(relay) \in DOMAIN outbox[e]
             /\ relay'[n] = outbox[e][n - Len(relay)]
             /\ relay'[n] \in Outgoing(e)
  <2>1. n - Len(relay) \in DOMAIN outbox[e] /\ relay'[n] = outbox[e][n - Len(relay)]
    BY <1>2, <1>4
  <2> QED
    BY <2>1 DEF Outgoing
<1> QED
  BY <1>2, <1>3, <1>4

-----------------------------------------------------------------------------
(***************************************************************************)
(* The invariant is inductive.                                             *)
(***************************************************************************)

\* What the relay holds of d after a step, d had recorded before it.
LEMMA SharedStep ==
    ASSUME TypeInv, BatchesOnRelay, CursorInv, LogInv, [Next]_vars,
           NEW d \in Devices, NEW n \in DOMAIN relay', relay'[n].dev = d
    PROVE  relay'[n] \in oplog[d]
<1>1. CASE n \in DOMAIN relay
  BY <1>1, RelayGrows DEF LogInv, SharedIsOwn
<1>2. CASE n \notin DOMAIN relay
  <2>1. PICK e \in Devices : Push(e)
    BY <1>2, RelayStep
  <2>2. relay'[n] \in Outgoing(e) /\ pc[e] = "send"
    BY <1>2, <2>1, Pushed DEF Push
  <2>3. relay'[n] \in UnsyncedOps(e)
    BY <2>2 DEF LogInv, PushInOrder
  <2>4. relay'[n].dev = e /\ relay'[n] \in oplog[e]
    BY <2>3 DEF CursorInv, UnsyncedOps
  <2> QED
    BY <2>4
<1> QED
  BY <1>1, <1>2

LEMMA UnsharedStep ==
    ASSUME TypeInv, BatchesOnRelay, CursorInv, LogInv, [Next]_vars,
           NEW d \in Devices, NEW o \in UnsyncedOps(d)'
    PROVE  o \in OnRelay' \/ Newest(d, o)'
<1>1. \A n \in DOMAIN relay' : relay'[n].dev = d => relay'[n] \in Own(d)
  BY SharedStep DEF Own
<1>2. OnRelay \subseteq OnRelay'
  BY RelayGrows DEF OnRelay
<1>3. o \in oplog'[d] /\ o \notin synced'[d]
  BY DEF UnsyncedOps
<1>4. CASE o \notin oplog[d]
  <2>1. \A p \in Own(d) : p.ts < o.ts
    BY <1>3, <1>4, StepNewest
  <2> QED
    BY <1>1, <2>1 DEF Newest
<1>5. CASE o \in oplog[d]
  <2>1. synced[d] \subseteq synced'[d]
    <3>1. CASE Quiet(d) \/ Stops(d)
      BY <3>1 DEF Quiet, Stops, store
    <3>2. CASE Cycle(d)
      BY <3>2 DEF Cycle, StartSync, Pull, PullNothing, ApplyCommits, ApplyLoses,
         ApplyErrors, TakeFromBatch, AbortPull, AdvanceSeq, LoadUnsynced, NothingToPush,
         Push, PushFails, MarkSynced, store, TypeInv, TypeOK
    <3> QED
      BY <3>1, <3>2, StepOfDevice
  <2>2. o \in UnsyncedOps(d)
    BY <1>3, <1>5, <2>1 DEF UnsyncedOps
  <2>3. o \in OnRelay \/ Newest(d, o)
    BY <2>2 DEF LogInv, UnsharedIsNewest
  <2>4. CASE relay' = relay
    BY <2>3, <2>4 DEF OnRelay, Newest
  <2>5. ASSUME NEW e \in Devices, Push(e), Newest(d, o)
        PROVE  o \in OnRelay' \/ Newest(d, o)'
    <3>1. pc[e] = "send"
      BY <2>5 DEF Push
    <3>2. CASE o \in Outgoing(e)
      <4>1. PICK i \in DOMAIN outbox[e] : o = outbox[e][i]
        BY <3>2 DEF Outgoing
      <4>2. Len(relay) + i \in DOMAIN relay' /\ relay'[Len(relay) + i] = o
        BY <2>5, <4>1, Pushed
      <4> QED
        BY <4>2 DEF OnRelay
    <3>3. CASE o \notin Outgoing(e)
      <4>1. ASSUME NEW n \in DOMAIN relay', relay'[n].dev = d
            PROVE  relay'[n].ts < o.ts
        <5>1. CASE n \in DOMAIN relay
          BY <2>5, <4>1, <5>1, RelayGrows DEF Newest
        <5>2. CASE n \notin DOMAIN relay
          <6>1. relay'[n] \in Outgoing(e)
            BY <2>5, <5>2, Pushed
          <6>2. relay'[n].dev = e
            BY <3>1, <6>1 DEF LogInv, PushInOrder, CursorInv
          <6> QED
            BY <2>2, <3>1, <3>3, <4>1, <6>1, <6>2 DEF LogInv, PushInOrder
        <5> QED
          BY <5>1, <5>2
      <4> QED
        BY <4>1 DEF Newest
    <3> QED
      BY <3>2, <3>3
  <2> QED
    BY <1>2, <2>3, <2>4, <2>5, RelayStep
<1> QED
  BY <1>4, <1>5

SendOf(d) ==
    /\ Len(outbox[d]) > 0
    /\ Outgoing(d) \subseteq UnsyncedOps(d)
    /\ \A i, j \in DOMAIN outbox[d] : i < j => outbox[d][i].ts < outbox[d][j].ts
    /\ \A o \in UnsyncedOps(d) \ Outgoing(d) : \A p \in Outgoing(d) : p.ts < o.ts

LEMMA PushStep ==
    ASSUME TypeInv, BatchesOnRelay, CursorInv, LogInv, [Next]_vars,
           NEW d \in Devices, pc'[d] = "send"
    PROVE  SendOf(d)'
<1>1. CASE Quiet(d)
  <2>1. pc[d] = "send" /\ SendOf(d)
    BY <1>1 DEF Quiet, LogInv, PushInOrder, SendOf
  <2>2. outbox'[d] = outbox[d] /\ Outgoing(d)' = Outgoing(d)
    BY <1>1 DEF Quiet, Outgoing
  <2>3. UnsyncedOps(d) \subseteq UnsyncedOps(d)'
    BY <1>1 DEF Quiet, UnsyncedOps
  <2>4. Outgoing(d) \subseteq Own(d)
    BY <2>1 DEF SendOf, CursorInv, UnsyncedOps, Own
  <2>5. \A o \in UnsyncedOps(d)' \ UnsyncedOps(d) : \A p \in Own(d) : p.ts < o.ts
    <3>1. ASSUME NEW o \in UnsyncedOps(d)', o \notin UnsyncedOps(d)
          PROVE  o \in oplog'[d] \ oplog[d] /\ o \notin synced'[d]
      BY <1>1, <3>1 DEF Quiet, UnsyncedOps
    <3> QED
      BY <3>1, StepNewest
  <2> QED
    BY <2>1, <2>2, <2>3, <2>4, <2>5 DEF SendOf
<1>2. CASE Stops(d)
  BY <1>2 DEF Stops, EndCycle, TypeInv, TypeOK
<1>3. CASE Cycle(d)
  <2>1. CASE LoadUnsynced(d)
    <3> DEFINE ops == UnsyncedOps(d)
    <3>1. PICK s \in InOrder(ops) : outbox' = [outbox EXCEPT ![d] = s]
      BY <2>1 DEF LoadUnsynced
    <3>2. outbox'[d] = s /\ UnsyncedOps(d)' = ops /\ ops # {}
      BY <2>1, <3>1 DEF LoadUnsynced, UnsyncedOps, store, TypeInv, TypeOK
    <3>3. /\ s \in [1..Cardinality(ops) -> ops]
          /\ \A o \in ops : \E i \in DOMAIN s : s[i] = o
          /\ \A i, j \in DOMAIN s : i < j => s[i].ts < s[j].ts
      BY <3>1 DEF InOrder
    <3>4. Outgoing(d)' = ops
      BY <3>2, <3>3 DEF Outgoing
    <3>5. s \in Seq(Op)
      BY <3>1, InOrderType, FS_Difference DEF TypeInv, TypeOK, FiniteOplogs, UnsyncedOps
    <3>6. Len(s) > 0
      <4>1. PICK o \in ops : TRUE
        BY <3>2
      <4>2. PICK i \in DOMAIN s : s[i] = o
        BY <3>3, <4>1
      <4> QED
        BY <3>5, <4>2, LenProperties
    <3> QED
      BY <3>2, <3>3, <3>4, <3>6 DEF SendOf
  <2>2. CASE ~LoadUnsynced(d)
    <3>1. CASE AbortPull(d) \/ NothingToPush(d) \/ PushFails(d) \/ MarkSynced(d)
      BY <3>1 DEF AbortPull, NothingToPush, PushFails, MarkSynced, EndCycle, TypeInv,
         TypeOK
    <3>2. CASE ApplyCommits(d) \/ ApplyLoses(d) \/ ApplyErrors(d)
      BY <3>2 DEF ApplyCommits, ApplyLoses, ApplyErrors, TakeFromBatch
    <3>3. CASE StartSync(d) \/ Pull(d) \/ PullNothing(d) \/ AdvanceSeq(d) \/ Push(d)
      BY <3>3 DEF StartSync, Pull, PullNothing, AdvanceSeq, Push, Goto, TypeInv, TypeOK
    <3> QED
      BY <1>3, <2>2, <3>1, <3>2, <3>3 DEF Cycle
  <2> QED
    BY <2>1, <2>2
<1> QED
  BY <1>1, <1>2, <1>3, StepOfDevice

PageOf(d) ==
    /\ cursor[d] \in DOMAIN relay /\ cursor[d] > lastSeq[d]
    /\ relay[cursor[d]].dev # d

LEMMA PageStep ==
    ASSUME TypeInv, BatchesOnRelay, CursorInv, LogInv, [Next]_vars,
           NEW d \in Devices, pc'[d] = "apply"
    PROVE  PageOf(d)'
<1>1. /\ DOMAIN relay \subseteq DOMAIN relay'
      /\ \A n \in DOMAIN relay : relay'[n] = relay[n]
  BY RelayGrows
<1>2. ASSUME pc[d] = "apply", cursor'[d] = cursor[d], lastSeq'[d] = lastSeq[d]
      PROVE  PageOf(d)'
  BY <1>1, <1>2 DEF LogInv, PageEndsAbroad, PageOf
<1>3. CASE Quiet(d)
  BY <1>2, <1>3 DEF Quiet
<1>4. CASE Stops(d)
  BY <1>4 DEF Stops, EndCycle, TypeInv, TypeOK
<1>5. CASE Cycle(d)
  <2>1. CASE Pull(d)
    <3>1. PICK top \in Page(Pending(d, cursor[d])) : cursor' = [cursor EXCEPT ![d] = top]
      BY <2>1 DEF Pull
    <3>2. top \in DOMAIN relay /\ top > cursor[d] /\ relay[top].dev # d
      BY DEF Page, Pending
    <3>3. /\ pc[d] = "pull" /\ cursor'[d] = top /\ relay' = relay
          /\ lastSeq'[d] = lastSeq[d]
      BY <2>1, <3>1 DEF Pull, store, TypeInv, TypeOK
    <3>4. cursor[d] = lastSeq[d]
      BY <3>3 DEF CursorInv
    <3> QED
      BY <3>2, <3>3, <3>4 DEF PageOf
  <2>2. CASE ApplyCommits(d) \/ ApplyLoses(d) \/ ApplyErrors(d)
    BY <1>2, <2>2 DEF ApplyCommits, ApplyLoses, ApplyErrors, TakeFromBatch
  <2>3. CASE AbortPull(d) \/ NothingToPush(d) \/ PushFails(d) \/ MarkSynced(d)
    BY <2>3 DEF AbortPull, NothingToPush, PushFails, MarkSynced, EndCycle, TypeInv,
       TypeOK
  <2>4. CASE StartSync(d) \/ PullNothing(d) \/ AdvanceSeq(d) \/ LoadUnsynced(d) \/ Push(d)
    BY <2>4 DEF StartSync, PullNothing, AdvanceSeq, LoadUnsynced, Push, Goto, TypeInv,
       TypeOK
  <2> QED
    BY <1>5, <2>1, <2>2, <2>3, <2>4 DEF Cycle
<1> QED
  BY <1>3, <1>4, <1>5, StepOfDevice

LEMMA LogStep ==
    ASSUME TypeInv, BatchesOnRelay, CursorInv, LogInv, [Next]_vars
    PROVE  LogInv'
<1>1. ClockAhead'
  BY StepNewest DEF ClockAhead, ClockOf
<1>2. SharedIsOwn'
  <2> SUFFICES ASSUME NEW n \in DOMAIN relay', NEW d \in Devices, relay'[n].dev = d
               PROVE  relay'[n] \in oplog'[d]
    BY DEF SharedIsOwn
  <2> QED
    BY SharedStep, StepNewest
<1>3. UnsharedIsNewest'
  BY UnsharedStep DEF UnsharedIsNewest
<1>4. PushInOrder'
  BY PushStep DEF PushInOrder, SendOf
<1>5. PageEndsAbroad'
  BY PageStep DEF PageEndsAbroad, PageOf
<1> QED
  BY <1>1, <1>2, <1>3, <1>4, <1>5 DEF LogInv

-----------------------------------------------------------------------------
(***************************************************************************)
(* Step by step: a push publishes, a stored cursor learns, and every other *)
(* step of the engine is none of the shared log's.                         *)
(***************************************************************************)
LEMMA PushPublishes ==
    ASSUME RejectRepeats, TypeInv, CursorInv, LogInv, NEW d \in Devices, Push(d)
    PROVE  Shared!Publish(d)
<1>1. /\ pc[d] = "send" /\ Outgoing(d) \cap OnRelay = {} /\ lastSeq' = lastSeq
  BY DEF Push, PushRefused, store
<1>2. SendOf(d)
  BY <1>1 DEF LogInv, PushInOrder, SendOf
<1>3. \A o \in Outgoing(d) : o.dev = d /\ Newest(d, o)
  BY <1>1, <1>2 DEF SendOf, LogInv, UnsharedIsNewest, CursorInv
<1>4. Len(relay') > Len(relay)
  BY <1>2, Pushed DEF SendOf
<1>5. ASSUME NEW i \in (Len(relay) + 1)..Len(relay')
      PROVE  /\ relay'[i].dev = d
             /\ \A j \in 1..(i - 1) : relay'[j].dev = d => relay'[j].ts < relay'[i].ts
  <2>1. /\ i \in DOMAIN relay' /\ i \notin DOMAIN relay
        /\ i - Len(relay) \in DOMAIN outbox[d]
        /\ relay'[i] = outbox[d][i - Len(relay)] /\ relay'[i] \in Outgoing(d)
    <3>1. i \in DOMAIN relay' /\ i \notin DOMAIN relay
      BY Pushed
    <3> QED
      BY <3>1, Pushed
  <2>2. ASSUME NEW j \in 1..(i - 1), relay'[j].dev = d
        PROVE  relay'[j].ts < relay'[i].ts
    <3>1. j \in DOMAIN relay' /\ j < i
      BY Pushed
    <3>2. CASE j \in DOMAIN relay
      <4>1. relay'[j] = relay[j]
        BY <3>2, Pushed
      <4>2. Newest(d, relay'[i])
        BY <1>3, <2>1
      <4> QED
        BY <2>2, <3>2, <4>1, <4>2 DEF Newest
    <3>3. CASE j \notin DOMAIN relay
      <4>1. /\ j - Len(relay) \in DOMAIN outbox[d]
            /\ relay'[j] = outbox[d][j - Len(relay)]
        BY <3>1, <3>3, Pushed
      <4>2. j - Len(relay) < i - Len(relay)
        BY <3>1, Pushed
      <4> QED
        BY <1>2, <2>1, <4>1, <4>2 DEF SendOf
    <3> QED
      BY <3>2, <3>3
  <2> QED
    BY <1>3, <2>1, <2>2
<1>6. \A i \in 1..Len(relay) : relay'[i] = relay[i]
  BY Pushed
<1> QED
  BY <1>1, <1>4, <1>5, <1>6 DEF Shared!Publish

LEMMA AdvanceLearns ==
    ASSUME TypeInv, LogInv, NEW d \in Devices, AdvanceSeq(d)
    PROVE  Shared!Learn(d)
<1>1. /\ pc[d] = "apply" /\ relay' = relay
      /\ lastSeq' = [lastSeq EXCEPT ![d] = cursor[d]]
  BY DEF AdvanceSeq
<1>2. /\ cursor[d] \in DOMAIN relay /\ cursor[d] > lastSeq[d]
      /\ relay[cursor[d]].dev # d
  BY <1>1 DEF LogInv, PageEndsAbroad
<1>3. cursor[d] \in (lastSeq[d] + 1)..Len(relay)
  BY <1>2, RelayType DEF TypeInv, TypeOK
<1> QED
  BY <1>1, <1>2, <1>3 DEF Shared!Learn

LEMMA OthersStutter ==
    ASSUME TypeInv, [Next]_vars, \A d \in Devices : ~Push(d) /\ ~AdvanceSeq(d)
    PROVE  UNCHANGED <<relay, lastSeq>>
<1>1. ASSUME NEW d \in Devices, UI(d) PROVE lastSeq' = lastSeq
  BY <1>1 DEF UI, Create, SoftDelete, Restore, HardDelete, Mutate, RecordLocal,
     OpenForm, SaveRow, CancelForm, SaveLog, store
<1>2. ASSUME NEW d \in Devices, Cycle(d) PROVE lastSeq' = lastSeq
  BY <1>2 DEF Cycle, StartSync, Pull, PullNothing, ApplyCommits, ApplyLoses,
     ApplyErrors, TakeFromBatch, AbortPull, LoadUnsynced, NothingToPush,
     PushFails, MarkSynced, store
<1>3. ASSUME NEW d \in Devices, SyncFails(d) \/ CrashMidSave(d) PROVE lastSeq' = lastSeq
  BY <1>3 DEF SyncFails, CrashMidSave, store
<1> QED
  BY <1>1, <1>2, <1>3, RelayStep DEF Next, vars, store

\* Whatever requests and answers are lost, with a relay that refuses an
\* operation it has, the relay's log and the stored cursors are one shared log:
\* each device's operations stand there once and in the order it made them.
THEOREM LogImplemented ==
    ASSUME RejectRepeats
    PROVE  Spec => ImplementsHouseholdLog
<1> DEFINE Inv == TypeInv /\ BatchesOnRelay /\ CursorInv /\ LogInv
<1>1. Init => Inv
  <2> SUFFICES ASSUME Init PROVE Inv
    OBVIOUS
  <2>1. LogInv
    <3>1. \A d \in Devices : /\ Own(d) = {} /\ UnsyncedOps(d) = {} /\ pc[d] = "idle"
                             /\ ~Saved(d)
      BY DEF Init, Own, UnsyncedOps, Saved
    <3>2. \A n \in DOMAIN relay : FALSE
      BY DEF Init
    <3> QED
      BY <3>1, <3>2 DEF LogInv, ClockAhead, SharedIsOwn, UnsharedIsNewest, PushInOrder,
         PageEndsAbroad
  <2> QED
    BY <2>1, TypeInit, CursorInit
<1>2. Inv /\ [Next]_vars => Inv'
  BY TypeStep, CursorStep, LogStep
<1>3. Init => Shared!Init
  BY DEF Init, Shared!Init
<1>4. Inv /\ [Next]_vars => [Shared!Next]_<<relay, lastSeq>>
  BY PushPublishes, AdvanceLearns, OthersStutter DEF Shared!Next
<1> QED
  BY <1>1, <1>2, <1>3, <1>4, PTL DEF Spec, ImplementsHouseholdLog, Shared!Spec


-----------------------------------------------------------------------------
(***************************************************************************)
(* UncontestedRowsConverge.  What a step does, seen by all devices at      *)
(* once: one device acts, and either records an operation of its own,      *)
(* commits one from the relay, changes its form, pushes, or only moves its *)
(* cycle.                                                                  *)
(***************************************************************************)
Acts(d) == UI(d) \/ Cycle(d) \/ SyncFails(d) \/ CrashMidSave(d)

\* Nothing of device e changes.
Still(e) ==
    /\ table'[e] = table[e] /\ oplog'[e] = oplog[e] /\ synced'[e] = synced[e]
    /\ edit'[e] = edit[e] /\ lastSeq'[e] = lastSeq[e] /\ pc'[e] = pc[e]
    /\ cursor'[e] = cursor[e] /\ batch'[e] = batch[e] /\ failed'[e] = failed[e]
    /\ outbox'[e] = outbox[e]

\* A device writes nothing of another's.
LEMMA OthersStill ==
    ASSUME TypeInv, NEW d \in Devices, Acts(d), NEW e \in Devices, e # d
    PROVE  Still(e)
<1> USE DEF Still, TypeInv, TypeOK, store, uiVars, cycle
<1>1. ASSUME NEW op, NEW row, Mutate(d, op, row) PROVE Still(e)
  BY <1>1 DEF Mutate, Stamp, RecordLocal
<1>2. ASSUME NEW r \in Rows, NEW t \in Times,
             Create(d, r, t) \/ SoftDelete(d, r, t) \/ Restore(d, r, t) \/ HardDelete(d, r, t)
      PROVE  Still(e)
  BY <1>1, <1>2 DEF Create, SoftDelete, Restore, HardDelete
<1>3. ASSUME NEW r \in Rows, OpenForm(d, r) PROVE Still(e)
  BY <1>3 DEF OpenForm
<1>4. ASSUME NEW t \in Times, SaveRow(d, t) PROVE Still(e)
  BY <1>4 DEF SaveRow, Stamp
<1>5. CASE CancelForm(d) \/ SaveLog(d)
  BY <1>5 DEF CancelForm, SaveLog, RecordLocal
<1>6. CASE StartSync(d) \/ Pull(d) \/ PullNothing(d)
  BY <1>6 DEF StartSync, Pull, PullNothing, Goto
<1>7. CASE ApplyCommits(d) \/ ApplyLoses(d) \/ ApplyErrors(d)
  BY <1>7 DEF ApplyCommits, ApplyLoses, ApplyErrors, TakeFromBatch
<1>8. CASE AdvanceSeq(d) \/ LoadUnsynced(d) \/ Push(d)
  BY <1>8 DEF AdvanceSeq, LoadUnsynced, Push, Goto
<1>9. CASE AbortPull(d) \/ NothingToPush(d) \/ PushFails(d) \/ MarkSynced(d)
  BY <1>9 DEF AbortPull, NothingToPush, PushFails, MarkSynced, EndCycle
<1>10. CASE SyncFails(d) \/ CrashMidSave(d)
  BY <1>10 DEF SyncFails, CrashMidSave, EndCycle
<1> QED
  BY <1>2, <1>3, <1>4, <1>5, <1>6, <1>7, <1>8, <1>9, <1>10 DEF Acts, UI, Cycle

SavedOn(d, r) == edit[d] # NoEdit /\ edit[d].at # 0 /\ edit[d].row = r
FormOn(d, r)  == edit[d] # NoEdit /\ edit[d].row = r

\* d records an operation of its own, and with it what it does to the row.
Logs(d, op) ==
    /\ op \in Op /\ op.dev = d
    /\ \A p \in Own(d) : p.ts < op.ts
    /\ oplog'[d] = oplog[d] \cup {op}
    /\ op.row \notin contested' =>
          \A e \in Devices : OnRow(oplog[e], op.row) \subseteq oplog[d]
    /\ contested \subseteq contested'
    /\ synced'[d] = synced[d] /\ lastSeq'[d] = lastSeq[d] /\ relay' = relay
    /\ pc'[d] = pc[d] /\ cursor'[d] = cursor[d] /\ batch'[d] = batch[d]
    /\ failed'[d] = failed[d] /\ outbox'[d] = outbox[d]
    /\ edit'[d] = NoEdit
    /\ \A r \in Rows \ {op.row} : table'[d][r] = table[d][r]

LogsRow(d, op) ==
    \/ /\ op.kind = "insert"
       /\ \A e \in Devices : OnRow(oplog[e], op.row) = {}
       /\ edit[d] = NoEdit
       /\ table'[d][op.row] = Written(Absent, op)
    \/ /\ op.kind \in {"delete", "restore"}
       /\ table[d][op.row] # Absent
       /\ edit[d] = NoEdit
       /\ table'[d][op.row] = Written(table[d][op.row], op)
    \/ /\ op.kind = "delete"
       /\ table[d][op.row] # Absent
       /\ edit[d] = NoEdit
       /\ table'[d][op.row] = Absent
    \/ /\ op.kind = "update"
       /\ SavedOn(d, op.row) /\ op.ts = edit[d].at
       /\ table'[d][op.row] = table[d][op.row]

\* d's form opens, closes unsaved, or saves its row.
Edits(d) ==
    /\ oplog'[d] = oplog[d] /\ synced'[d] = synced[d] /\ lastSeq'[d] = lastSeq[d]
    /\ relay' = relay /\ contested' = contested
    /\ pc'[d] = pc[d] /\ cursor'[d] = cursor[d] /\ batch'[d] = batch[d]
    /\ failed'[d] = failed[d] /\ outbox'[d] = outbox[d]
    /\ \/ \E r \in Rows : /\ Alive(d, r) /\ table'[d] = table[d]
                          /\ edit[d] = NoEdit /\ edit'[d] = [row |-> r, at |-> 0]
       \/ table'[d] = table[d] /\ edit'[d] = NoEdit /\ (edit[d] = NoEdit \/ edit[d].at = 0)
       \/ \E t \in Times :
            /\ edit[d] \in Edit /\ edit[d] # NoEdit /\ edit'[d] # NoEdit
            /\ edit'[d].row = edit[d].row /\ edit'[d].at = t
            /\ \A r \in Rows \ {edit[d].row} : table'[d][r] = table[d][r]
            /\ table'[d][edit[d].row] =
                  IF Alive(d, edit[d].row)
                  THEN [table[d][edit[d].row] EXCEPT !.by = <<d, t>>]
                  ELSE table[d][edit[d].row]

\* d commits the relay's operation n.
Commits(d, n) ==
    /\ n \in batch[d] /\ pc[d] = "apply" /\ pc'[d] = pc[d]
    /\ \A m \in batch[d] : n <= m
    /\ batch'[d] = batch[d] \ {n}
    /\ relay[n] \notin oplog[d] /\ Applicable(table[d], relay[n])
    /\ ~LosesLocally(d, relay[n])
    /\ oplog'[d] = oplog[d] \cup {relay[n]}
    /\ synced'[d] = synced[d] \cup {relay[n]}
    /\ \A r \in Rows \ {relay[n].row} : table'[d][r] = table[d][r]
    /\ table'[d][relay[n].row] = Written(table[d][relay[n].row], relay[n])
    /\ contested \subseteq contested'
    /\ FormOn(d, relay[n].row) => relay[n].row \in contested'
    /\ edit'[d] = edit[d] /\ lastSeq'[d] = lastSeq[d] /\ relay' = relay
    /\ cursor'[d] = cursor[d] /\ failed'[d] = failed[d] /\ outbox'[d] = outbox[d]

\* d's data stays; if the process died with a save half done, its row is torn.
Rests(d) ==
    /\ table'[d] = table[d] /\ oplog'[d] = oplog[d]
    /\ contested \subseteq contested'
    /\ \/ edit'[d] = edit[d]
       \/ edit[d] # NoEdit /\ edit'[d] = NoEdit /\ edit[d].row \in contested'

LEMMA MutateLogs ==
    ASSUME TypeInv, NEW d \in Devices, ClockOf(d), NEW op \in Op, op.dev = d,
           NEW row \in Row \cup {Absent}, Mutate(d, op, row)
    PROVE  Logs(d, op) /\ table'[d][op.row] = row /\ edit[d] = NoEdit
<1>1. /\ edit[d] = NoEdit /\ edit' = edit
      /\ table' = [table EXCEPT ![d][op.row] = row]
      /\ RecordLocal(d, op) /\ op.ts > clock[d]
  BY DEF Mutate, Stamp
<1>2. op.row \in Rows
  BY DEF Op
<1>3. /\ table'[d][op.row] = row
      /\ \A r \in Rows \ {op.row} : table'[d][r] = table[d][r]
  BY <1>1, <1>2 DEF TypeInv, TypeOK, Table
<1>4. /\ oplog'[d] = oplog[d] \cup {op}
      /\ UNCHANGED <<synced, lastSeq, pc, cursor, batch, failed, outbox, relay>>
  BY <1>1 DEF RecordLocal, cycle, TypeInv, TypeOK
<1>5. /\ op.row \notin contested' =>
            \A e \in Devices : OnRow(oplog[e], op.row) \subseteq oplog[d]
      /\ contested \subseteq contested'
  BY <1>1 DEF RecordLocal, Contest
<1>6. \A p \in Own(d) : p.ts < op.ts
  <2>1. op.ts \in Nat
    BY DEF Op, Times
  <2> QED
    BY <1>1, <2>1, OwnType DEF ClockOf
<1> QED
  BY <1>1, <1>3, <1>4, <1>5, <1>6 DEF Logs

LEMMA CreateLogs ==
    ASSUME TypeInv, NEW d \in Devices, ClockOf(d), NEW r \in Rows, NEW t \in Times,
           \/ Create(d, r, t) \/ SoftDelete(d, r, t)
           \/ Restore(d, r, t) \/ HardDelete(d, r, t)
    PROVE  \E op \in Op : Logs(d, op) /\ LogsRow(d, op)
<1>1. CASE Create(d, r, t)
  <2> DEFINE op == LocalOp(d, r, "insert", t)
  <2>1. op \in Op /\ op.kind = "insert" /\ op.dev = d /\ op.row = r
    BY LocalOpType DEF Kinds
  <2>2. Written(Absent, op) \in Row /\ Mutate(d, op, Written(Absent, op))
    BY <1>1, <2>1, WrittenType DEF Create
  <2>3. Logs(d, op) /\ table'[d][op.row] = Written(Absent, op) /\ edit[d] = NoEdit
    BY <2>1, <2>2, MutateLogs
  <2>4. LogsRow(d, op)
    BY <1>1, <2>1, <2>3 DEF Create, LogsRow
  <2> QED
    BY <2>1, <2>3, <2>4
<1>2. ASSUME NEW k \in {"delete", "restore"}, table[d][r] # Absent,
             Mutate(d, LocalOp(d, r, k, t), Written(table[d][r], LocalOp(d, r, k, t)))
      PROVE  \E op \in Op : Logs(d, op) /\ LogsRow(d, op)
  <2> DEFINE op == LocalOp(d, r, k, t)
  <2>1. op \in Op /\ op.kind = k /\ op.dev = d /\ op.row = r
    BY LocalOpType DEF Kinds
  <2>2. table[d][r] \in Row \cup {Absent}
    BY DEF TypeInv, TypeOK, Table
  <2>3. Written(table[d][r], op) \in Row
    BY <1>2, <2>1, <2>2, WrittenType
  <2>4. Logs(d, op) /\ table'[d][op.row] = Written(table[d][r], op) /\ edit[d] = NoEdit
    BY <1>2, <2>1, <2>3, MutateLogs
  <2>5. LogsRow(d, op)
    BY <1>2, <2>1, <2>4 DEF LogsRow
  <2> QED
    BY <2>1, <2>4, <2>5
<1>3. CASE SoftDelete(d, r, t)
  BY <1>2, <1>3 DEF SoftDelete, Alive
<1>4. CASE Restore(d, r, t)
  BY <1>2, <1>4 DEF Restore
<1>5. CASE HardDelete(d, r, t)
  <2> DEFINE op == LocalOp(d, r, "delete", t)
  <2>1. op \in Op /\ op.kind = "delete" /\ op.dev = d /\ op.row = r
    BY LocalOpType DEF Kinds
  <2>2. Logs(d, op) /\ table'[d][op.row] = Absent /\ edit[d] = NoEdit
    BY <1>5, <2>1, MutateLogs DEF HardDelete
  <2>3. LogsRow(d, op)
    BY <1>5, <2>1, <2>2 DEF HardDelete, LogsRow
  <2> QED
    BY <2>1, <2>2, <2>3
<1> QED
  BY <1>1, <1>3, <1>4, <1>5

LEMMA SaveLogs ==
    ASSUME TypeInv, NEW d \in Devices, ClockOf(d), SaveLog(d)
    PROVE  \E op \in Op : Logs(d, op) /\ LogsRow(d, op)
<1> DEFINE op == LocalOp(d, edit[d].row, "update", edit[d].at)
<1>1. /\ edit[d] # NoEdit /\ edit[d].at # 0 /\ edit[d] \in Edit
      /\ RecordLocal(d, op) /\ table' = table /\ edit' = [edit EXCEPT ![d] = NoEdit]
  BY DEF SaveLog, TypeInv, TypeOK
<1>2. edit[d].row \in Rows /\ edit[d].at \in Times
  BY <1>1 DEF Edit
<1>3. /\ op \in Op /\ op.dev = d /\ op.row = edit[d].row /\ op.kind = "update"
      /\ op.ts = edit[d].at
  BY <1>2, LocalOpType DEF Kinds
<1> HIDE DEF op
<1>4. /\ oplog'[d] = oplog[d] \cup {op} /\ edit'[d] = NoEdit
      /\ UNCHANGED <<synced, lastSeq, pc, cursor, batch, failed, outbox, relay>>
  BY <1>1 DEF RecordLocal, cycle, TypeInv, TypeOK
<1>5. /\ op.row \notin contested' =>
            \A e \in Devices : OnRow(oplog[e], op.row) \subseteq oplog[d]
      /\ contested \subseteq contested'
  BY <1>1 DEF RecordLocal, Contest
<1>6. Logs(d, op)
  BY <1>1, <1>3, <1>4, <1>5 DEF Logs, ClockOf, Saved
<1>7. LogsRow(d, op)
  BY <1>1, <1>3 DEF LogsRow, SavedOn
<1> QED
  BY <1>3, <1>6, <1>7

LEMMA FormEdits ==
    ASSUME TypeInv, NEW d \in Devices,
           \/ CancelForm(d) \/ \E r \in Rows : OpenForm(d, r)
           \/ \E t \in Times : SaveRow(d, t)
    PROVE  Edits(d)
<1>1. /\ oplog' = oplog /\ synced' = synced /\ lastSeq' = lastSeq
      /\ UNCHANGED cycle /\ relay' = relay /\ contested' = contested
  BY DEF CancelForm, OpenForm, SaveRow, store
<1>2. ASSUME NEW r \in Rows, OpenForm(d, r) PROVE Edits(d)
  <2>1. /\ Alive(d, r) /\ table'[d] = table[d] /\ edit[d] = NoEdit
        /\ edit'[d] = [row |-> r, at |-> 0]
    BY <1>2 DEF OpenForm, store, TypeInv, TypeOK
  <2> QED
    BY <1>1, <2>1 DEF Edits, cycle
<1>3. CASE CancelForm(d)
  <2>1. table'[d] = table[d] /\ edit'[d] = NoEdit /\ edit[d].at = 0
    BY <1>3 DEF CancelForm, store, TypeInv, TypeOK
  <2> QED
    BY <1>1, <2>1 DEF Edits, cycle
<1>4. ASSUME NEW t \in Times, SaveRow(d, t) PROVE Edits(d)
  <2> DEFINE r == edit[d].row
  <2>1. /\ edit[d] \in Edit /\ edit[d] # NoEdit
        /\ edit' = [edit EXCEPT ![d].at = t]
    BY <1>4 DEF SaveRow, TypeInv, TypeOK
  <2>2. r \in Rows /\ edit'[d] = [edit[d] EXCEPT !.at = t]
    BY <2>1 DEF Edit, TypeInv, TypeOK
  <2>3. edit'[d] \in Edit /\ edit'[d].row = r /\ edit'[d].at = t
    BY <2>1, <2>2 DEF Edit
  <2>4. edit'[d] # NoEdit
    BY <2>3, SyncEngineAssumption DEF Edit
  <2>5. /\ \A q \in Rows \ {r} : table'[d][q] = table[d][q]
        /\ table'[d][r] = IF Alive(d, r) THEN [table[d][r] EXCEPT !.by = <<d, t>>]
                          ELSE table[d][r]
    <3>1. CASE ~Alive(d, r)
      BY <1>4, <3>1 DEF SaveRow
    <3>2. CASE Alive(d, r)
      <4>1. table' = [table EXCEPT ![d][r].by = <<d, t>>]
        BY <1>4, <3>2 DEF SaveRow
      <4> HIDE DEF r
      <4>2. table[d] \in [Rows -> Row \cup {Absent}] /\ table \in [Devices -> Table]
        BY DEF TypeInv, TypeOK, Table
      <4>3. table'[d] = [table[d] EXCEPT ![r] = [table[d][r] EXCEPT !.by = <<d, t>>]]
        BY <4>1, <4>2, <2>2 DEF Table
      <4> QED
        BY <2>2, <3>2, <4>2, <4>3
    <3> QED
      BY <3>1, <3>2
  <2> QED
    BY <1>1, <2>1, <2>3, <2>4, <2>5 DEF Edits, cycle
<1> QED
  BY <1>2, <1>3, <1>4

LEMMA ApplyIsCommit ==
    ASSUME TypeInv, BatchesOnRelay, NEW d \in Devices, ApplyCommits(d)
    PROVE  \E n \in DOMAIN relay : Commits(d, n)
<1>1. PICK n \in batch[d] :
        /\ TakeFromBatch(d, n)
        /\ ~ApplyFails(d, relay[n]) /\ ~LosesLocally(d, relay[n])
        /\ table' = [table EXCEPT ![d] = ApplyTo(@, relay[n])]
        /\ oplog' = [oplog EXCEPT ![d] = @ \cup {relay[n]}]
        /\ synced' = [synced EXCEPT ![d] = @ \cup {relay[n]}]
        /\ contested' = IF edit[d] # NoEdit /\ edit[d].row = relay[n].row
                        THEN contested \cup {relay[n].row}
                        ELSE contested
        /\ UNCHANGED failed
  BY DEF ApplyCommits
<1>2. n \in DOMAIN relay
  BY DEF BatchesOnRelay
<1>3. PICK op \in Op : op = relay[n]
  BY <1>2, RelayType
<1>4. op.row \in Rows
  BY DEF Op
<1>5. table'[d] = ApplyTo(table[d], op)
  BY <1>1, <1>3 DEF TypeInv, TypeOK
<1>6. /\ \A r \in Rows \ {op.row} : table'[d][r] = table[d][r]
      /\ table'[d][op.row] = Written(table[d][op.row], op)
  BY <1>4, <1>5 DEF ApplyTo, TypeInv, TypeOK, Table
<1>7. /\ pc[d] = "apply" /\ pc' = pc /\ \A m \in batch[d] : n <= m
      /\ batch'[d] = batch[d] \ {n}
      /\ UNCHANGED <<lastSeq, edit, cursor, outbox, relay>>
  BY <1>1 DEF TakeFromBatch, uiVars, TypeInv, TypeOK
<1>8. /\ oplog'[d] = oplog[d] \cup {op} /\ synced'[d] = synced[d] \cup {op}
  BY <1>1, <1>3 DEF TypeInv, TypeOK
<1>9. op \notin oplog[d] /\ Applicable(table[d], op) /\ ~LosesLocally(d, op)
  BY <1>1, <1>3 DEF ApplyFails
<1>10. contested \subseteq contested' /\ (FormOn(d, op.row) => op.row \in contested')
  BY <1>1, <1>3 DEF FormOn
<1> QED
  BY <1>1, <1>2, <1>3, <1>6, <1>7, <1>8, <1>9, <1>10 DEF Commits

\* The five kinds of step.
LEMMA StepKinds ==
    ASSUME TypeInv, BatchesOnRelay, LogInv, NEW d \in Devices, Acts(d)
    PROVE  \/ \E op \in Op : Logs(d, op) /\ LogsRow(d, op)
           \/ Edits(d)
           \/ \E n \in DOMAIN relay : Commits(d, n)
           \/ Rests(d)
<1>1. ASSUME UI(d)
      PROVE  (\E op \in Op : Logs(d, op) /\ LogsRow(d, op)) \/ Edits(d)
  <2>1. ClockOf(d)
    BY DEF LogInv, ClockAhead, ClockOf
  <2> QED
    BY <1>1, <2>1, CreateLogs, SaveLogs, FormEdits DEF UI
<1>2. ASSUME Cycle(d), ~ApplyCommits(d)
      PROVE  Rests(d)
  <2>1. UNCHANGED <<table, oplog, edit, contested>>
    BY <1>2 DEF Cycle, StartSync, Pull, PullNothing, ApplyLoses, ApplyErrors,
       TakeFromBatch, AbortPull, AdvanceSeq, LoadUnsynced, NothingToPush, Push,
       PushFails, MarkSynced, store, uiVars
  <2> QED
    BY <2>1 DEF Rests
<1>3. CASE SyncFails(d)
  BY <1>3 DEF SyncFails, Rests, store, uiVars
<1>4. CASE CrashMidSave(d)
  <2>1. /\ table' = table /\ oplog' = oplog /\ edit[d] # NoEdit /\ edit'[d] = NoEdit
        /\ contested' = contested \cup {edit[d].row}
    BY <1>4 DEF CrashMidSave, store, TypeInv, TypeOK
  <2> QED
    BY <2>1 DEF Rests
<1> QED
  BY <1>1, <1>2, <1>3, <1>4, ApplyIsCommit DEF Acts

-----------------------------------------------------------------------------
(***************************************************************************)
(* What holds of every row.                                                *)
(***************************************************************************)

\* What a device recorded of another's it has from the relay.
ForeignOnRelay == \A d \in Devices : \A o \in oplog[d] : o.dev # d => o \in OnRelay

\* A row was created once, by one operation.
OneInsert == \A d, e \in Devices : \A o \in oplog[d], p \in oplog[e] :
    o.kind = "insert" /\ p.kind = "insert" /\ o.row = p.row => o = p

HasInsert(ops, r) == \E i \in ops : i.kind = "insert" /\ i.row = r

\* A device that knows anything of a row knows its insert.
InsertKnown == \A d \in Devices : \A r \in Rows :
    \/ table[d][r] # Absent
    \/ edit[d] # NoEdit /\ edit[d].row = r
    \/ OnRow(oplog[d], r) # {}
  => HasInsert(oplog[d], r)

\* ... and if it is its own, made it before all else on the row.
InsertOldest == \A d \in Devices : \A i, o \in Own(d) :
    i.kind = "insert" /\ i.row = o.row => i.ts <= o.ts

InsertFirst == \A n \in DOMAIN relay :
    \E i \in DOMAIN relay : i <= n /\ relay[i].kind = "insert" /\ relay[i].row = relay[n].row

RelayInOrder == \A i, j \in DOMAIN relay :
    i < j /\ relay[i].dev = relay[j].dev => relay[i].ts < relay[j].ts

\* Of what is stored but not marked, a push under way leaves nothing behind.
SendsAll == \A d \in Devices : pc[d] \in {"send", "mark"} =>
    UnsyncedOps(d) \cap OnRelay \subseteq Outgoing(d)

\* The batch is the end of the page.
BatchIsTail == \A d \in Devices : pc[d] = "apply" => \A m \in batch[d] :
    /\ m <= cursor[d]
    /\ \A n \in DOMAIN relay : relay[n].dev # d /\ m < n /\ n <= cursor[d] => n \in batch[d]

RowsInv == /\ ForeignOnRelay /\ OneInsert /\ InsertKnown /\ InsertOldest
           /\ InsertFirst /\ RelayInOrder /\ SendsAll /\ BatchIsTail


\* What stays recorded: oplogs grow, and so does what the relay holds.
LEMMA DataGrows ==
    ASSUME TypeInv, [Next]_vars
    PROVE  /\ \A d \in Devices : oplog[d] \subseteq oplog'[d]
           /\ OnRelay \subseteq OnRelay'
BY OplogGrows, RelayGrows DEF OnRelay

\* An operation of the relay is in the oplog of the device that made it.
LEMMA AuthorKnows ==
    ASSUME TypeInv, LogInv, NEW n \in DOMAIN relay
    PROVE  /\ relay[n] \in Op /\ relay[n].dev \in Devices
           /\ relay[n] \in oplog[relay[n].dev]
<1>1. relay[n] \in Op
  BY RelayType
<1>2. relay[n].dev \in Devices
  BY <1>1 DEF Op
<1> QED
  BY <1>1, <1>2 DEF LogInv, SharedIsOwn

LEMMA NewOps ==
    ASSUME TypeInv, BatchesOnRelay, LogInv, NEW d \in Devices, Acts(d)
    PROVE  \/ \A e \in Devices : \A o \in oplog'[e] : \E f \in Devices : o \in oplog[f]
           \/ \E op \in Op : /\ Logs(d, op) /\ LogsRow(d, op)
                             /\ \A e \in Devices : \A o \in oplog'[e] :
                                   o = op \/ \E f \in Devices : o \in oplog[f]
<1>1. \A e \in Devices : e # d => oplog'[e] = oplog[e]
  BY OthersStill DEF Still
<1>2. ASSUME NEW op \in Op, Logs(d, op), LogsRow(d, op)
      PROVE  \A e \in Devices : \A o \in oplog'[e] :
                o = op \/ \E f \in Devices : o \in oplog[f]
  BY <1>1, <1>2 DEF Logs
<1>3. CASE Edits(d) \/ Rests(d)
  BY <1>1, <1>3 DEF Edits, Rests
<1>4. ASSUME NEW n \in DOMAIN relay, Commits(d, n)
      PROVE  \A e \in Devices : \A o \in oplog'[e] : \E f \in Devices : o \in oplog[f]
  BY <1>1, <1>4, AuthorKnows DEF Commits
<1> QED
  BY <1>2, <1>3, <1>4, StepKinds

LEMMA OneInsertStep ==
    ASSUME TypeInv, BatchesOnRelay, LogInv, OneInsert, NEW d \in Devices, Acts(d)
    PROVE  OneInsert'
<1> DEFINE Old(o) == \E f \in Devices : o \in oplog[f]
<1>1. \A o, p : /\ Old(o) /\ Old(p) /\ o.kind = "insert" /\ p.kind = "insert"
                /\ o.row = p.row
                => o = p
  BY DEF OneInsert
<1>2. CASE \A e \in Devices : \A o \in oplog'[e] : Old(o)
  BY <1>1, <1>2 DEF OneInsert
<1>3. ASSUME NEW op \in Op, LogsRow(d, op),
             \A e \in Devices : \A o \in oplog'[e] : o = op \/ Old(o)
      PROVE  OneInsert'
  <2>1. op.kind = "insert" => \A o : Old(o) => o.row # op.row
    <3>1. CASE op.kind = "insert"
      <4>1. \A e \in Devices : OnRow(oplog[e], op.row) = {}
        BY <1>3, <3>1 DEF LogsRow
      <4> QED
        BY <4>1 DEF OnRow
    <3> QED
      BY <3>1
  <2> HIDE DEF Old
  <2> QED
    BY <1>1, <1>3, <2>1 DEF OneInsert
<1> QED
  BY <1>2, <1>3, NewOps

KnowsInsert(d, r) ==
    \/ table[d][r] # Absent
    \/ FormOn(d, r)
    \/ OnRow(oplog[d], r) # {}

LEMMA InsertKnownStep ==
    ASSUME TypeInv, BatchesOnRelay, LogInv, InsertKnown, NEW d \in Devices, Acts(d),
           [Next]_vars
    PROVE  InsertKnown'
<1> SUFFICES ASSUME NEW e \in Devices, NEW r \in Rows, KnowsInsert(e, r)'
             PROVE  HasInsert(oplog[e], r)'
  BY DEF InsertKnown, KnowsInsert, FormOn
<1>1. KnowsInsert(e, r) => HasInsert(oplog[e], r)
  BY DEF InsertKnown, KnowsInsert, FormOn
<1>2. HasInsert(oplog[e], r) => HasInsert(oplog[e], r)'
  BY DataGrows DEF HasInsert
<1> SUFFICES KnowsInsert(e, r) \/ HasInsert(oplog[e], r)'
  BY <1>1, <1>2
<1>3. CASE e # d
  BY <1>3, OthersStill DEF Still, KnowsInsert, FormOn
<1>4. ASSUME e = d, NEW op \in Op, Logs(d, op), LogsRow(d, op)
      PROVE  KnowsInsert(e, r) \/ HasInsert(oplog[e], r)'
  <2>1. op \in oplog'[d]
    BY <1>4 DEF Logs
  <2>2. CASE r = op.row
    BY <1>4, <2>1, <2>2 DEF LogsRow, HasInsert, KnowsInsert, SavedOn, FormOn
  <2>3. CASE r # op.row
    <3>1. table'[d][r] = table[d][r] /\ edit'[d] = NoEdit
      BY <1>4, <2>3 DEF Logs
    <3>2. OnRow(oplog[d], r)' = OnRow(oplog[d], r)
      BY <1>4, <2>3 DEF Logs, OnRow
    <3> QED
      BY <1>4, <3>1, <3>2 DEF KnowsInsert, FormOn
  <2> QED
    BY <2>2, <2>3
<1>5. ASSUME e = d, Edits(d)
      PROVE  KnowsInsert(e, r) \/ HasInsert(oplog[e], r)'
  <2>1. OnRow(oplog[d], r)' = OnRow(oplog[d], r)
    BY <1>5 DEF Edits, OnRow
  <2>2. table'[d][r] # Absent \/ FormOn(d, r)' => KnowsInsert(d, r)
    <3>1. CASE table'[d] = table[d] /\ edit'[d] = NoEdit
      BY <3>1 DEF KnowsInsert, FormOn
    <3>2. ASSUME NEW q \in Rows, Alive(d, q), table'[d] = table[d],
                 edit'[d] = [row |-> q, at |-> 0]
          PROVE  table'[d][r] # Absent \/ FormOn(d, r)' => KnowsInsert(d, r)
      BY <3>2 DEF Alive, KnowsInsert, FormOn
    <3>3. ASSUME edit[d] # NoEdit, edit'[d].row = edit[d].row,
                 \A q \in Rows \ {edit[d].row} : table'[d][q] = table[d][q]
          PROVE  table'[d][r] # Absent \/ FormOn(d, r)' => KnowsInsert(d, r)
      BY <3>3 DEF KnowsInsert, FormOn
    <3> QED
      BY <1>5, <3>1, <3>2, <3>3 DEF Edits
  <2> QED
    BY <1>5, <2>1, <2>2 DEF KnowsInsert
<1>6. ASSUME e = d, NEW n \in DOMAIN relay, Commits(d, n)
      PROVE  KnowsInsert(e, r) \/ HasInsert(oplog[e], r)'
  <2>1. PICK op \in Op : op = relay[n]
    BY RelayType
  <2>2. CASE r = op.row
    <3>1. CASE op.kind = "insert"
      BY <1>6, <2>1, <2>2, <3>1 DEF Commits, HasInsert
    <3>2. CASE op.kind # "insert"
      BY <1>6, <2>1, <2>2, <3>2 DEF Commits, Applicable, KnowsInsert
    <3> QED
      BY <3>1, <3>2
  <2>3. CASE r # op.row
    <3>1. table'[d][r] = table[d][r] /\ edit'[d] = edit[d]
      BY <1>6, <2>1, <2>3 DEF Commits
    <3>2. OnRow(oplog[d], r)' = OnRow(oplog[d], r)
      BY <1>6, <2>1, <2>3 DEF Commits, OnRow
    <3> QED
      BY <1>6, <3>1, <3>2 DEF KnowsInsert, FormOn
  <2> QED
    BY <2>2, <2>3
<1>7. ASSUME e = d, Rests(d)
      PROVE  KnowsInsert(e, r) \/ HasInsert(oplog[e], r)'
  BY <1>7 DEF Rests, KnowsInsert, FormOn, OnRow
<1> QED
  BY <1>3, <1>4, <1>5, <1>6, <1>7, StepKinds

\* The operation a device records of its own is new to it, and to the relay.
LEMMA LogsNewest ==
    ASSUME TypeInv, LogInv, NEW d \in Devices, NEW op \in Op, Logs(d, op)
    PROVE  op \notin oplog[d] /\ op \notin OnRelay
<1>1. op.dev = d /\ op.ts \in Nat /\ \A p \in Own(d) : p.ts < op.ts
  BY DEF Logs, Op, Times
<1>2. op \notin oplog[d]
  BY <1>1 DEF Own
<1> QED
  BY <1>1, <1>2, AuthorKnows DEF OnRelay

LEMMA InsertOldestStep ==
    ASSUME TypeInv, BatchesOnRelay, LogInv, InsertOldest, NEW d \in Devices, Acts(d)
    PROVE  InsertOldest'
<1> SUFFICES ASSUME NEW e \in Devices, NEW i \in Own(e)', NEW o \in Own(e)',
                    i.kind = "insert", i.row = o.row
             PROVE  i.ts <= o.ts
  BY DEF InsertOldest
<1>1. /\ i \in oplog'[e] /\ i.dev = e /\ o \in oplog'[e] /\ o.dev = e
  BY DEF Own
<1>2. CASE i \in oplog[e] /\ o \in oplog[e]
  BY <1>1, <1>2 DEF InsertOldest, Own
<1>3. CASE oplog'[e] = oplog[e]
  BY <1>1, <1>2, <1>3
<1>4. ASSUME NEW op \in Op, Logs(e, op), LogsRow(e, op)
      PROVE  i.ts <= o.ts
  <2>1. \A p \in oplog'[e] : p \in oplog[e] \/ p = op
    BY <1>4 DEF Logs
  <2>2. op.ts \in Nat
    BY DEF Op, Times
  <2>3. CASE i = op /\ o = op
    BY <2>2, <2>3
  <2>4. CASE i = op /\ o \in oplog[e]
    BY <1>4, <2>4 DEF LogsRow, OnRow
  <2>5. CASE o = op /\ i \in oplog[e] /\ o \notin oplog[e]
    <3>1. \A p \in Own(e) : p.ts < o.ts
      BY <1>4, <2>5 DEF Logs
    <3>2. i \in Own(e) /\ i.ts \in Nat
      BY <1>1, <2>5, OwnType DEF Own
    <3> QED
      BY <2>2, <2>5, <3>1, <3>2
  <2> QED
    BY <1>1, <1>2, <2>1, <2>3, <2>4, <2>5
<1>5. ASSUME NEW n \in DOMAIN relay, Commits(e, n)
      PROVE  i.ts <= o.ts
  <2>1. relay[n].dev = e => relay[n] \in oplog[e]
    BY AuthorKnows
  <2>2. \A p \in oplog'[e] : p \in oplog[e] \/ p = relay[n]
    BY <1>5 DEF Commits
  <2> QED
    BY <1>1, <1>2, <2>1, <2>2
<1>6. CASE e # d
  BY <1>3, <1>6, OthersStill DEF Still
<1>7. CASE Edits(d) \/ Rests(d)
  BY <1>3, <1>6, <1>7 DEF Edits, Rests
<1> QED
  BY <1>4, <1>5, <1>6, <1>7, StepKinds

\* An operation a push carries is an own one of the pusher.
LEMMA SentIsOwn ==
    ASSUME TypeInv, CursorInv, LogInv, NEW e \in Devices, pc[e] = "send",
           NEW o \in Outgoing(e)
    PROVE  o \in Own(e) /\ o \in UnsyncedOps(e) /\ o \in Op
<1>1. o \in UnsyncedOps(e)
  BY DEF LogInv, PushInOrder
<1> QED
  BY <1>1, OwnType DEF CursorInv, UnsyncedOps, Own

\* An own operation is on the relay or still to be pushed.
LEMMA OwnOrShared ==
    ASSUME StoredInv, NEW d \in Devices, NEW o \in oplog[d], o \notin OnRelay
    PROVE  o \in UnsyncedOps(d)
BY DEF StoredInv, SyncedIsStored, UnsyncedOps

\* What a push leaves behind is newer than what it carries.
LEMMA PushedBefore ==
    ASSUME StoredInv, LogInv, NEW e \in Devices, pc[e] = "send",
           NEW p \in oplog[e], p \notin OnRelay, p \notin Outgoing(e),
           NEW o \in Outgoing(e)
    PROVE  o.ts < p.ts
BY OwnOrShared DEF LogInv, PushInOrder

LEMMA InsertFirstStep ==
    ASSUME TypeInv, StoredInv, CursorInv, LogInv, ForeignOnRelay, InsertKnown,
           InsertOldest, InsertFirst, NEW e \in Devices, Push(e)
    PROVE  InsertFirst'
<1> SUFFICES ASSUME NEW n \in DOMAIN relay'
             PROVE  \E i \in DOMAIN relay' : /\ i <= n /\ relay'[i].kind = "insert"
                                             /\ relay'[i].row = relay'[n].row
  BY DEF InsertFirst
<1>1. /\ Len(relay) \in Nat /\ DOMAIN relay = 1..Len(relay)
      /\ DOMAIN relay' = 1..(Len(relay) + Len(outbox[e])) /\ Len(outbox[e]) \in Nat
      /\ \A i \in DOMAIN relay : i \in DOMAIN relay' /\ relay'[i] = relay[i]
  BY Pushed
<1>2. pc[e] = "send"
  BY DEF Push
<1>3. CASE n \in DOMAIN relay
  BY <1>1, <1>3 DEF InsertFirst
<1>4. CASE n \notin DOMAIN relay
  <2>1. /\ n - Len(relay) \in DOMAIN outbox[e]
        /\ relay'[n] = outbox[e][n - Len(relay)] /\ relay'[n] \in Outgoing(e)
    BY <1>4, Pushed
  <2> DEFINE o == relay'[n]
  <2>2. o \in Own(e) /\ o \in Op
    BY <1>2, <2>1, SentIsOwn
  <2>3. o \in oplog[e] /\ o.row \in Rows /\ o.ts \in Nat
    BY <2>2 DEF Own, Op, Times
  <2>4. OnRow(oplog[e], o.row) # {}
    BY <2>3 DEF OnRow
  <2>5. PICK i \in oplog[e] : i.kind = "insert" /\ i.row = o.row
    BY <2>3, <2>4 DEF InsertKnown, HasInsert
  <2>6. CASE i \in OnRelay
    <3>1. PICK k \in DOMAIN relay : i = relay[k]
      BY <2>6 DEF OnRelay
    <3>2. k <= n
      BY <1>1, <1>4
    <3> QED
      BY <1>1, <2>5, <3>1, <3>2
  <2>7. CASE i \notin OnRelay
    <3>1. i \in Own(e) /\ i.ts \in Nat
      BY <2>7, OwnType DEF ForeignOnRelay, Own
    <3>2. i.ts <= o.ts
      BY <2>2, <2>5, <3>1 DEF InsertOldest
    <3>3. i \in Outgoing(e)
      BY <1>2, <2>1, <2>3, <2>7, <3>1, <3>2, PushedBefore
    <3>4. PICK k \in DOMAIN outbox[e] : i = outbox[e][k]
      BY <3>3 DEF Outgoing
    <3>5. k <= n - Len(relay)
      <4>1. /\ k \in Nat /\ n - Len(relay) \in Nat
            /\ n - Len(relay) < k => outbox[e][n - Len(relay)].ts < outbox[e][k].ts
        BY <1>2, <2>1, <3>4, Pushed DEF LogInv, PushInOrder
      <4> QED
        BY <2>1, <2>3, <3>1, <3>2, <3>4, <4>1
    <3>6. Len(relay) + k \in DOMAIN relay' /\ relay'[Len(relay) + k] = i
      <4>1. Len(relay) + k \in DOMAIN relay'
        BY <3>4, Pushed
      <4> QED
        BY <3>4, <4>1, Pushed
    <3>7. Len(relay) + k <= n
      BY <1>1, <3>4, <3>5, Pushed
    <3> QED
      BY <2>5, <3>6, <3>7
  <2> QED
    BY <2>6, <2>7
<1> QED
  BY <1>3, <1>4

LEMMA RelayInOrderStep ==
    ASSUME RejectRepeats, TypeInv, CursorInv, LogInv, RelayInOrder,
           NEW e \in Devices, Push(e)
    PROVE  RelayInOrder'
<1>1. \A i \in (Len(relay) + 1)..Len(relay') :
        /\ relay'[i].dev = e
        /\ \A j \in 1..(i - 1) : relay'[j].dev = e => relay'[j].ts < relay'[i].ts
  BY PushPublishes DEF Shared!Publish
<1>2. /\ Len(relay) \in Nat /\ DOMAIN relay = 1..Len(relay)
      /\ DOMAIN relay' = 1..Len(relay') /\ Len(relay') \in Nat
      /\ \A i \in DOMAIN relay : relay'[i] = relay[i]
  BY Pushed
<1> SUFFICES ASSUME NEW i \in DOMAIN relay', NEW j \in DOMAIN relay',
                    i < j, relay'[i].dev = relay'[j].dev
             PROVE  relay'[i].ts < relay'[j].ts
  BY DEF RelayInOrder
<1>3. CASE j \in DOMAIN relay
  <2>1. i \in DOMAIN relay
    BY <1>2, <1>3
  <2> QED
    BY <1>2, <1>3, <2>1 DEF RelayInOrder
<1>4. CASE j \notin DOMAIN relay
  <2>1. j \in (Len(relay) + 1)..Len(relay') /\ i \in 1..(j - 1)
    BY <1>2, <1>4
  <2> QED
    BY <1>1, <2>1
<1> QED
  BY <1>3, <1>4

\* The relay holds no operation twice.
LEMMA NoRepeats ==
    ASSUME TypeInv, RelayInOrder, NEW i \in DOMAIN relay, NEW j \in DOMAIN relay,
           relay[i] = relay[j]
    PROVE  i = j
<1>1. i \in Nat /\ j \in Nat /\ relay[i].ts \in Nat /\ relay[j].ts \in Nat
  BY RelayType DEF Op, Times
<1> QED
  BY <1>1 DEF RelayInOrder

LEMMA SendsAllStep ==
    ASSUME TypeInv, BatchesOnRelay, StoredInv, CursorInv, LogInv, SendsAll, [Next]_vars,
           NEW d \in Devices, pc'[d] \in {"send", "mark"}
    PROVE  (UnsyncedOps(d) \cap OnRelay \subseteq Outgoing(d))'
<1>1. CASE Quiet(d)
  <2>1. pc[d] \in {"send", "mark"} /\ Outgoing(d)' = Outgoing(d)
    BY <1>1 DEF Quiet, Outgoing
  <2>2. ASSUME NEW o \in UnsyncedOps(d)', o \in OnRelay' PROVE o \in Outgoing(d)
    <3>1. o \in oplog'[d] /\ o \notin synced[d]
      BY <1>1, <2>2 DEF Quiet, UnsyncedOps
    <3>2. CASE o \in oplog[d]
      <4>1. o \in UnsyncedOps(d) /\ o.dev = d
        BY <3>1, <3>2 DEF UnsyncedOps, CursorInv
      <4>2. CASE o \in OnRelay
        BY <2>1, <4>1, <4>2 DEF SendsAll
      <4>3. CASE o \notin OnRelay
        <5>1. PICK n \in DOMAIN relay' : o = relay'[n]
          BY <2>2 DEF OnRelay
        <5>2. n \notin DOMAIN relay
          BY <4>3, <5>1, RelayGrows DEF OnRelay
        <5>3. PICK e \in Devices : Push(e)
          BY <5>1, <5>2, RelayStep
        <5>4. o \in Outgoing(e) /\ pc[e] = "send" /\ pc'[e] = "mark"
          BY <5>1, <5>2, <5>3, Pushed DEF Push, Goto, TypeInv, TypeOK
        <5>5. e = d
          BY <4>1, <5>4, SentIsOwn DEF Own
        <5> QED
          BY <5>4, <5>5
      <4> QED
        BY <4>2, <4>3
    <3>3. CASE o \notin oplog[d]
      <4>1. o.dev = d
        BY <1>1, <3>1, <3>3 DEF Quiet
      <4>2. PICK n \in DOMAIN relay' : o = relay'[n]
        BY <2>2 DEF OnRelay
      <4>3. o \in oplog[d]
        BY <4>1, <4>2, SharedStep
      <4> QED
        BY <3>3, <4>3
    <3> QED
      BY <3>2, <3>3
  <2> QED
    BY <2>1, <2>2
<1>2. CASE Stops(d)
  BY <1>2 DEF Stops, EndCycle, TypeInv, TypeOK
<1>3. CASE Cycle(d)
  <2>1. CASE LoadUnsynced(d)
    <3>1. PICK s \in InOrder(UnsyncedOps(d)) : outbox' = [outbox EXCEPT ![d] = s]
      BY <2>1 DEF LoadUnsynced
    <3>2. outbox'[d] = s /\ UnsyncedOps(d)' = UnsyncedOps(d)
      BY <2>1, <3>1 DEF LoadUnsynced, UnsyncedOps, store, TypeInv, TypeOK
    <3>3. \A o \in UnsyncedOps(d) : \E i \in DOMAIN s : s[i] = o
      BY <3>1 DEF InOrder
    <3> QED
      BY <3>2, <3>3 DEF Outgoing
  <2>2. CASE Push(d)
    <3>1. /\ pc[d] = "send" /\ UnsyncedOps(d)' = UnsyncedOps(d)
          /\ Outgoing(d)' = Outgoing(d)
      BY <2>2 DEF Push, UnsyncedOps, Outgoing, store
    <3>2. \A o \in OnRelay' : o \in OnRelay \/ o \in Outgoing(d)
      <4>1. \A n \in DOMAIN relay' : \/ n \in DOMAIN relay /\ relay'[n] = relay[n]
                                     \/ relay'[n] \in Outgoing(d)
        BY <2>2, Pushed
      <4> QED
        BY <4>1 DEF OnRelay
    <3> QED
      BY <3>1, <3>2 DEF SendsAll
  <2>3. CASE AbortPull(d) \/ NothingToPush(d) \/ PushFails(d) \/ MarkSynced(d)
    BY <2>3 DEF AbortPull, NothingToPush, PushFails, MarkSynced, EndCycle, TypeInv, TypeOK
  <2>4. CASE ApplyCommits(d) \/ ApplyLoses(d) \/ ApplyErrors(d)
    BY <2>4 DEF ApplyCommits, ApplyLoses, ApplyErrors, TakeFromBatch
  <2>5. CASE StartSync(d) \/ Pull(d) \/ PullNothing(d) \/ AdvanceSeq(d)
    BY <2>5 DEF StartSync, Pull, PullNothing, AdvanceSeq, Goto, TypeInv, TypeOK
  <2> QED
    BY <1>3, <2>1, <2>2, <2>3, <2>4, <2>5 DEF Cycle
<1> QED
  BY <1>1, <1>2, <1>3, StepOfDevice

LEMMA BatchIsTailStep ==
    ASSUME TypeInv, BatchesOnRelay, CursorInv, LogInv, BatchIsTail, [Next]_vars,
           NEW d \in Devices, pc'[d] = "apply", NEW m \in batch'[d]
    PROVE  /\ m <= cursor'[d]
           /\ \A n \in DOMAIN relay' :
                relay'[n].dev # d /\ m < n /\ n <= cursor'[d] => n \in batch'[d]
<1>1. /\ DOMAIN relay = 1..Len(relay) /\ Len(relay) \in Nat
      /\ DOMAIN relay' \subseteq Nat
      /\ \A n \in DOMAIN relay : relay'[n] = relay[n]
      /\ cursor[d] \in Nat /\ cursor[d] <= Len(relay)
  <2>1. relay' \in Seq(Op)
    BY TypeStep DEF TypeInv, TypeOK
  <2>2. cursor[d] \in Nat /\ cursor[d] <= Len(relay)
    BY DEF CursorInv, TypeInv, TypeOK
  <2>3. DOMAIN relay' = 1..Len(relay') /\ Len(relay') \in Nat
    BY <2>1, LenProperties
  <2> QED
    BY <2>2, <2>3, RelayType, RelayGrows
<1>2. \A n \in DOMAIN relay' : n <= cursor[d] => n \in DOMAIN relay
  <2>1. relay' \in Seq(Op)
    BY TypeStep DEF TypeInv, TypeOK
  <2>2. DOMAIN relay' = 1..Len(relay') /\ Len(relay') \in Nat
    BY <2>1, LenProperties
  <2> QED
    BY <1>1, <2>2
<1>3. ASSUME pc[d] = "apply", cursor'[d] = cursor[d], m \in batch[d],
             \A n \in batch[d] : m < n => n \in batch'[d]
      PROVE  /\ m <= cursor'[d]
             /\ \A n \in DOMAIN relay' :
                  relay'[n].dev # d /\ m < n /\ n <= cursor'[d] => n \in batch'[d]
  BY <1>1, <1>2, <1>3 DEF BatchIsTail
<1>4. CASE Quiet(d)
  BY <1>3, <1>4 DEF Quiet
<1>5. CASE Stops(d)
  BY <1>5 DEF Stops, EndCycle, TypeInv, TypeOK
<1>6. CASE Cycle(d)
  <2>1. CASE Pull(d)
    <3> DEFINE pending == Pending(d, cursor[d])
    <3>1. PICK top \in Page(pending) : /\ \A n \in Page(pending) : n <= top
                                       /\ cursor' = [cursor EXCEPT ![d] = top]
      BY <2>1 DEF Pull
    <3>2. /\ cursor'[d] = top /\ batch'[d] = Page(pending) /\ relay' = relay
      BY <2>1, <3>1 DEF Pull, TypeInv, TypeOK
    <3>3. pending \in SUBSET Nat /\ m \in pending
      BY <1>1, <3>2 DEF Pending, Page
    <3>4. ASSUME NEW n \in DOMAIN relay, relay[n].dev # d, m < n, n <= top
          PROVE  n \in Page(pending)
      <4>1. m > cursor[d] /\ m \in Nat /\ n \in Nat
        BY <1>1, <3>3 DEF Pending
      <4>2. n > cursor[d]
        BY <1>1, <3>4, <4>1
      <4>3. n \in pending
        BY <3>4, <4>2 DEF Pending
      <4> HIDE DEF pending
      <4> QED
        BY <3>1, <3>3, <3>4, <4>3, PageIsPrefix
    <3> QED
      BY <3>1, <3>2, <3>4
  <2>2. CASE ApplyCommits(d) \/ ApplyLoses(d) \/ ApplyErrors(d)
    <3>1. PICK n \in batch[d] : TakeFromBatch(d, n)
      BY <2>2 DEF ApplyCommits, ApplyLoses, ApplyErrors
    <3>2. /\ pc[d] = "apply" /\ batch'[d] = batch[d] \ {n} /\ cursor'[d] = cursor[d]
          /\ \A k \in batch[d] : n <= k
      BY <3>1 DEF TakeFromBatch, TypeInv, TypeOK
    <3>3. \A k \in batch[d] : k \in Nat
      BY DEF TypeInv, TypeOK
    <3> QED
      BY <1>3, <3>2, <3>3
  <2>3. CASE AbortPull(d) \/ NothingToPush(d) \/ PushFails(d) \/ MarkSynced(d)
    BY <2>3 DEF AbortPull, NothingToPush, PushFails, MarkSynced, EndCycle, TypeInv,
       TypeOK
  <2>4. CASE StartSync(d) \/ PullNothing(d) \/ AdvanceSeq(d) \/ LoadUnsynced(d) \/ Push(d)
    BY <2>4 DEF StartSync, PullNothing, AdvanceSeq, LoadUnsynced, Push, Goto, TypeInv,
       TypeOK
  <2> QED
    BY <1>6, <2>1, <2>2, <2>3, <2>4 DEF Cycle
<1> QED
  BY <1>4, <1>5, <1>6, StepOfDevice

LEMMA RowsStep ==
    ASSUME RejectRepeats, TypeInv, BatchesOnRelay, StoredInv, CursorInv, LogInv, RowsInv,
           [Next]_vars
    PROVE  RowsInv'
<1> USE DEF RowsInv
<1>1. ForeignOnRelay'
  <2> SUFFICES ASSUME NEW d \in Devices, NEW o \in oplog'[d], o.dev # d
               PROVE  o \in OnRelay'
    BY DEF ForeignOnRelay
  <2>1. CASE o \in oplog[d]
    BY <2>1, DataGrows DEF ForeignOnRelay
  <2>2. CASE o \notin oplog[d]
    BY <2>2, StepNewest, StoredStep DEF StoredInv, SyncedIsStored
  <2> QED
    BY <2>1, <2>2
<1>2. OneInsert' /\ InsertKnown' /\ InsertOldest'
  <2>1. ASSUME NEW d \in Devices, Acts(d)
        PROVE  OneInsert' /\ InsertKnown' /\ InsertOldest'
    BY <2>1, OneInsertStep, InsertKnownStep, InsertOldestStep
  <2>2. CASE UNCHANGED vars
    BY <2>2 DEF vars, store, uiVars, OneInsert, InsertKnown, InsertOldest, Own
  <2> QED
    BY <2>1, <2>2 DEF Next, Acts
<1>3. InsertFirst' /\ RelayInOrder'
  <2>1. CASE relay' = relay
    BY <2>1 DEF InsertFirst, RelayInOrder
  <2>2. ASSUME NEW e \in Devices, Push(e) PROVE InsertFirst' /\ RelayInOrder'
    BY <2>2, InsertFirstStep, RelayInOrderStep
  <2> QED
    BY <2>1, <2>2, RelayStep
<1>4. SendsAll'
  BY SendsAllStep DEF SendsAll
<1>5. BatchIsTail'
  BY BatchIsTailStep DEF BatchIsTail
<1> QED
  BY <1>1, <1>2, <1>3, <1>4, <1>5

-----------------------------------------------------------------------------
(***************************************************************************)
(* What holds of an uncontested row, while no device is stuck: a push      *)
(* whose answer was lost leaves its operations stored and not marked, and  *)
(* a relay that refuses repeats refuses every later push.  Such a device   *)
(* is never in sync again.  Without it the operations on the row have one  *)
(* order, the relay's and then that of the one device with more to push;   *)
(* each device knows a prefix of it, and its table reads as the prefix     *)
(* says.                                                                   *)
(***************************************************************************)
StuckAt(d) == pc[d] # "mark" /\ UnsyncedOps(d) \cap OnRelay # {}

\* Only a device that knows all there is on the row has something to push on it.
FreshKnowsAll(r) == \A f, e \in Devices : \A o \in oplog[f], p \in oplog[e] :
    o.row = r /\ o \notin OnRelay /\ p.row = r => p \in oplog[f]

\* A device that knows an operation of the relay knows those before it.
KnownIsPrefix(r) == \A d \in Devices : \A i, j \in DOMAIN relay :
    i < j /\ relay[i].row = r /\ relay[j].row = r /\ relay[j] \in oplog[d]
      => relay[i] \in oplog[d]

Recorded(d, n) == relay[n].dev # d => relay[n] \in oplog[d]

\* Nothing behind a cursor is missing, but what a failed page lacked a row for.
Left(d, r, n) == Recorded(d, n) \/ (failed[d] /\ table[d][r] = Absent)

Behind(d, n) == pc[d] = "apply" /\ n <= cursor[d] /\ n \notin batch[d]

PulledIsKnown(r) == \A d \in Devices : \A n \in DOMAIN relay : relay[n].row = r =>
    /\ n <= lastSeq[d] => Recorded(d, n)
    /\ Behind(d, n) => Left(d, r, n)

\* The order of the operations on a row.
Before(p, o) ==
    \/ \E i, j \in DOMAIN relay : i < j /\ relay[i] = p /\ relay[j] = o
    \/ o \notin OnRelay /\ (p \in OnRelay \/ p.ts < o.ts)

Writes(d, r) == {o \in OnRow(oplog[d], r) : o.kind \in {"insert", "update"}}
Marks(d, r)  == {o \in OnRow(oplog[d], r) : o.kind # "update"}

LatestWrite(d, r, o) == o \in Writes(d, r) /\ \A p \in Writes(d, r) : p = o \/ Before(p, o)
LatestMark(d, r, o)  == o \in Marks(d, r) /\ \A p \in Marks(d, r) : p = o \/ Before(p, o)

\* The row reads as the latest write and the latest insert, delete or restore
\* recorded say, but for a save that has yet to be recorded.
ByIs(d, r) ==
    IF SavedOn(d, r)
    THEN table[d][r].by = <<d, edit[d].at>>
    ELSE \E o \in Op : LatestWrite(d, r, o) /\ table[d][r].by = IdOf(o)

AliveIs(d, r) == \E o \in Op : LatestMark(d, r, o) /\ (Alive(d, r) <=> o.kind # "delete")

RowIs(d, r) ==
    /\ table[d][r] # Absent => ByIs(d, r)
    /\ OnRow(oplog[d], r) # {} => AliveIs(d, r)
    /\ FormOn(d, r) => Alive(d, r)

RowIsLatest(r) == \A d \in Devices : RowIs(d, r)

RowInv(r) == /\ FreshKnowsAll(r) /\ KnownIsPrefix(r)
             /\ PulledIsKnown(r) /\ RowIsLatest(r)

NoneStuck == \A d \in Devices : ~StuckAt(d)

ConvergeInv == NoneStuck => \A r \in Rows \ contested : RowInv(r)

\* Once stuck, a device stays stuck.
LEMMA StuckStays ==
    ASSUME RejectRepeats, TypeInv, BatchesOnRelay, CursorInv, LogInv, SendsAll,
           [Next]_vars, NEW d \in Devices, StuckAt(d)
    PROVE  StuckAt(d)'
<1>1. PICK o \in UnsyncedOps(d) : o \in OnRelay
  BY DEF StuckAt
<1>2. o \in oplog'[d] /\ o \in OnRelay' /\ o \notin synced[d] /\ pc[d] # "mark"
  BY <1>1, DataGrows DEF StuckAt, UnsyncedOps
<1> SUFFICES o \notin synced'[d] /\ pc'[d] # "mark"
  BY <1>2 DEF StuckAt, UnsyncedOps
<1>3. CASE Quiet(d)
  BY <1>2, <1>3 DEF Quiet
<1>4. CASE Stops(d)
  BY <1>2, <1>4 DEF Stops, EndCycle, store, TypeInv, TypeOK
<1>5. CASE Cycle(d)
  <2>1. ~Push(d)
    <3>1. pc[d] = "send" => o \in Outgoing(d)
      BY <1>1 DEF SendsAll
    <3> QED
      BY <1>1, <3>1 DEF Push, PushRefused
  <2>2. CASE ApplyCommits(d)
    <3>1. PICK n \in DOMAIN relay : Commits(d, n)
      BY <2>2, ApplyIsCommit
    <3> QED
      BY <1>1, <1>2, <3>1 DEF Commits, UnsyncedOps
  <2>3. CASE StartSync(d) \/ Pull(d) \/ PullNothing(d) \/ AdvanceSeq(d) \/ LoadUnsynced(d)
    BY <1>2, <2>3 DEF StartSync, Pull, PullNothing, AdvanceSeq, LoadUnsynced, Goto, store,
       TypeInv, TypeOK
  <2>4. CASE ApplyLoses(d) \/ ApplyErrors(d)
    BY <1>2, <2>4 DEF ApplyLoses, ApplyErrors, TakeFromBatch
  <2>5. CASE AbortPull(d) \/ NothingToPush(d) \/ PushFails(d)
    BY <1>2, <2>5 DEF AbortPull, NothingToPush, PushFails, EndCycle, store, TypeInv, TypeOK
  <2> QED
    BY <1>2, <1>5, <2>1, <2>2, <2>3, <2>4, <2>5 DEF Cycle, MarkSynced
<1> QED
  BY <1>3, <1>4, <1>5, StepOfDevice

\* A step keeps the order of what a device knows.
LEMMA BeforeKept ==
    ASSUME TypeInv, BatchesOnRelay, StoredInv, CursorInv, LogInv, ForeignOnRelay,
           [Next]_vars, NEW d \in Devices, NEW p \in oplog[d], NEW o \in oplog[d],
           Before(p, o)
    PROVE  Before(p, o)'
<1>1. /\ DOMAIN relay \subseteq DOMAIN relay'
      /\ \A n \in DOMAIN relay : relay'[n] = relay[n]
      /\ OnRelay \subseteq OnRelay'
  BY RelayGrows, DataGrows
<1>2. CASE \E i, j \in DOMAIN relay : i < j /\ relay[i] = p /\ relay[j] = o
  BY <1>1, <1>2 DEF Before
<1>3. CASE o \notin OnRelay /\ (p \in OnRelay \/ p.ts < o.ts)
  <2>1. CASE o \notin OnRelay'
    BY <1>1, <1>3, <2>1 DEF Before
  <2>2. CASE o \in OnRelay'
    <3>1. PICK j \in DOMAIN relay' : o = relay'[j]
      BY <2>2 DEF OnRelay
    <3>2. j \notin DOMAIN relay
      BY <1>1, <1>3, <3>1 DEF OnRelay
    <3>3. PICK e \in Devices : Push(e)
      BY <3>1, <3>2, RelayStep
    <3>4. /\ Len(relay) \in Nat /\ Len(outbox[e]) \in Nat
          /\ DOMAIN relay = 1..Len(relay)
          /\ DOMAIN relay' = 1..(Len(relay) + Len(outbox[e]))
          /\ DOMAIN outbox[e] = 1..Len(outbox[e])
          /\ \A i \in DOMAIN outbox[e] : relay'[Len(relay) + i] = outbox[e][i]
      BY <3>3, Pushed
    <3>5. /\ j - Len(relay) \in DOMAIN outbox[e] /\ o = outbox[e][j - Len(relay)]
          /\ o \in Outgoing(e) /\ pc[e] = "send"
      BY <3>1, <3>2, <3>3, Pushed DEF Push
    <3>6. CASE p \in OnRelay
      <4>1. PICK i \in DOMAIN relay : p = relay[i]
        BY <3>6 DEF OnRelay
      <4>2. i < j
        BY <3>1, <3>2, <3>4, <4>1
      <4> QED
        BY <1>1, <3>1, <4>1, <4>2 DEF Before
    <3>7. CASE p \notin OnRelay
      <4>1. p.ts < o.ts
        BY <1>3, <3>7
      <4>2. o \in Own(e) /\ o \in oplog[d] /\ o \notin OnRelay
        BY <1>3, <3>5, SentIsOwn
      <4>3. d = e
        BY <4>2 DEF ForeignOnRelay, Own
      <4>4. p \in Own(e) /\ p.ts \in Nat /\ o.ts \in Nat
        BY <3>7, <4>2, <4>3, OwnType DEF ForeignOnRelay, Own
      <4>5. p \in Outgoing(e)
        BY <3>5, <3>7, <4>1, <4>3, <4>4, PushedBefore
      <4>6. PICK k \in DOMAIN outbox[e] : p = outbox[e][k]
        BY <4>5 DEF Outgoing
      <4>7. k < j - Len(relay)
        <5>1. \A x, y \in DOMAIN outbox[e] : x < y => outbox[e][x].ts < outbox[e][y].ts
          BY <3>5 DEF LogInv, PushInOrder
        <5>2. k # j - Len(relay)
          BY <3>5, <4>1, <4>4, <4>6
        <5>3. ~(j - Len(relay) < k)
          BY <3>5, <4>1, <4>4, <4>6, <5>1
        <5> QED
          BY <3>4, <3>5, <4>6, <5>2, <5>3
      <4>8. Len(relay) + k \in DOMAIN relay' /\ Len(relay) + k < j
        BY <3>1, <3>4, <4>6, <4>7
      <4> QED
        BY <3>1, <3>4, <4>6, <4>8 DEF Before
    <3> QED
      BY <3>6, <3>7
  <2> QED
    BY <2>1, <2>2
<1> QED
  BY <1>2, <1>3 DEF Before

\* A device that lacks an operation of the relay has nothing of its own to
\* push on the row.
LEMMA NoRivals ==
    ASSUME TypeInv, LogInv, NEW r \in Rows, FreshKnowsAll(r), NEW d \in Devices,
           NEW n \in DOMAIN relay, relay[n].row = r, relay[n] \notin oplog[d],
           NEW o \in oplog[d], o.row = r
    PROVE  o \in OnRelay
BY AuthorKnows DEF FreshKnowsAll

\* ... so that none on an uncontested row ever loses to a local one.
LEMMA NoneLoses ==
    ASSUME TypeInv, LogInv, NEW r \in Rows, FreshKnowsAll(r), NEW d \in Devices,
           ~StuckAt(d), pc[d] = "apply",
           NEW n \in DOMAIN relay, relay[n].row = r, relay[n] \notin oplog[d]
    PROVE  ~LosesLocally(d, relay[n])
<1> SUFFICES ASSUME NEW o \in UnsyncedOps(d), o.row = r PROVE FALSE
  BY DEF LosesLocally, OnRow
<1>1. o \in OnRelay
  BY NoRivals DEF UnsyncedOps
<1> QED
  BY <1>1 DEF StuckAt

\* The insert of a row is the relay's first operation on it.
LEMMA InsertIsFirst ==
    ASSUME TypeInv, LogInv, OneInsert, InsertFirst, RelayInOrder,
           NEW n \in DOMAIN relay, NEW m \in DOMAIN relay,
           relay[m].kind = "insert", relay[m].row = relay[n].row
    PROVE  m <= n
<1>1. PICK i \in DOMAIN relay : /\ i <= n /\ relay[i].kind = "insert"
                                /\ relay[i].row = relay[n].row
  BY DEF InsertFirst
<1>2. relay[i] = relay[m]
  BY <1>1, AuthorKnows DEF OneInsert
<1>3. i = m
  BY <1>2, NoRepeats
<1> QED
  BY <1>1, <1>3

\* What is committed is preceded by operations all known.
LEMMA CommitPrefix ==
    ASSUME TypeInv, BatchesOnRelay, LogInv, RowsInv, NEW r \in Rows, PulledIsKnown(r),
           NEW d \in Devices, NEW n \in DOMAIN relay, Commits(d, n), relay[n].row = r,
           NEW i \in DOMAIN relay, i < n, relay[i].row = r
    PROVE  relay[i] \in oplog[d]
<1>1. /\ n \in batch[d] /\ pc[d] = "apply" /\ \A m \in batch[d] : n <= m
      /\ Applicable(table[d], relay[n])
  BY DEF Commits
<1>2. i \in Nat /\ n \in Nat /\ cursor[d] \in Nat
  <2>1. cursor[d] \in Nat
    BY DEF TypeInv, TypeOK
  <2> QED
    BY <2>1, RelayType
<1>3. n <= cursor[d]
  BY <1>1 DEF RowsInv, BatchIsTail
<1>4. Behind(d, i)
  BY <1>1, <1>2, <1>3 DEF Behind
<1>5. Left(d, r, i)
  BY <1>4 DEF PulledIsKnown
<1>6. relay[i].dev = d => relay[i] \in oplog[d]
  BY AuthorKnows
<1>7. CASE table[d][r] = Absent
  <2>1. relay[n].kind = "insert"
    BY <1>1, <1>7 DEF Applicable
  <2>2. n <= i
    BY <2>1, InsertIsFirst DEF RowsInv
  <2> QED
    BY <1>2, <2>2
<1> QED
  BY <1>5, <1>6, <1>7 DEF Left, Recorded

LEMMA FreshStep ==
    ASSUME TypeInv, BatchesOnRelay, LogInv, RowsInv, [Next]_vars,
           NEW r \in Rows \ contested', FreshKnowsAll(r)
    PROVE  FreshKnowsAll(r)'
<1> SUFFICES ASSUME NEW f \in Devices, NEW e \in Devices,
                    NEW o \in oplog'[f], NEW p \in oplog'[e],
                    o.row = r, o \notin OnRelay', p.row = r
             PROVE  p \in oplog'[f]
  BY DEF FreshKnowsAll
<1>1. /\ oplog[f] \subseteq oplog'[f] /\ o \notin OnRelay
  BY DataGrows
<1>2. CASE oplog'[f] = oplog[f] /\ oplog'[e] = oplog[e]
  BY <1>1, <1>2 DEF FreshKnowsAll
<1>3. ASSUME NEW d \in Devices, Acts(d) PROVE p \in oplog'[f]
  <2>1. \A x \in Devices : x # d => oplog'[x] = oplog[x]
    BY <1>3, OthersStill DEF Still
  <2>2. ASSUME NEW op \in Op, Logs(d, op) PROVE p \in oplog'[f]
    <3>1. oplog'[d] = oplog[d] \cup {op}
      BY <2>2 DEF Logs
    <3>2. CASE op.row # r
      BY <1>1, <2>1, <3>1, <3>2 DEF FreshKnowsAll
    <3>3. CASE op.row = r
      <4>1. \A x \in Devices : \A q \in oplog[x] : q.row = r => q \in oplog[d]
        BY <2>2, <3>3 DEF Logs, OnRow
      <4>2. CASE f = d
        BY <2>1, <3>1, <4>1, <4>2
      <4>3. CASE f # d
        <5>1. o \in oplog[f] /\ o \in oplog[d]
          BY <2>1, <4>1, <4>3
        <5> QED
          BY <1>1, <4>3, <5>1 DEF RowsInv, ForeignOnRelay
      <4> QED
        BY <4>2, <4>3
    <3> QED
      BY <3>2, <3>3
  <2>3. ASSUME NEW n \in DOMAIN relay, Commits(d, n) PROVE p \in oplog'[f]
    <3>1. oplog'[d] = oplog[d] \cup {relay[n]}
      BY <2>3 DEF Commits
    <3>2. o \in oplog[f]
      BY <1>1, <2>1, <3>1 DEF OnRelay
    <3>3. \E x \in Devices : p \in oplog[x]
      BY <2>1, <3>1, AuthorKnows
    <3> QED
      BY <1>1, <3>2, <3>3 DEF FreshKnowsAll
  <2>4. CASE Edits(d) \/ Rests(d)
    BY <1>2, <2>1, <2>4 DEF Edits, Rests
  <2> QED
    BY <1>3, <2>2, <2>3, <2>4, StepKinds
<1>4. CASE UNCHANGED vars
  BY <1>2, <1>4 DEF vars, store
<1> QED
  BY <1>3, <1>4 DEF Next, Acts

\* What a device newly records of the relay it has just committed.
LEMMA RecordedStep ==
    ASSUME TypeInv, BatchesOnRelay, LogInv, RelayInOrder, [Next]_vars,
           NEW d \in Devices, NEW j \in DOMAIN relay,
           relay[j] \in oplog'[d], relay[j] \notin oplog[d]
    PROVE  Commits(d, j)
<1>1. relay[j] \in OnRelay
  BY DEF OnRelay
<1>2. oplog'[d] # oplog[d]
  OBVIOUS
<1>3. Acts(d)
  <2>1. CASE UNCHANGED vars
    BY <1>2, <2>1 DEF vars, store
  <2>2. ASSUME NEW e \in Devices, Acts(e), e # d PROVE FALSE
    BY <1>2, <2>2, OthersStill DEF Still
  <2> QED
    BY <2>1, <2>2 DEF Next, Acts
<1>4. ASSUME NEW op \in Op, Logs(d, op) PROVE FALSE
  <2>1. op \notin OnRelay /\ oplog'[d] = oplog[d] \cup {op}
    BY <1>4, LogsNewest DEF Logs
  <2> QED
    BY <1>1, <2>1
<1>5. ~Edits(d) /\ ~Rests(d)
  BY <1>2 DEF Edits, Rests
<1>6. PICK n \in DOMAIN relay : Commits(d, n)
  BY <1>3, <1>4, <1>5, StepKinds
<1>7. relay[j] = relay[n]
  BY <1>6 DEF Commits
<1>8. j = n
  BY <1>7, NoRepeats
<1> QED
  BY <1>6, <1>8

LEMMA PrefixStep ==
    ASSUME RejectRepeats, TypeInv, BatchesOnRelay, CursorInv, LogInv, RowsInv,
           [Next]_vars, NEW r \in Rows,
           FreshKnowsAll(r), KnownIsPrefix(r), PulledIsKnown(r)
    PROVE  KnownIsPrefix(r)'
<1> SUFFICES ASSUME NEW d \in Devices, NEW i \in DOMAIN relay', NEW j \in DOMAIN relay',
                    i < j, relay'[i].row = r, relay'[j].row = r, relay'[j] \in oplog'[d]
             PROVE  relay'[i] \in oplog'[d]
  BY DEF KnownIsPrefix
<1>1. /\ oplog[d] \subseteq oplog'[d]
      /\ \A n \in DOMAIN relay : relay'[n] = relay[n]
  BY DataGrows, RelayGrows
<1>2. CASE i \in DOMAIN relay /\ j \in DOMAIN relay
  <2>1. CASE relay[j] \in oplog[d]
    BY <1>1, <1>2, <2>1 DEF KnownIsPrefix
  <2>2. CASE relay[j] \notin oplog[d]
    <3>1. Commits(d, j)
      BY <1>1, <1>2, <2>2, RecordedStep DEF RowsInv
    <3>2. relay[i] \in oplog[d]
      BY <1>1, <1>2, <3>1, CommitPrefix
    <3> QED
      BY <1>1, <1>2, <3>2
  <2> QED
    BY <2>1, <2>2
<1>3. CASE ~(i \in DOMAIN relay /\ j \in DOMAIN relay)
  <2>1. PICK e \in Devices : Push(e)
    BY <1>3, RelayStep
  <2>2. /\ DOMAIN relay = 1..Len(relay) /\ DOMAIN relay' \subseteq Nat
        /\ Len(relay) \in Nat /\ \A n \in DOMAIN relay' : n >= 1
    BY <2>1, Pushed
  <2>3. j \notin DOMAIN relay
    BY <1>3, <2>2
  <2>4. /\ pc[e] = "send" /\ Outgoing(e) \cap OnRelay = {} /\ oplog' = oplog
    BY <2>1 DEF Push, PushRefused, store
  <2> DEFINE o == relay'[j]
  <2>5. o \in Outgoing(e) /\ o \in Own(e) /\ o \notin OnRelay
    BY <2>1, <2>3, <2>4, Pushed, SentIsOwn
  <2>6. d = e
    BY <2>4, <2>5 DEF RowsInv, ForeignOnRelay, Own
  <2>7. CASE i \in DOMAIN relay
    <3>1. \E x \in Devices : relay[i] \in oplog[x]
      BY <2>7, AuthorKnows
    <3> QED
      BY <1>1, <2>4, <2>5, <2>6, <2>7, <3>1 DEF FreshKnowsAll
  <2>8. CASE i \notin DOMAIN relay
    <3>1. relay'[i] \in Own(e)
      BY <2>1, <2>4, <2>8, Pushed, SentIsOwn
    <3> QED
      BY <1>1, <2>6, <3>1 DEF Own
  <2> QED
    BY <2>7, <2>8
<1> QED
  BY <1>2, <1>3

\* A row that a device lacks stays away while it applies a page.
LEMMA AbsentStays ==
    ASSUME TypeInv, BatchesOnRelay, LogInv, RowsInv, [Next]_vars, NEW r \in Rows,
           NEW d \in Devices, NEW n \in DOMAIN relay, relay[n].row = r,
           Behind(d, n), relay[n].dev # d, table[d][r] = Absent
    PROVE  table'[d][r] = Absent
<1>1. CASE table'[d] = table[d]
  BY <1>1
<1>2. ASSUME NEW op \in Op, Logs(d, op), LogsRow(d, op)
      PROVE  table'[d][r] = Absent
  <2>1. CASE op.row # r
    BY <1>2, <2>1 DEF Logs
  <2>2. CASE op.row = r
    <3>1. op.kind # "insert"
      <4>1. \E e \in Devices : OnRow(oplog[e], r) # {}
        BY AuthorKnows DEF OnRow
      <4> QED
        BY <1>2, <2>2, <4>1 DEF LogsRow
    <3> QED
      BY <1>2, <2>2, <3>1 DEF LogsRow
  <2> QED
    BY <2>1, <2>2
<1>3. CASE Edits(d)
  <2>1. ASSUME \A q \in Rows \ {edit[d].row} : table'[d][q] = table[d][q],
               ~Alive(d, edit[d].row) => table'[d][edit[d].row] = table[d][edit[d].row]
        PROVE  table'[d][r] = Absent
    BY <2>1 DEF Alive
  <2> QED
    BY <1>1, <1>3, <2>1 DEF Edits
<1>4. ASSUME NEW m \in DOMAIN relay, Commits(d, m)
      PROVE  table'[d][r] = Absent
  <2>1. CASE relay[m].row # r
    BY <1>4, <2>1 DEF Commits
  <2>2. CASE relay[m].row = r
    <3>1. relay[m].kind = "insert" /\ m \in batch[d] /\ pc[d] = "apply"
      BY <1>4, <2>2 DEF Commits, Applicable
    <3>2. m <= n
      BY <2>2, <3>1, InsertIsFirst DEF RowsInv
    <3>3. m \in Nat /\ n \in Nat /\ m # n /\ n <= cursor[d] /\ n \notin batch[d]
      BY <3>1, RelayType DEF Behind
    <3> QED
      BY <3>1, <3>2, <3>3 DEF RowsInv, BatchIsTail
  <2> QED
    BY <2>1, <2>2
<1>5. CASE Rests(d)
  BY <1>1, <1>5 DEF Rests
<1>6. ASSUME NEW e \in Devices, Acts(e), e # d
      PROVE  table'[d][r] = Absent
  BY <1>1, <1>6, OthersStill DEF Still
<1>7. CASE UNCHANGED vars
  BY <1>1, <1>7 DEF vars, store
<1>8. CASE Acts(d)
  BY <1>2, <1>3, <1>4, <1>5, <1>8, StepKinds
<1> QED
  BY <1>6, <1>7, <1>8 DEF Next, Acts

\* What is left behind a cursor stays so as long as the page does.
LEMMA LeftStays ==
    ASSUME TypeInv, BatchesOnRelay, LogInv, RowsInv, [Next]_vars, NEW r \in Rows,
           NEW d \in Devices, NEW n \in DOMAIN relay, relay[n].row = r,
           Behind(d, n), Left(d, r, n), failed[d] => failed'[d]
    PROVE  Left(d, r, n)'
<1>1. relay'[n] = relay[n] /\ oplog[d] \subseteq oplog'[d]
  BY RelayGrows, DataGrows
<1>2. CASE Recorded(d, n)
  BY <1>1, <1>2 DEF Left, Recorded
<1>3. CASE ~Recorded(d, n)
  <2>1. failed[d] /\ table[d][r] = Absent /\ relay[n].dev # d
    BY <1>3 DEF Left, Recorded
  <2>2. table'[d][r] = Absent
    BY <2>1, AbsentStays
  <2> QED
    BY <2>1, <2>2 DEF Left
<1> QED
  BY <1>2, <1>3

LEMMA PulledStep ==
    ASSUME TypeInv, BatchesOnRelay, CursorInv, LogInv, RowsInv, NoneStuck, [Next]_vars,
           NEW r \in Rows, FreshKnowsAll(r), PulledIsKnown(r)
    PROVE  PulledIsKnown(r)'
<1> SUFFICES ASSUME NEW d \in Devices, NEW n \in DOMAIN relay', relay'[n].row = r
             PROVE  /\ n <= lastSeq'[d] => Recorded(d, n)'
                    /\ Behind(d, n)' => Left(d, r, n)'
  BY DEF PulledIsKnown
<1> DEFINE Goal == /\ n <= lastSeq'[d] => Recorded(d, n)'
                   /\ Behind(d, n)' => Left(d, r, n)'
<1>1. /\ lastSeq'[d] <= Len(relay) /\ cursor'[d] <= Len(relay)
      /\ lastSeq'[d] \in Nat /\ cursor'[d] \in Nat
  <2>1. lastSeq'[d] \in Nat /\ cursor'[d] \in Nat
    BY TypeStep DEF TypeInv, TypeOK
  <2>2. /\ lastSeq[d] <= Len(relay) /\ cursor[d] <= Len(relay) /\ 0 <= Len(relay)
    BY RelayType DEF CursorInv
  <2>3. CASE Quiet(d)
    BY <2>1, <2>2, <2>3 DEF Quiet
  <2>4. CASE Stops(d)
    BY <2>1, <2>2, <2>4 DEF Stops, EndCycle, store, TypeInv, TypeOK
  <2>5. CASE Cycle(d)
    BY <2>1, <2>5, CursorCycle
  <2> QED
    BY <2>3, <2>4, <2>5, StepOfDevice
<1>2. /\ DOMAIN relay = 1..Len(relay) /\ Len(relay) \in Nat /\ n \in Nat /\ n >= 1
      /\ \A m \in DOMAIN relay : relay'[m] = relay[m]
  <2>1. relay' \in Seq(Op)
    BY TypeStep DEF TypeInv, TypeOK
  <2>2. DOMAIN relay' = 1..Len(relay') /\ Len(relay') \in Nat
    BY <2>1, LenProperties
  <2> QED
    BY <2>2, RelayType, RelayGrows
<1>3. CASE n \notin DOMAIN relay
  BY <1>1, <1>2, <1>3 DEF Behind
<1>4. CASE n \in DOMAIN relay
  <2> USE <1>4
  <2>1. relay'[n] = relay[n] /\ relay[n].row = r /\ oplog[d] \subseteq oplog'[d]
    BY <1>2, DataGrows
  <2>2. /\ n <= lastSeq[d] => Recorded(d, n)
        /\ Behind(d, n) => Left(d, r, n)
    BY <2>1 DEF PulledIsKnown
  <2>3. Recorded(d, n) => Recorded(d, n)'
    BY <2>1 DEF Recorded
  <2>4. CASE lastSeq'[d] = lastSeq[d] /\ pc'[d] # "apply"
    BY <2>2, <2>3, <2>4 DEF Behind
  <2>5. CASE /\ lastSeq'[d] = lastSeq[d] /\ pc[d] = "apply"
             /\ cursor'[d] = cursor[d] /\ n \notin batch[d] /\ (failed[d] => failed'[d])
    <3>1. Behind(d, n)' => Behind(d, n)
      BY <2>5 DEF Behind
    <3>2. Behind(d, n) => Left(d, r, n)'
      BY <2>1, <2>2, <2>5, LeftStays
    <3> QED
      BY <2>2, <2>3, <2>5, <3>1, <3>2
  <2>6. CASE Quiet(d)
    <3>1. CASE pc[d] = "apply" /\ n \notin batch[d]
      BY <2>5, <2>6, <3>1 DEF Quiet
    <3>2. CASE ~(pc[d] = "apply" /\ n \notin batch[d])
      BY <2>2, <2>3, <2>6, <3>2 DEF Quiet, Behind
    <3> QED
      BY <3>1, <3>2
  <2>7. CASE Stops(d)
    BY <2>4, <2>7 DEF Stops, EndCycle, store, TypeInv, TypeOK
  <2>8. CASE Cycle(d)
    <3>1. CASE Pull(d)
      <4> DEFINE pending == Pending(d, cursor[d])
      <4>1. PICK top \in Page(pending) : cursor' = [cursor EXCEPT ![d] = top]
        BY <3>1 DEF Pull
      <4>2. /\ pc[d] = "pull" /\ cursor'[d] = top /\ batch'[d] = Page(pending)
            /\ lastSeq'[d] = lastSeq[d] /\ cursor[d] = lastSeq[d] /\ cursor[d] \in Nat
        BY <3>1, <4>1 DEF Pull, store, CursorInv, TypeInv, TypeOK
      <4>3. pending \in SUBSET Nat
        BY <1>2 DEF Pending
      <4>4. ASSUME n <= top, n \notin Page(pending), relay[n].dev # d
            PROVE  n <= lastSeq[d]
        <5>1. n \notin pending
          <6> HIDE DEF pending
          <6> QED
            BY <4>3, <4>4, PageIsPrefix
        <5> QED
          BY <1>2, <4>2, <4>4, <5>1 DEF Pending
      <4>5. Behind(d, n)' => n <= top /\ n \notin Page(pending)
        BY <4>2 DEF Behind
      <4>6. relay[n].dev = d => Recorded(d, n)
        BY DEF Recorded
      <4> QED
        BY <2>2, <2>3, <4>2, <4>4, <4>5, <4>6 DEF Left
    <3>2. CASE ApplyCommits(d)
      <4>1. PICK m \in DOMAIN relay : Commits(d, m)
        BY <3>2, ApplyIsCommit
      <4>2. CASE n = m
        <5>1. Recorded(d, n)'
          BY <2>1, <4>1, <4>2 DEF Commits, Recorded
        <5> QED
          BY <5>1 DEF Left
      <4>3. CASE n # m
        <5>1. CASE n \in batch[d]
          BY <2>2, <2>3, <4>1, <4>3, <5>1 DEF Commits, Behind
        <5>2. CASE n \notin batch[d]
          BY <2>5, <4>1, <5>2 DEF Commits
        <5> QED
          BY <5>1, <5>2
      <4> QED
        BY <4>2, <4>3
    <3>3. ASSUME NEW m \in batch[d], TakeFromBatch(d, m), failed[d] => failed'[d],
                 n = m => Left(d, r, n)'
          PROVE  Goal
      <4>1. /\ pc[d] = "apply" /\ pc'[d] = pc[d] /\ cursor'[d] = cursor[d]
            /\ lastSeq'[d] = lastSeq[d] /\ batch'[d] = batch[d] \ {m}
        BY <3>3 DEF TakeFromBatch, TypeInv, TypeOK
      <4>2. CASE n = m
        BY <2>2, <2>3, <3>3, <4>1, <4>2
      <4>3. CASE n # m /\ n \in batch[d]
        BY <2>2, <2>3, <4>1, <4>3 DEF Behind
      <4>4. CASE n # m /\ n \notin batch[d]
        BY <2>5, <3>3, <4>1, <4>4
      <4> QED
        BY <4>2, <4>3, <4>4
    <3>4. CASE ApplyLoses(d)
      <4>1. PICK m \in batch[d] : /\ TakeFromBatch(d, m) /\ ~ApplyFails(d, relay[m])
                                  /\ LosesLocally(d, relay[m])
        BY <3>4 DEF ApplyLoses
      <4>2. pc[d] = "apply" /\ failed' = failed
        BY <3>4, <4>1 DEF ApplyLoses, TakeFromBatch
      <4>3. n # m
        BY <2>1, <4>1, <4>2, NoneLoses DEF ApplyFails, NoneStuck
      <4> QED
        BY <3>3, <4>1, <4>2, <4>3
    <3>5. CASE ApplyErrors(d)
      <4>1. PICK m \in batch[d] : TakeFromBatch(d, m) /\ ApplyFails(d, relay[m])
        BY <3>5 DEF ApplyErrors
      <4>2. failed'[d] /\ UNCHANGED <<table, oplog>> /\ pc[d] = "apply"
        BY <3>5, <4>1 DEF ApplyErrors, TakeFromBatch, TypeInv, TypeOK
      <4>3. ASSUME n = m, relay[n] \notin oplog[d] PROVE table[d][r] = Absent
        <5>1. ~Applicable(table[d], relay[n])
          BY <4>1, <4>3 DEF ApplyFails
        <5>2. CASE relay[n].kind # "insert"
          BY <2>1, <5>1, <5>2 DEF Applicable
        <5>3. CASE relay[n].kind = "insert" /\ table[d][r] # Absent
          <6>1. PICK i \in oplog[d] : i.kind = "insert" /\ i.row = r
            BY <5>3 DEF RowsInv, InsertKnown, HasInsert
          <6>2. i = relay[n]
            BY <2>1, <5>3, <6>1, AuthorKnows DEF RowsInv, OneInsert
          <6> QED
            BY <4>3, <6>1, <6>2
        <5> QED
          BY <5>2, <5>3
      <4>4. n = m => Left(d, r, n)'
        BY <2>1, <4>2, <4>3 DEF Left, Recorded
      <4> QED
        BY <3>3, <4>1, <4>2, <4>4
    <3>6. CASE AdvanceSeq(d)
      <4>1. /\ pc[d] = "apply" /\ batch[d] = {} /\ ~failed[d]
            /\ lastSeq'[d] = cursor[d] /\ pc'[d] # "apply"
        BY <3>6 DEF AdvanceSeq, Goto, TypeInv, TypeOK
      <4>2. n <= cursor[d] => Recorded(d, n)
        BY <2>2, <4>1 DEF Behind, Left
      <4> QED
        BY <2>3, <4>1, <4>2 DEF Behind
    <3>7. CASE StartSync(d) \/ PullNothing(d) \/ LoadUnsynced(d) \/ Push(d)
      BY <2>4, <3>7 DEF StartSync, PullNothing, LoadUnsynced, Push, Goto, store, TypeInv,
         TypeOK
    <3>8. CASE AbortPull(d) \/ NothingToPush(d) \/ PushFails(d) \/ MarkSynced(d)
      BY <2>4, <3>8 DEF AbortPull, NothingToPush, PushFails, MarkSynced, EndCycle, store,
         TypeInv, TypeOK
    <3> QED
      BY <2>8, <3>1, <3>2, <3>3, <3>4, <3>5, <3>6, <3>7, <3>8 DEF Cycle
  <2> QED
    BY <2>6, <2>7, <2>8, StepOfDevice
<1> QED
  BY <1>3, <1>4

\* What an operation leaves of the row it is applied to.
LEMMA WrittenReads ==
    ASSUME NEW op \in Op, NEW row \in Row \cup {Absent}, op.kind = "insert" \/ row # Absent
    PROVE  /\ Written(row, op) # Absent /\ Written(row, op) \in Row
           /\ op.kind \in {"insert", "update"} => Written(row, op).by = IdOf(op)
           /\ op.kind \notin {"insert", "update"} => Written(row, op).by = row.by
           /\ op.kind = "update" => Written(row, op).gone = row.gone
           /\ op.kind # "update" => (Written(row, op).gone <=> op.kind = "delete")
<1>1. Written(row, op) \in Row
  BY WrittenType
<1>2. Written(row, op) # Absent
  BY <1>1, SyncOpsAssumption
<1>3. CASE op.kind = "insert"
  BY <1>1, <1>2, <1>3 DEF Written
<1>4. CASE op.kind = "update"
  BY <1>1, <1>2, <1>4 DEF Written, Row
<1>5. CASE op.kind \notin {"insert", "update"}
  BY <1>1, <1>2, <1>5 DEF Written, Row
<1> QED
  BY <1>3, <1>4, <1>5

\* The row and what is known of it stay: it goes on reading as it should.
LEMMA RowKept ==
    ASSUME TypeInv, BatchesOnRelay, StoredInv, CursorInv, LogInv, ForeignOnRelay,
           [Next]_vars, NEW d \in Devices, NEW r \in Rows, RowIs(d, r),
           OnRow(oplog[d], r)' = OnRow(oplog[d], r), table'[d][r] = table[d][r],
           \/ edit'[d] = edit[d]
           \/ ~SavedOn(d, r) /\ ~SavedOn(d, r)' /\ (FormOn(d, r)' => Alive(d, r))
    PROVE  RowIs(d, r)'
<1>1. Writes(d, r)' = Writes(d, r) /\ Marks(d, r)' = Marks(d, r)
  BY DEF Writes, Marks
<1>2. /\ Writes(d, r) \subseteq oplog[d] /\ Marks(d, r) \subseteq oplog[d]
  BY DEF Writes, Marks, OnRow
<1>3. \A o \in Op : LatestWrite(d, r, o) => LatestWrite(d, r, o)'
  BY <1>1, <1>2, BeforeKept DEF LatestWrite
<1>4. \A o \in Op : LatestMark(d, r, o) => LatestMark(d, r, o)'
  BY <1>1, <1>2, BeforeKept DEF LatestMark
<1>5. (Alive(d, r) <=> Alive(d, r)') /\ (table'[d][r] # Absent <=> table[d][r] # Absent)
  BY DEF Alive
<1>6. AliveIs(d, r) => AliveIs(d, r)'
  BY <1>4, <1>5 DEF AliveIs
<1>7. table[d][r] # Absent => ByIs(d, r)'
  <2>1. CASE edit'[d] = edit[d]
    BY <1>3, <2>1 DEF RowIs, ByIs, SavedOn
  <2>2. CASE ~SavedOn(d, r) /\ ~SavedOn(d, r)'
    BY <1>3, <2>2 DEF RowIs, ByIs
  <2> QED
    BY <2>1, <2>2
<1>8. FormOn(d, r)' => Alive(d, r)
  BY DEF RowIs, FormOn
<1> QED
  BY <1>5, <1>6, <1>7, <1>8 DEF RowIs

\* d records op, after all it knows of op's row.
Takes(d, op) ==
    /\ OnRow(oplog[d], op.row)' = OnRow(oplog[d], op.row) \cup {op}
    /\ \A p \in OnRow(oplog[d], op.row) : Before(p, op)'
    /\ ~FormOn(d, op.row)'

LEMMA TakesLatest ==
    ASSUME TypeInv, BatchesOnRelay, StoredInv, CursorInv, LogInv, ForeignOnRelay,
           [Next]_vars, NEW d \in Devices, NEW op \in Op, Takes(d, op)
    PROVE  /\ op.kind \in {"insert", "update"} => LatestWrite(d, op.row, op)'
           /\ op.kind \notin {"insert", "update"} =>
                \A o \in Op : LatestWrite(d, op.row, o) => LatestWrite(d, op.row, o)'
           /\ op.kind # "update" => LatestMark(d, op.row, op)'
           /\ op.kind = "update" =>
                \A o \in Op : LatestMark(d, op.row, o) => LatestMark(d, op.row, o)'
           /\ OnRow(oplog[d], op.row)' # {}
<1> DEFINE r == op.row
<1>1. /\ OnRow(oplog[d], r)' = OnRow(oplog[d], r) \cup {op}
      /\ \A p \in OnRow(oplog[d], r) : Before(p, op)'
  BY DEF Takes
<1>2. \A p \in OnRow(oplog[d], r) : p \in oplog[d]
  BY DEF OnRow
<1>3. \A o, p \in OnRow(oplog[d], r) : Before(p, o) => Before(p, o)'
  BY <1>2, BeforeKept
<1> HIDE DEF r
<1>4. CASE op.kind = "insert"
  <2>1. Writes(d, r)' = Writes(d, r) \cup {op} /\ Marks(d, r)' = Marks(d, r) \cup {op}
    BY <1>1, <1>4 DEF Writes, Marks
  <2> QED
    BY <1>1, <1>4, <2>1 DEF LatestWrite, LatestMark, Writes, Marks, r
<1>5. CASE op.kind = "update"
  <2>1. Writes(d, r)' = Writes(d, r) \cup {op} /\ Marks(d, r)' = Marks(d, r)
    BY <1>1, <1>5 DEF Writes, Marks
  <2> QED
    BY <1>1, <1>3, <1>5, <2>1 DEF LatestWrite, LatestMark, Writes, Marks, r
<1>6. CASE op.kind \notin {"insert", "update"}
  <2>1. Writes(d, r)' = Writes(d, r) /\ Marks(d, r)' = Marks(d, r) \cup {op}
    BY <1>1, <1>6 DEF Writes, Marks
  <2> QED
    BY <1>1, <1>3, <1>6, <2>1 DEF LatestWrite, LatestMark, Writes, Marks, r
<1> QED
  BY <1>4, <1>5, <1>6

\* The row is written as the operation says.
LEMMA TakesWritten ==
    ASSUME TypeInv, BatchesOnRelay, StoredInv, CursorInv, LogInv, RowsInv,
           [Next]_vars, NEW d \in Devices, NEW op \in Op, Takes(d, op), RowIs(d, op.row),
           ~SavedOn(d, op.row), op.kind = "insert" \/ table[d][op.row] # Absent,
           table'[d][op.row] = Written(table[d][op.row], op)
    PROVE  RowIs(d, op.row)'
<1>1. op.row \in Rows /\ table[d][op.row] \in Row \cup {Absent}
  BY DEF TypeInv, TypeOK, Table, Op
<1>2. PICK row \in Row \cup {Absent} : row = table[d][op.row]
  BY <1>1
<1>3. PICK new \in Row : new = table'[d][op.row] /\ new = Written(row, op) /\ new # Absent
  BY <1>2, WrittenReads
<1>4. /\ op.kind \in {"insert", "update"} => new.by = IdOf(op)
      /\ op.kind \notin {"insert", "update"} => new.by = row.by
      /\ op.kind = "update" => new.gone = row.gone
      /\ op.kind # "update" => (new.gone <=> op.kind = "delete")
  BY <1>2, <1>3, WrittenReads
<1>5. ~SavedOn(d, op.row)' /\ ~FormOn(d, op.row)'
  BY DEF Takes, SavedOn, FormOn
<1>6. ForeignOnRelay
  BY DEF RowsInv
<1>7. ByIs(d, op.row)'
  <2>1. CASE op.kind \in {"insert", "update"}
    <3>1. LatestWrite(d, op.row, op)'
      BY <1>6, <2>1, TakesLatest
    <3> QED
      BY <1>3, <1>4, <1>5, <2>1, <3>1 DEF ByIs
  <2>2. CASE op.kind \notin {"insert", "update"}
    <3>1. row # Absent
      BY <1>2, <2>2
    <3>2. PICK o \in Op : LatestWrite(d, op.row, o) /\ row.by = IdOf(o)
      BY <1>2, <3>1 DEF RowIs, ByIs
    <3>3. LatestWrite(d, op.row, o)'
      BY <1>6, <2>2, <3>2, TakesLatest
    <3> QED
      BY <1>3, <1>4, <1>5, <2>2, <3>2, <3>3 DEF ByIs
  <2> QED
    BY <2>1, <2>2
<1>8. AliveIs(d, op.row)'
  <2>1. CASE op.kind # "update"
    <3>1. LatestMark(d, op.row, op)'
      BY <1>6, <2>1, TakesLatest
    <3>2. Alive(d, op.row)' <=> op.kind # "delete"
      BY <1>3, <1>4, <2>1 DEF Alive
    <3> QED
      BY <3>1, <3>2 DEF AliveIs
  <2>2. CASE op.kind = "update"
    <3>1. row # Absent
      BY <1>2, <2>2
    <3>2. OnRow(oplog[d], op.row) # {}
      BY <1>1, <1>2, <3>1 DEF RowsInv, InsertKnown, HasInsert, OnRow
    <3>3. PICK o \in Op : LatestMark(d, op.row, o) /\ (Alive(d, op.row) <=> o.kind # "delete")
      BY <3>2 DEF RowIs, AliveIs
    <3>4. LatestMark(d, op.row, o)'
      BY <1>6, <2>2, <3>3, TakesLatest
    <3>5. Alive(d, op.row)' <=> Alive(d, op.row)
      BY <1>2, <1>3, <1>4, <2>2, <3>1 DEF Alive
    <3> QED
      BY <3>3, <3>4, <3>5 DEF AliveIs
  <2> QED
    BY <2>1, <2>2
<1> QED
  BY <1>5, <1>7, <1>8 DEF RowIs

\* A device records an operation of its own.
LEMMA LogsLatest ==
    ASSUME TypeInv, BatchesOnRelay, StoredInv, CursorInv, LogInv, RowsInv,
           [Next]_vars, NEW d \in Devices, NEW op \in Op, Logs(d, op), LogsRow(d, op),
           RowIs(d, op.row)
    PROVE  RowIs(d, op.row)'
<1>1. ForeignOnRelay
  BY DEF RowsInv
<1>2. Takes(d, op)
  <2>1. OnRow(oplog[d], op.row)' = OnRow(oplog[d], op.row) \cup {op}
    BY DEF Logs, OnRow
  <2>2. ASSUME NEW p \in oplog[d] PROVE Before(p, op)'
    <3>1. op \notin OnRelay /\ OnRelay' = OnRelay
      BY LogsNewest DEF Logs, OnRelay
    <3>2. p \in OnRelay \/ p.ts < op.ts
      BY <1>1 DEF ForeignOnRelay, Logs, Own
    <3> QED
      BY <3>1, <3>2 DEF Before
  <2>3. ~FormOn(d, op.row)'
    BY DEF Logs, FormOn
  <2> QED
    BY <2>1, <2>2, <2>3 DEF Takes, OnRow
<1>3. op.row \in Rows
  BY DEF Op
<1>4. CASE op.kind = "insert"
  <2>1. /\ table'[d][op.row] = Written(Absent, op) /\ edit[d] = NoEdit
    BY <1>4 DEF LogsRow
  <2>2. Written(Absent, op) = Written(table[d][op.row], op)
    BY <1>4 DEF Written
  <2>3. ~SavedOn(d, op.row)
    BY <2>1 DEF SavedOn
  <2> QED
    BY <1>2, <1>4, <2>1, <2>2, <2>3, TakesWritten
<1>5. CASE /\ table[d][op.row] # Absent /\ edit[d] = NoEdit
           /\ table'[d][op.row] = Written(table[d][op.row], op)
  <2>1. ~SavedOn(d, op.row)
    BY <1>5 DEF SavedOn
  <2> QED
    BY <1>2, <1>5, <2>1, TakesWritten
<1>6. CASE op.kind = "delete" /\ table'[d][op.row] = Absent
  <2>1. LatestMark(d, op.row, op)'
    BY <1>1, <1>2, <1>6, TakesLatest
  <2>2. ~Alive(d, op.row)'
    BY <1>6 DEF Alive
  <2>3. AliveIs(d, op.row)'
    BY <1>6, <2>1, <2>2 DEF AliveIs
  <2> QED
    BY <1>2, <1>6, <2>3 DEF RowIs, Takes
<1>7. CASE /\ op.kind = "update" /\ SavedOn(d, op.row) /\ op.ts = edit[d].at
           /\ table'[d][op.row] = table[d][op.row]
  <2>1. FormOn(d, op.row) /\ Alive(d, op.row) /\ table[d][op.row] # Absent
    BY <1>7 DEF SavedOn, FormOn, RowIs, Alive
  <2>2. table[d][op.row].by = <<d, edit[d].at>>
    BY <1>7, <2>1 DEF RowIs, ByIs
  <2>3. ~SavedOn(d, op.row)' /\ ~FormOn(d, op.row)'
    BY <1>2 DEF Takes, SavedOn, FormOn
  <2>4. ByIs(d, op.row)'
    <3>1. LatestWrite(d, op.row, op)'
      BY <1>1, <1>2, <1>7, TakesLatest
    <3>2. IdOf(op) = <<d, edit[d].at>>
      BY <1>7 DEF IdOf, Logs
    <3> QED
      BY <1>7, <2>2, <2>3, <3>1, <3>2 DEF ByIs
  <2>5. AliveIs(d, op.row)'
    <3>1. OnRow(oplog[d], op.row) # {}
      BY <1>3, <2>1 DEF RowsInv, InsertKnown, HasInsert, OnRow
    <3>2. PICK o \in Op : LatestMark(d, op.row, o) /\ (Alive(d, op.row) <=> o.kind # "delete")
      BY <3>1 DEF RowIs, AliveIs
    <3>3. LatestMark(d, op.row, o)'
      BY <1>1, <1>2, <1>7, <3>2, TakesLatest
    <3>4. Alive(d, op.row)' <=> Alive(d, op.row)
      BY <1>7 DEF Alive
    <3> QED
      BY <3>2, <3>3, <3>4 DEF AliveIs
  <2> QED
    BY <2>3, <2>4, <2>5 DEF RowIs
<1> QED
  BY <1>4, <1>5, <1>6, <1>7 DEF LogsRow

\* A device commits an operation of the relay: all it knows of the row came
\* before.
LEMMA CommitsLatest ==
    ASSUME TypeInv, BatchesOnRelay, StoredInv, CursorInv, LogInv, RowsInv,
           [Next]_vars, NEW d \in Devices, NEW n \in DOMAIN relay, Commits(d, n),
           NEW r \in Rows \ contested', relay[n].row = r,
           FreshKnowsAll(r), KnownIsPrefix(r), RowIs(d, r)
    PROVE  RowIs(d, r)'
<1>1. PICK op \in Op : op = relay[n]
  BY RelayType
<1>2. /\ op.row = r /\ op \notin oplog[d] /\ Applicable(table[d], op)
      /\ oplog'[d] = oplog[d] \cup {op} /\ edit'[d] = edit[d] /\ relay' = relay
      /\ ~FormOn(d, r) /\ table'[d][r] = Written(table[d][r], op)
  BY <1>1 DEF Commits
<1>3. ASSUME NEW p \in oplog[d], p.row = r PROVE Before(p, op)'
  <2>1. p \in OnRelay
    BY <1>1, <1>2, <1>3, NoRivals
  <2>2. PICK i \in DOMAIN relay : p = relay[i]
    BY <2>1 DEF OnRelay
  <2>3. i # n /\ ~(n < i)
    BY <1>1, <1>2, <1>3, <2>2 DEF KnownIsPrefix
  <2>4. i < n
    BY <2>3, RelayType
  <2> QED
    BY <1>1, <1>2, <2>2, <2>4 DEF Before
<1>4. OnRow(oplog[d], op.row)' = OnRow(oplog[d], op.row) \cup {op}
  BY <1>2 DEF OnRow
<1>5. ~FormOn(d, op.row)' /\ ~SavedOn(d, op.row)
  BY <1>2 DEF FormOn, SavedOn
<1>6. Takes(d, op)
  BY <1>2, <1>3, <1>4, <1>5 DEF Takes, OnRow
<1>7. op.kind = "insert" \/ table[d][op.row] # Absent
  BY <1>2 DEF Applicable
<1> QED
  BY <1>2, <1>5, <1>6, <1>7, TakesWritten

\* The form opens or saves its row.
LEMMA EditsLatest ==
    ASSUME TypeInv, BatchesOnRelay, StoredInv, CursorInv, LogInv, RowsInv,
           [Next]_vars, NEW d \in Devices, Edits(d), NEW r \in Rows, RowIs(d, r)
    PROVE  RowIs(d, r)'
<1>1. ForeignOnRelay /\ OnRow(oplog[d], r)' = OnRow(oplog[d], r) /\ oplog'[d] = oplog[d]
  BY DEF RowsInv, Edits, OnRow
<1>2. ASSUME NEW q \in Rows, Alive(d, q), table'[d] = table[d], edit[d] = NoEdit,
             edit'[d] = [row |-> q, at |-> 0]
      PROVE  RowIs(d, r)'
  <2>1. ~SavedOn(d, r) /\ ~SavedOn(d, r)' /\ (FormOn(d, r)' => Alive(d, r))
    BY <1>2 DEF SavedOn, FormOn
  <2> QED
    BY <1>1, <1>2, <2>1, RowKept
<1>3. ASSUME table'[d] = table[d], edit'[d] = NoEdit, edit[d] = NoEdit \/ edit[d].at = 0
      PROVE  RowIs(d, r)'
  <2>1. ~SavedOn(d, r) /\ ~SavedOn(d, r)' /\ ~FormOn(d, r)'
    BY <1>3 DEF SavedOn, FormOn
  <2> QED
    BY <1>1, <1>3, <2>1, RowKept
<1>4. ASSUME NEW t \in Times, edit[d] \in Edit, edit[d] # NoEdit, edit'[d] # NoEdit,
             edit'[d].row = edit[d].row, edit'[d].at = t,
             \A q \in Rows \ {edit[d].row} : table'[d][q] = table[d][q],
             table'[d][edit[d].row] = IF Alive(d, edit[d].row)
                                      THEN [table[d][edit[d].row] EXCEPT !.by = <<d, t>>]
                                      ELSE table[d][edit[d].row]
      PROVE  RowIs(d, r)'
  <2>1. CASE r # edit[d].row
    <3>1. ~SavedOn(d, r) /\ ~SavedOn(d, r)' /\ ~FormOn(d, r)'
      BY <1>4, <2>1 DEF SavedOn, FormOn
    <3> QED
      BY <1>1, <1>4, <2>1, <3>1, RowKept
  <2>2. CASE r = edit[d].row
    <3>1. FormOn(d, r) /\ Alive(d, r) /\ table[d][r] \in Row
      BY <1>4, <2>2 DEF FormOn, RowIs, Alive, TypeInv, TypeOK, Table
    <3>2. table'[d][r] = [table[d][r] EXCEPT !.by = <<d, t>>]
      BY <1>4, <2>2, <3>1
    <3>3. /\ table'[d][r].by = <<d, t>> /\ table'[d][r].gone = table[d][r].gone
      BY <3>1, <3>2 DEF Row
    <3>4. table'[d][r] \in Row
      BY <1>4, <3>1, <3>2 DEF Row, OpId
    <3>5. table'[d][r] # Absent
      BY <3>4, SyncOpsAssumption
    <3>6. Alive(d, r)'
      BY <3>1, <3>3, <3>5 DEF Alive
    <3>7. SavedOn(d, r)'
      BY <1>4, <2>2 DEF SavedOn, Times
    <3>8. ByIs(d, r)'
      BY <1>4, <3>3, <3>7 DEF ByIs
    <3>9. AliveIs(d, r)'
      <4>1. OnRow(oplog[d], r) # {}
        BY <3>1 DEF RowsInv, InsertKnown, HasInsert, OnRow, FormOn
      <4>2. PICK o \in Op : LatestMark(d, r, o) /\ o.kind # "delete"
        BY <3>1, <4>1 DEF RowIs, AliveIs
      <4>3. Marks(d, r)' = Marks(d, r) /\ Marks(d, r) \subseteq oplog[d]
        BY <1>1 DEF Marks, OnRow
      <4>4. LatestMark(d, r, o)'
        BY <1>1, <4>2, <4>3, BeforeKept DEF LatestMark
      <4> QED
        BY <3>6, <4>2, <4>4 DEF AliveIs
    <3> QED
      BY <3>6, <3>8, <3>9 DEF RowIs
  <2> QED
    BY <2>1, <2>2
<1> QED
  BY <1>2, <1>3, <1>4 DEF Edits

LEMMA LatestStep ==
    ASSUME TypeInv, BatchesOnRelay, StoredInv, CursorInv, LogInv, RowsInv,
           [Next]_vars, NEW r \in Rows \ contested',
           FreshKnowsAll(r), KnownIsPrefix(r), RowIsLatest(r)
    PROVE  RowIsLatest(r)'
<1> SUFFICES ASSUME NEW d \in Devices PROVE RowIs(d, r)'
  BY DEF RowIsLatest
<1>1. RowIs(d, r) /\ ForeignOnRelay
  BY DEF RowIsLatest, RowsInv
<1>2. CASE UNCHANGED vars
  <2>1. /\ OnRow(oplog[d], r)' = OnRow(oplog[d], r) /\ table'[d][r] = table[d][r]
        /\ edit'[d] = edit[d]
    BY <1>2 DEF vars, store, uiVars, OnRow
  <2> QED
    BY <1>1, <2>1, RowKept
<1>3. ASSUME NEW e \in Devices, Acts(e), e # d PROVE RowIs(d, r)'
  <2>1. /\ OnRow(oplog[d], r)' = OnRow(oplog[d], r) /\ table'[d][r] = table[d][r]
        /\ edit'[d] = edit[d]
    BY <1>3, OthersStill DEF Still, OnRow
  <2> QED
    BY <1>1, <2>1, RowKept
<1>4. CASE Acts(d)
  <2>1. ASSUME NEW op \in Op, Logs(d, op), LogsRow(d, op) PROVE RowIs(d, r)'
    <3>1. CASE op.row = r
      BY <1>1, <2>1, <3>1, LogsLatest
    <3>2. CASE op.row # r
      <4>1. OnRow(oplog[d], r)' = OnRow(oplog[d], r)
        BY <2>1, <3>2 DEF Logs, OnRow
      <4>2. table'[d][r] = table[d][r] /\ edit'[d] = NoEdit
        BY <2>1, <3>2 DEF Logs
      <4>3. ~SavedOn(d, r)
        BY <2>1, <3>2 DEF LogsRow, SavedOn
      <4>4. ~SavedOn(d, r)' /\ ~FormOn(d, r)'
        BY <4>2 DEF SavedOn, FormOn
      <4> QED
        BY <1>1, <4>1, <4>2, <4>3, <4>4, RowKept
    <3> QED
      BY <3>1, <3>2
  <2>2. CASE Edits(d)
    BY <1>1, <2>2, EditsLatest
  <2>3. ASSUME NEW n \in DOMAIN relay, Commits(d, n) PROVE RowIs(d, r)'
    <3>1. CASE relay[n].row = r
      BY <1>1, <2>3, <3>1, CommitsLatest
    <3>2. CASE relay[n].row # r
      <4>1. OnRow(oplog[d], r)' = OnRow(oplog[d], r)
        BY <2>3, <3>2 DEF Commits, OnRow
      <4>2. table'[d][r] = table[d][r] /\ edit'[d] = edit[d]
        BY <2>3, <3>2 DEF Commits
      <4> QED
        BY <1>1, <4>1, <4>2, RowKept
    <3> QED
      BY <3>1, <3>2
  <2>4. CASE Rests(d)
    <3>1. OnRow(oplog[d], r)' = OnRow(oplog[d], r) /\ table'[d][r] = table[d][r]
      BY <2>4 DEF Rests, OnRow
    <3>2. CASE edit'[d] = edit[d]
      BY <1>1, <3>1, <3>2, RowKept
    <3>3. CASE edit[d] # NoEdit /\ edit'[d] = NoEdit /\ edit[d].row \in contested'
      <4>1. ~SavedOn(d, r) /\ ~SavedOn(d, r)' /\ ~FormOn(d, r)'
        BY <3>3 DEF SavedOn, FormOn
      <4> QED
        BY <1>1, <3>1, <4>1, RowKept
    <3> QED
      BY <2>4, <3>2, <3>3 DEF Rests
  <2> QED
    BY <1>4, <2>1, <2>2, <2>3, <2>4, StepKinds
<1> QED
  BY <1>2, <1>3, <1>4 DEF Next, Acts

LEMMA ContestedGrows ==
    ASSUME TypeInv, BatchesOnRelay, LogInv, [Next]_vars
    PROVE  contested \subseteq contested'
<1>1. ASSUME NEW d \in Devices, Acts(d) PROVE contested \subseteq contested'
  BY <1>1, StepKinds DEF Logs, Edits, Commits, Rests
<1> QED
  BY <1>1 DEF Next, Acts, vars

LEMMA ConvergeStep ==
    ASSUME RejectRepeats, TypeInv, BatchesOnRelay, StoredInv, CursorInv, LogInv, RowsInv,
           ConvergeInv, [Next]_vars
    PROVE  ConvergeInv'
<1> SUFFICES ASSUME NoneStuck', NEW r \in Rows \ contested' PROVE RowInv(r)'
  BY DEF ConvergeInv
<1>1. NoneStuck
  BY StuckStays DEF NoneStuck, RowsInv
<1>2. r \in Rows \ contested
  BY ContestedGrows
<1>3. /\ FreshKnowsAll(r) /\ KnownIsPrefix(r)
      /\ PulledIsKnown(r) /\ RowIsLatest(r)
  BY <1>1, <1>2 DEF ConvergeInv, RowInv
<1> QED
  BY <1>1, <1>2, <1>3, FreshStep, PrefixStep, PulledStep, LatestStep DEF RowInv

\* Once all is exchanged, a device knows of a row what the relay holds.
LEMMA KnowsRelay ==
    ASSUME TypeInv, StoredInv, LogInv, NEW r \in Rows, PulledIsKnown(r),
           NEW d \in Devices, InSync(d)
    PROVE  OnRow(oplog[d], r) = OnRow(OnRelay, r)
<1>1. ASSUME NEW o \in oplog[d] PROVE o \in OnRelay
  BY OwnOrShared DEF InSync
<1>2. ASSUME NEW n \in DOMAIN relay, relay[n].row = r PROVE relay[n] \in oplog[d]
  <2>1. CASE relay[n].dev = d
    BY <2>1, AuthorKnows
  <2>2. CASE relay[n].dev # d
    <3>1. ~(n > lastSeq[d])
      BY <2>2 DEF InSync, Pending
    <3>2. n \in Nat /\ lastSeq[d] \in Nat
      <4>1. lastSeq[d] \in Nat
        BY DEF TypeInv, TypeOK
      <4> QED
        BY <4>1, RelayType
    <3>3. n <= lastSeq[d]
      BY <3>1, <3>2
    <3> QED
      BY <1>2, <2>2, <3>3 DEF PulledIsKnown, Recorded
  <2> QED
    BY <2>1, <2>2
<1> QED
  BY <1>1, <1>2 DEF OnRow, OnRelay

\* Of two operations on the relay one comes first.
LEMMA BeforeIsOrder ==
    ASSUME TypeInv, RelayInOrder, NEW o \in OnRelay, NEW p \in OnRelay,
           Before(o, p), Before(p, o)
    PROVE  FALSE
<1>1. PICK i, j \in DOMAIN relay : i < j /\ relay[i] = o /\ relay[j] = p
  BY DEF Before
<1>2. PICK k, l \in DOMAIN relay : k < l /\ relay[k] = p /\ relay[l] = o
  BY DEF Before
<1>3. i = l /\ j = k
  BY <1>1, <1>2, NoRepeats
<1> QED
  BY <1>1, <1>2, <1>3, RelayType

LEMMA ConvergeEnds ==
    ASSUME TypeInv, StoredInv, LogInv, RowsInv, ConvergeInv
    PROVE  UncontestedRowsConverge
<1> SUFFICES ASSUME \A d \in Devices : InSync(d) /\ edit[d] = NoEdit,
                    NEW r \in Rows \ contested, NEW d \in Devices, NEW e \in Devices
             PROVE  Shown(d, r) = Shown(e, r)
  BY DEF UncontestedRowsConverge
<1>1. NoneStuck
  BY DEF NoneStuck, StuckAt, InSync
<1>2. PulledIsKnown(r) /\ RowIs(d, r) /\ RowIs(e, r)
  BY <1>1 DEF ConvergeInv, RowInv, RowIsLatest
<1>3. \A x \in Devices : OnRow(oplog[x], r) = OnRow(OnRelay, r)
  BY <1>2, KnowsRelay
<1>4. /\ Writes(d, r) = Writes(e, r) /\ Marks(d, r) = Marks(e, r)
      /\ Writes(d, r) \subseteq OnRelay /\ Marks(d, r) \subseteq OnRelay
  BY <1>3 DEF Writes, Marks, OnRow
<1>5. ASSUME NEW o, NEW p, LatestWrite(d, r, o), LatestWrite(e, r, p) PROVE o = p
  <2>1. /\ o \in OnRelay /\ p \in OnRelay
        /\ o # p => Before(o, p) /\ Before(p, o)
    BY <1>4, <1>5 DEF LatestWrite
  <2> QED
    BY <2>1, BeforeIsOrder DEF RowsInv
<1>6. ASSUME NEW o, NEW p, LatestMark(d, r, o), LatestMark(e, r, p) PROVE o = p
  <2>1. /\ o \in OnRelay /\ p \in OnRelay
        /\ o # p => Before(o, p) /\ Before(p, o)
    BY <1>4, <1>6 DEF LatestMark
  <2> QED
    BY <2>1, BeforeIsOrder DEF RowsInv
<1>7. CASE OnRow(OnRelay, r) = {}
  <2>1. \A x \in Devices : table[x][r] = Absent
    <3> SUFFICES ASSUME NEW x \in Devices, table[x][r] # Absent PROVE FALSE
      OBVIOUS
    <3>1. HasInsert(oplog[x], r)
      BY DEF RowsInv, InsertKnown
    <3> QED
      BY <1>3, <1>7, <3>1 DEF HasInsert, OnRow
  <2> QED
    BY <2>1 DEF Shown, Alive
<1>8. CASE OnRow(OnRelay, r) # {}
  <2>1. AliveIs(d, r) /\ AliveIs(e, r)
    BY <1>2, <1>3, <1>8 DEF RowIs
  <2>2. Alive(d, r) <=> Alive(e, r)
    BY <1>6, <2>1 DEF AliveIs
  <2>3. CASE ~Alive(d, r)
    BY <2>2, <2>3 DEF Shown
  <2>4. CASE Alive(d, r)
    <3>1. table[d][r] # Absent /\ table[e][r] # Absent
      BY <2>2, <2>4 DEF Alive
    <3>2. ~SavedOn(d, r) /\ ~SavedOn(e, r)
      BY DEF SavedOn
    <3>3. /\ \E o \in Op : LatestWrite(d, r, o) /\ table[d][r].by = IdOf(o)
          /\ \E o \in Op : LatestWrite(e, r, o) /\ table[e][r].by = IdOf(o)
      BY <1>2, <3>1, <3>2 DEF RowIs, ByIs
    <3>4. table[d][r].by = table[e][r].by
      BY <1>5, <3>3
    <3> QED
      BY <2>2, <2>4, <3>4 DEF Shown
  <2> QED
    BY <2>3, <2>4
<1> QED
  BY <1>7, <1>8

LEMMA ConvergeInit ==
    ASSUME Init
    PROVE  StoredInv /\ LogInv /\ RowsInv /\ ConvergeInv
<1>1. \A d \in Devices : /\ oplog[d] = {} /\ synced[d] = {} /\ UnsyncedOps(d) = {}
                         /\ Own(d) = {} /\ pc[d] = "idle" /\ edit[d] = NoEdit
                         /\ \A r \in Rows : table[d][r] = Absent
  BY DEF Init, UnsyncedOps, Own
<1>2. \A n \in DOMAIN relay : FALSE
  BY DEF Init
<1>3. StoredInv
  BY <1>1 DEF StoredInv, MarksStored, SyncedIsStored
<1>4. LogInv
  BY <1>1, <1>2 DEF LogInv, ClockAhead, SharedIsOwn, UnsharedIsNewest, PushInOrder,
     PageEndsAbroad, Saved
<1>5. RowsInv
  BY <1>1, <1>2 DEF RowsInv, ForeignOnRelay, OneInsert, InsertKnown, InsertOldest,
     InsertFirst, RelayInOrder, SendsAll, BatchIsTail, OnRow
<1>6. ASSUME NEW r \in Rows PROVE RowInv(r)
  BY <1>1, <1>2 DEF RowInv, FreshKnowsAll, KnownIsPrefix, PulledIsKnown, RowIsLatest,
     RowIs, OnRow, FormOn
<1>7. ConvergeInv
  BY <1>6 DEF ConvergeInv
<1> QED
  BY <1>3, <1>4, <1>5, <1>7

ConvergesInv == /\ TypeInv /\ BatchesOnRelay /\ StoredInv /\ CursorInv /\ LogInv
                /\ RowsInv /\ ConvergeInv

LEMMA ConvergesHolds ==
    ASSUME RejectRepeats
    PROVE  Spec => []ConvergesInv
<1> USE DEF ConvergesInv
<1>1. Init => ConvergesInv
  BY TypeInit, CursorInit, ConvergeInit
<1>2. ConvergesInv /\ [Next]_vars => ConvergesInv'
  BY TypeStep, StoredStep, CursorStep, LogStep, RowsStep, ConvergeStep
<1> QED
  BY <1>1, <1>2, PTL DEF Spec

\* With a relay that refuses repeats, a row no two devices edited at once reads
\* the same on all devices whenever everything is exchanged: no interleaving of
\* their cycles, no failed page and no lost answer leads two of them apart.
THEOREM RowsConverge ==
    ASSUME RejectRepeats
    PROVE  Spec => []UncontestedRowsConverge
<1>1. ConvergesInv => UncontestedRowsConverge
  BY ConvergeEnds DEF ConvergesInv
<1> QED
  BY <1>1, ConvergesHolds, PTL

\* With such a relay, and however its pushes are lost, repeated and interleaved,
\* each device's operations stand in the relay's log once and in the order the
\* device made them, and none on a row stands before the one that created it.
THEOREM RelayHistoryInOrder ==
    ASSUME RejectRepeats
    PROVE  Spec => [](RelayInOrder /\ InsertFirst)
<1>1. ConvergesInv => RelayInOrder /\ InsertFirst
  BY DEF ConvergesInv, RowsInv
<1> QED
  BY <1>1, ConvergesHolds, PTL
=============================================================================
