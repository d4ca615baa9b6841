------------------------------ MODULE SyncOps ------------------------------
(***************************************************************************)
(* The vocabulary of micasa's sync protocol: the operations devices        *)
(* exchange, what each one does to a device's table, and the comparison    *)
(* that settles a conflict between a local and a remote operation          *)
(* (internal/sync/types.go, internal/sync/apply.go).                       *)
(*                                                                         *)
(* The payload of an operation is abstracted to its identity: a row        *)
(* remembers which insert or update wrote its columns last.  Timestamps    *)
(* are numbers; a device never stamps two operations alike, so <<dev, ts>> *)
(* identifies an operation as its ULID does.                               *)
(***************************************************************************)
EXTENDS Naturals

CONSTANTS
    Devices,    \* device IDs: numbers stand for ULIDs, compared as strings
    Rows,       \* row IDs, fresh ULIDs over all tables
    NameOf,     \* the value of the row's uniquely indexed column
    MaxTime,    \* BOUND: the latest timestamp a device stamps
    Absent      \* no such row in the table

Times == 1..MaxTime
Kinds == {"insert", "update", "delete", "restore"}
OpId  == Devices \X Times
Op    == [dev : Devices, ts : Times, row : Rows, kind : Kinds]
Row   == [by : OpId, gone : BOOLEAN]        \* gone: deleted_at is set
Table == [Rows -> Row \cup {Absent}]

ASSUME SyncOpsAssumption ==
    /\ Devices \subseteq Nat
    /\ MaxTime \in Nat
    /\ DOMAIN NameOf = Rows
    /\ Absent \notin Row

IdOf(op) == <<op.dev, op.ts>>

(***************************************************************************)
(* Last writer wins: the later created_at, ties to the larger device ID.   *)
(***************************************************************************)
lwwLocalWins(localTime, localDev, remoteTime, remoteDev) ==
    \/ localTime > remoteTime
    \/ localTime = remoteTime /\ localDev >= remoteDev

(***************************************************************************)
(* applyOpToTable: an insert fails on a primary key or unique name already *)
(* present, soft-deleted rows included; every other operation needs the    *)
(* row.  An update keeps deleted_at; an insert always arrives alive.       *)
(***************************************************************************)
NameTaken(table, r) ==
    \E q \in Rows \ {r} : table[q] # Absent /\ NameOf[q] = NameOf[r]

Applicable(table, op) ==
    IF op.kind = "insert"
    THEN table[op.row] = Absent /\ ~NameTaken(table, op.row)
    ELSE table[op.row] # Absent

Written(row, op) ==
    IF op.kind = "insert" THEN [by |-> IdOf(op), gone |-> FALSE]
    ELSE IF op.kind = "update" THEN [row EXCEPT !.by = IdOf(op)]
    ELSE [row EXCEPT !.gone = (op.kind = "delete")]

ApplyTo(table, op) == [table EXCEPT ![op.row] = Written(@, op)]
=============================================================================
