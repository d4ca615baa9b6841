------------------------------- MODULE MCStore -------------------------------
(***************************************************************************)
(* The database of one program: its rows and what refers to what, the      *)
(* columns of one record, and the agenda made of the dates in them. A      *)
(* behaviour is about one of the three.                                    *)
(*                                                                         *)
(* Rows: two callers, a vendor, a project, an appliance and two items. A   *)
(* behaviour stays within one of the Slices, groups of rows that have      *)
(* something to do with each other, so that it can be long. Agenda: two    *)
(* chores, one with a due date and one last serviced at the end of a long  *)
(* month, in a calendar of months of two and of four days.                 *)
(***************************************************************************)
EXTENDS LocalStore, Records, Agenda

CONSTANTS v1, v2, p1, p2, q1, a1, a2, m1, m2, l1, l2, i1, x1

Slices == {
    {v1, p1, q1},
    {v1, a1, i1},
    {m1, m2, l1, l2},
    {v1, m1, l1},
    {a1, m1, x1},
    {m1, l1, x1},
    {i1, x1},
    {v2, p2, a2, x1}}

MCMonthDays == <<2, 4, 2, 4, 2, 4, 2, 4>>
MCSeasonOf  == <<"winter", "winter", "spring", "spring", "summer", "summer", "summer", "summer">>
MCSeason    == <<"spring", "summer">>
MCWarranty  == <<16>>
MCPlanned   == << [last |-> NoDate, every |-> 0, due |-> 14, log |-> NoDate],
                  [last |-> 12, every |-> 1, due |-> NoDate, log |-> NoDate] >>

VARIABLES part, slice

MCInit ==
    /\ Init /\ RecordInit /\ AgendaInit
    /\ part \in {"rows", "record", "agenda"}
    /\ slice \in Slices /\ (part # "rows" => slice = CHOOSE s \in Slices : TRUE)
    /\ part # "record" => entity = "house" /\ record = NoRow /\ ~metric
    /\ part # "agenda" => frame.height = Min(Heights)

MCNext ==
    /\ UNCHANGED <<part, slice>>
    /\ \/ part = "rows" /\ Step(slice) /\ UNCHANGED <<recordVars, agendaVars>>
       \/ part = "record" /\ RecordNext /\ UNCHANGED <<vars, agendaVars>>
       \/ part = "agenda" /\ AgendaNext /\ UNCHANGED <<vars, recordVars>>

MCSpec == MCInit /\ [][MCNext]_<<vars, recordVars, agendaVars, part, slice>>

Symmetry == Permutations(Callers)
=============================================================================
