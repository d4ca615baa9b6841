--------------------------- MODULE TuiFormsProofs ---------------------------
(***************************************************************************)
(* Proofs about TuiForms, for any number of keys, cycles, faults and       *)
(* pulled changes: no cycle runs beside another, the table shows what was  *)
(* pulled, and a form neither loses what was typed nor undoes what was     *)
(* pulled before it was opened.                                            *)
(*                                                                         *)
(* TuiInv is inductive. The table is stale only while a cycle has not      *)
(* said what it pulled, or a form keeps the reload waiting (Seen), and     *)
(* pendingReload never outlives the form (PendingInForm).  A form and the  *)
(* external editor are never there together, nor a question without a form *)
(* (Alone).  Dirty compares with the stored text (SnapKept), and a form    *)
(* holds the fields of others as they are stored, or was raced (Read).     *)
(***************************************************************************)
EXTENDS TuiForms, SequenceTheorems, TLAPS

Rec   == [mine : Nat, theirs : Nat]
Cycle == [at : {"pull", "push", "sent", "done"}, pulled : BOOLEAN, takes : Nat]
Forms == [of : {"none", "row", "notes", "house", "inline", "field"},
          mine : Nat, theirs : Nat, snap : Nat, done : BOOLEAN,
          kept : Nat, edited : BOOLEAN, raced : BOOLEAN]

TypeOK ==
    /\ db \in [{"house", "row"} -> Rec]
    /\ house \in Rec /\ table \in Rec /\ missed \in BOOLEAN
    /\ mode \in {"normal", "edit", "form", "over"}
    /\ prevMode \in {"normal", "edit", "form"} /\ detail \in BOOLEAN
    /\ form \in Forms /\ editor \in Forms
    /\ confirm \in {"none", "discard", "quit"}
    /\ pendingReload \in BOOLEAN
    /\ status \in {"syncing", "synced", "offline"}
    /\ cycles \in Seq(Cycle)
    /\ gen \in Nat /\ timers \subseteq Nat /\ ticking \in BOOLEAN
    /\ made \in Nat /\ pushed \in Nat /\ typed \in Nat /\ pulls \in Nat /\ faults \in Nat

Quiet == \A c \in DOMAIN cycles : ~cycles[c].pulled

Seen ==
    mode # "over" /\ ~detail /\ ~missed /\ ~pendingReload /\ Quiet => table = db["row"]

PendingInForm == pendingReload => mode \in {"form", "over"}

Alone ==
    /\ editor.of # "none" => form.of = "none" /\ mode # "over"
    /\ form.of # "none" => mode # "over"
    /\ confirm # "none" => InForm

SnapKept == ~form.edited => form.snap = form.kept

\* What f says of others' fields, if f is of the row.
ReadFits(f) ==
    Target(f.of) = "row" =>
        /\ f.theirs <= pulls + 1
        /\ f.of # "none" /\ ~f.raced => f.theirs = db["row"].theirs

Read == ReadFits(form) /\ ReadFits(editor) /\ db["row"].theirs <= pulls + 1

TuiInv == TypeOK /\ OneCycle /\ Seen /\ PendingInForm /\ Alone /\ SnapKept /\ Read

-----------------------------------------------------------------------------
(* Cycles. *)

LEMMA SeqDomain ==
    ASSUME NEW S, NEW s \in Seq(S)
    PROVE  DOMAIN s = 1..Len(s) /\ Len(s) \in Nat
OBVIOUS

LEMMA Longer ==
    ASSUME NEW S, NEW s \in Seq(S), NEW x \in S
    PROVE  /\ Append(s, x) \in Seq(S) /\ Len(Append(s, x)) = Len(s) + 1
           /\ DOMAIN Append(s, x) = 1..(Len(s) + 1)
           /\ \A i \in 1..(Len(s) + 1) : Append(s, x)[i] = IF i <= Len(s) THEN s[i] ELSE x
OBVIOUS

LEMMA OnlyCycle ==
    ASSUME TypeOK, OneCycle, NEW c \in DOMAIN cycles
    PROVE  /\ c = 1 /\ DOMAIN cycles = {1} /\ Len(cycles) = 1
           /\ RemoveAt(cycles, c) = <<>> /\ status = "syncing"
<1>1. DOMAIN cycles = 1..Len(cycles) /\ Len(cycles) \in Nat /\ cycles \in Seq(Cycle)
  BY SeqDomain DEF TypeOK
<1>2. Len(cycles) <= 1 /\ (cycles # <<>> => status = "syncing")
  BY DEF OneCycle
<1>3. Len(cycles) = 1 /\ c = 1
  BY <1>1, <1>2
<1>4. cycles # <<>>
  BY <1>3
<1>5. SubSeq(cycles, 1, 0) = <<>> /\ SubSeq(cycles, 2, 1) = <<>>
  BY SubSeqEmpty
<1>6. RemoveAt(cycles, 1) = SubSeq(cycles, 1, 0) \o SubSeq(cycles, 2, 1)
  BY <1>3 DEF RemoveAt
<1>7. <<>> \o <<>> = <<>>
  OBVIOUS
<1> QED BY <1>1, <1>2, <1>3, <1>4, <1>5, <1>6, <1>7

LEMMA CycleMoves ==
    ASSUME TypeOK, OneCycle, NEW c \in DOMAIN cycles, NEW y \in Cycle,
           cycles' = [cycles EXCEPT ![c] = y]
    PROVE  /\ cycles' \in Seq(Cycle) /\ Len(cycles') = Len(cycles)
           /\ DOMAIN cycles' = DOMAIN cycles /\ cycles'[c] = y
           /\ DOMAIN cycles = {c} /\ status = "syncing"
<1>1. cycles \in Seq(Cycle) /\ c \in 1..Len(cycles)
  BY SeqDomain DEF TypeOK
<1>2. cycles' \in Seq(Cycle) /\ Len(cycles') = Len(cycles)
  BY <1>1, ExceptSeq
<1> QED BY <1>1, <1>2, OnlyCycle

\* A cycle starts, there being none.
LEMMA StartFits ==
    ASSUME TypeOK, OneCycle, status # "syncing", StartCycle
    PROVE  /\ cycles = <<>> /\ cycles' \in Seq(Cycle) /\ Len(cycles') = 1
           /\ status' = "syncing" /\ DOMAIN cycles' = {1} /\ ~cycles'[1].pulled
<1> DEFINE y == [at |-> "pull", pulled |-> FALSE, takes |-> 0]
<1>1. cycles = <<>>
  BY DEF OneCycle
<1>2. cycles' = Append(<<>>, y) /\ status' = "syncing"
  BY <1>1 DEF StartCycle
<1>3. y \in Cycle /\ ~y.pulled
  BY DEF Cycle
<1> HIDE DEF y
<1>4. /\ Append(<<>>, y) \in Seq(Cycle) /\ Len(Append(<<>>, y)) = 1
      /\ DOMAIN Append(<<>>, y) = 1..1 /\ Append(<<>>, y)[1] = y
  <2>1. <<>> \in Seq(Cycle) /\ Len(<<>>) = 0
    OBVIOUS
  <2>2. 0 + 1 = 1 /\ 1 \in 1..1 /\ ~(1 <= 0)
    OBVIOUS
  <2> QED BY <1>3, <2>1, <2>2, Longer
<1>5. 1..1 = {1}
  OBVIOUS
<1> QED BY <1>1, <1>2, <1>3, <1>4, <1>5

-----------------------------------------------------------------------------
(* Steps that leave the cycles alone. *)

\* What a key does to the cycles: nothing, or the program ends.
LEMMA KeyCycles ==
    ASSUME TuiInv, UNCHANGED <<status, cycles>> \/ (status' = status /\ cycles' = <<>>)
    PROVE  /\ OneCycle' /\ cycles' \in Seq(Cycle) /\ status' \in {"syncing", "synced", "offline"}
<1>1. <<>> \in Seq(Cycle) /\ Len(<<>>) = 0
  OBVIOUS
<1>2. Len(cycles') <= 1 /\ (cycles' # <<>> => status' = "syncing")
  BY <1>1 DEF TuiInv, OneCycle
<1>3. cycles' \in Seq(Cycle) /\ status' \in {"syncing", "synced", "offline"}
  BY <1>1 DEF TuiInv, TypeOK
<1> QED BY <1>2, <1>3 DEF OneCycle

LEMMA FormTypes ==
    /\ NoForm \in Forms
    /\ \A of \in {"row", "notes", "house", "inline", "field"}, v \in Rec :
          /\ Form(of, v) \in Forms
          /\ Form(of, v).of = of /\ Form(of, v).theirs = v.theirs
          /\ Form(of, v).mine = v.mine /\ Form(of, v).snap = v.mine /\ Form(of, v).kept = v.mine
          /\ ~Form(of, v).edited /\ ~Form(of, v).raced
<1>1. NoForm \in Forms
  BY DEF NoForm, Forms
<1>2. ASSUME NEW of \in {"row", "notes", "house", "inline", "field"}, NEW v \in Rec
      PROVE  /\ Form(of, v) \in Forms
             /\ Form(of, v).of = of /\ Form(of, v).theirs = v.theirs
             /\ Form(of, v).mine = v.mine /\ Form(of, v).snap = v.mine /\ Form(of, v).kept = v.mine
             /\ ~Form(of, v).edited /\ ~Form(of, v).raced
  <2>1. ~NoForm.edited /\ ~NoForm.raced
    BY DEF NoForm
  <2>2. v.mine \in Nat /\ v.theirs \in Nat
    BY DEF Rec
  <2>3. PICK f \in Forms : f = NoForm
    BY <1>1
  <2> DEFINE y == [f EXCEPT !.of = of, !.mine = v.mine, !.theirs = v.theirs,
                            !.snap = v.mine, !.kept = v.mine]
  <2>4. /\ y \in Forms /\ y.of = of /\ y.theirs = v.theirs /\ y.mine = v.mine
        /\ y.snap = v.mine /\ y.kept = v.mine /\ y.edited = f.edited /\ y.raced = f.raced
    BY <2>2 DEF Forms
  <2>5. Form(of, v) = y
    BY <2>3 DEF Form
  <2> HIDE DEF y
  <2> QED BY <2>1, <2>3, <2>4, <2>5
<1> QED BY <1>1, <1>2

\* The steps that change no cycle: TuiInv by its parts.
LEMMA SameCycles ==
    ASSUME TuiInv, UNCHANGED <<status, cycles>>,
           TypeOK', Seen', PendingInForm', Alone', SnapKept', Read'
    PROVE  TuiInv'
BY KeyCycles DEF TuiInv

\* A form is opened, from the house or from the row that is stored.
Opens(f) ==
    /\ form' = f /\ form.of = "none" /\ editor.of = "none" /\ mode # "over" /\ f.of # "none"
    /\ UNCHANGED <<db, house, view, confirm, editor, pendingReload, sync, log, typed, pulls, faults>>
    /\ \/ UNCHANGED modes
       \/ mode = "edit" /\ mode' = "form" /\ prevMode' = mode /\ detail' = detail

LEMMA OpensKeeps ==
    ASSUME TuiInv, NEW f \in Forms, Opens(f),
           ~f.edited => f.snap = f.kept,
           Target(f.of) = "row" => f.theirs = db["row"].theirs
    PROVE  TuiInv'
<1>1. /\ form' = f /\ form.of = "none" /\ editor.of = "none" /\ mode # "over" /\ f.of # "none"
      /\ db' = db /\ house' = house /\ table' = table /\ missed' = missed
      /\ confirm' = confirm /\ editor' = editor /\ pendingReload' = pendingReload
      /\ status' = status /\ cycles' = cycles /\ gen' = gen /\ timers' = timers
      /\ ticking' = ticking /\ made' = made /\ pushed' = pushed /\ typed' = typed
      /\ pulls' = pulls /\ faults' = faults /\ detail' = detail
  BY DEF Opens, view, sync, log, modes
<1>2. /\ mode' \in {mode, "form"} /\ prevMode' \in {"normal", "edit", "form"}
      /\ mode' = mode \/ (mode = "edit" /\ mode' = "form")
  BY DEF Opens, modes, TuiInv, TypeOK
<1>3. TypeOK'
  BY <1>1, <1>2 DEF TuiInv, TypeOK
<1>4. Seen' /\ PendingInForm'
  BY <1>1, <1>2 DEF TuiInv, Seen, PendingInForm, Quiet
<1>5. Alone'
  BY <1>1, <1>2 DEF TuiInv, Alone, InForm
<1>6. SnapKept'
  BY <1>1 DEF SnapKept
<1>7. Read'
  <2>1. Read
    BY DEF TuiInv
  <2> QED BY <1>1, <2>1 DEF Read, ReadFits
<1> QED BY <1>1, <1>3, <1>4, <1>5, <1>6, <1>7, SameCycles

LEMMA OpenKeeps ==
    ASSUME TuiInv,
           \/ \E of \in {"row", "notes", "house"} : OpenForm(of)
           \/ \E of \in {"inline", "field"} : OpenInline(of)
    PROVE  TuiInv'
<1>1. house \in Rec /\ db["row"] \in Rec
  BY DEF TuiInv, TypeOK
<1>2. ASSUME NEW of \in {"row", "notes", "house"}, OpenForm(of)
      PROVE  TuiInv'
  <2>1. PICK v \in Rec : v = IF of = "house" THEN house ELSE db["row"]
    BY <1>1
  <2>2. Opens(Form(of, v))
    BY <1>2, <2>1, FormTypes DEF OpenForm, Opens, Activate, Idle, FromStore
  <2>3. Target(of) = "row" => of # "house"
    BY DEF Target
  <2> QED BY <2>1, <2>2, <2>3, FormTypes, OpensKeeps
<1>3. ASSUME NEW of \in {"inline", "field"}, OpenInline(of)
      PROVE  TuiInv'
  <2>1. PICK v \in Rec : v = IF of = "field" THEN house ELSE db["row"]
    BY <1>1
  <2>2. Opens(Form(of, v))
    BY <1>3, <2>1, FormTypes DEF OpenInline, Opens, Idle, FromStore
  <2>3. Target(of) = "row" => of # "field"
    BY DEF Target
  <2> QED BY <2>1, <2>2, <2>3, FormTypes, OpensKeeps
<1> QED BY <1>2, <1>3

\* The text of the form changes.
LEMMA TypeKeeps ==
    ASSUME TuiInv, Type
    PROVE  TuiInv'
<1>1. /\ form.of # "none" /\ typed' = typed + 1
      /\ form' = [form EXCEPT !.mine = typed' + 1]
      /\ db' = db /\ house' = house /\ table' = table /\ missed' = missed
      /\ confirm' = confirm /\ editor' = editor /\ pendingReload' = pendingReload
      /\ status' = status /\ cycles' = cycles /\ gen' = gen /\ timers' = timers
      /\ ticking' = ticking /\ made' = made /\ pushed' = pushed
      /\ pulls' = pulls /\ faults' = faults
      /\ mode' = mode /\ prevMode' = prevMode /\ detail' = detail
  BY DEF Type, view, sync, log, modes
<1>2. /\ form' \in Forms /\ form'.of = form.of /\ form'.theirs = form.theirs
      /\ form'.snap = form.snap /\ form'.kept = form.kept
      /\ form'.edited = form.edited /\ form'.raced = form.raced
  <2>1. typed' + 1 \in Nat /\ form \in Forms
    BY <1>1 DEF TuiInv, TypeOK
  <2> QED BY <1>1, <2>1 DEF Forms
<1>3. TypeOK'
  <2>1. typed' \in Nat
    BY <1>1 DEF TuiInv, TypeOK
  <2> QED BY <1>1, <1>2, <2>1 DEF TuiInv, TypeOK
<1>4. Seen' /\ PendingInForm'
  BY <1>1 DEF TuiInv, Seen, PendingInForm, Quiet
<1>5. Alone'
  BY <1>1, <1>2 DEF TuiInv, Alone, InForm
<1>6. SnapKept'
  BY <1>2 DEF TuiInv, SnapKept
<1>7. Read'
  <2>1. Read
    BY DEF TuiInv
  <2> QED BY <1>1, <1>2, <2>1 DEF Read, ReadFits
<1> QED BY <1>1, <1>3, <1>4, <1>5, <1>6, <1>7, SameCycles

-----------------------------------------------------------------------------
(* Saving and leaving a form. *)

\* The record d has the row r or the row it had; others' fields of it are those
\* of the form, or as they were.
LEMMA SubmitsFits ==
    ASSUME TuiInv, Submits, form.of # "none"
    PROVE  /\ db' \in [{"house", "row"} -> Rec] /\ house' \in Rec /\ made' \in Nat
           /\ db'["row"].theirs <= pulls + 1
           /\ Target(form.of) = "row" => db'["row"].theirs = form.theirs
           /\ Target(form.of) # "row" => db'["row"] = db["row"]
           /\ db'["row"].theirs < db["row"].theirs => form.raced
           /\ db'[Target(form.of)].mine = form.mine
<1> DEFINE t == Target(form.of)
           v == [mine |-> form.mine, theirs |-> form.theirs]
<1>1. /\ db' = [db EXCEPT ![t] = v] /\ made' = made + 1
      /\ house' = IF t = "house" THEN db'["house"] ELSE house
  BY DEF Submits
<1>2. t \in {"house", "row"}
  BY DEF Target
<1>3. v \in Rec /\ v.theirs = form.theirs /\ v.mine = form.mine
  BY DEF TuiInv, TypeOK, Forms, Rec
<1>4. /\ db \in [{"house", "row"} -> Rec] /\ house \in Rec /\ made \in Nat /\ pulls \in Nat
      /\ form.theirs \in Nat
  BY DEF TuiInv, TypeOK, Forms
<1>5. /\ db["row"].theirs <= pulls + 1
      /\ t = "row" => form.theirs <= pulls + 1 /\ (~form.raced => form.theirs = db["row"].theirs)
  BY DEF TuiInv, Read, ReadFits
<1> HIDE DEF t, v
<1>6. db' \in [{"house", "row"} -> Rec] /\ db'[t] = v /\ (t # "row" => db'["row"] = db["row"])
  BY <1>1, <1>2, <1>3, <1>4
<1>7. house' \in Rec /\ made' \in Nat
  BY <1>1, <1>4, <1>6
<1>8. db["row"].theirs \in Nat
  BY <1>4 DEF Rec
<1>9. CASE t = "row"
  <2>1. db'["row"] = v
    BY <1>6, <1>9
  <2>2. db'["row"].theirs < db["row"].theirs => form.raced
    BY <1>3, <1>4, <1>5, <1>8, <1>9, <2>1
  <2> QED BY <1>3, <1>5, <1>6, <1>7, <1>9, <2>1, <2>2 DEF t
<1>10. CASE t # "row"
  <2>1. ~(db'["row"].theirs < db["row"].theirs)
    BY <1>6, <1>8, <1>10
  <2> QED BY <1>3, <1>5, <1>6, <1>7, <1>10, <2>1 DEF t
<1> QED BY <1>9, <1>10

LEMMA DebouncesFits ==
    ASSUME TuiInv, Debounces
    PROVE  /\ gen' \in Nat /\ timers' \subseteq Nat /\ ticking' \in BOOLEAN
           /\ UNCHANGED <<status, cycles>>
BY DEF Debounces, TuiInv, TypeOK

\* A form is left: the rows d are those that are stored then.
LEMMA ExitFits ==
    ASSUME TuiInv, NEW d, NEW saved \in BOOLEAN, ExitForm(d, saved), form.of # "none" \/ editor.of # "none",
           d = db', db' \in [{"house", "row"} -> Rec],
           ~saved => db' = db,
           UNCHANGED <<status, cycles>>
    PROVE  /\ table' \in Rec /\ missed' \in BOOLEAN
           /\ mode' \in {"normal", "edit", "form"} /\ prevMode' = prevMode /\ detail' = detail
           /\ form' = NoForm /\ confirm' = "none" /\ ~pendingReload'
           /\ Seen' /\ PendingInForm'
<1>1. /\ mode' = prevMode /\ prevMode' = prevMode /\ detail' = detail
      /\ form' = NoForm /\ confirm' = "none" /\ pendingReload' = FALSE
      /\ cycles' = cycles
  BY DEF ExitForm
<1>2. mode # "over"
  BY DEF TuiInv, Alone
<1>3. d["row"] \in Rec /\ prevMode \in {"normal", "edit", "form"}
  BY DEF TuiInv, TypeOK
<1>4. CASE Reloads(d)
  BY <1>1, <1>3, <1>4 DEF Reloads, Seen, PendingInForm
<1>5. CASE ~pendingReload /\ saved /\ ReloadsEffective(d)
  BY <1>1, <1>3, <1>5 DEF ReloadsEffective, Reloads, Seen, PendingInForm, TuiInv, TypeOK, view
<1>6. CASE ~pendingReload /\ ~saved /\ UNCHANGED view
  <2>1. table' = table /\ missed' = missed /\ db' = db
    BY <1>6 DEF view
  <2>2. Quiet' = Quiet
    BY <1>1 DEF Quiet
  <2> QED BY <1>1, <1>2, <1>3, <1>6, <2>1, <2>2 DEF Seen, PendingInForm, TuiInv, TypeOK
<1> QED BY <1>4, <1>5, <1>6 DEF ExitForm

\* NoForm fits whatever is stored.
LEMMA NoFormFits ==
    ASSUME form' = NoForm, confirm' = "none", pulls' \in Nat
    PROVE  /\ form' \in Forms /\ form'.of = "none" /\ SnapKept' /\ ReadFits(form)'
<1>1. /\ NoForm.of = "none" /\ NoForm.snap = 0 /\ NoForm.kept = 0 /\ NoForm.theirs = 0
  BY DEF NoForm
<1>2. \A n \in Nat : 0 <= n + 1
  OBVIOUS
<1> QED BY <1>1, <1>2, FormTypes DEF SnapKept, ReadFits

\* A form is saved and left.
LEMMA CompleteKeeps ==
    ASSUME TuiInv, Complete
    PROVE  TuiInv'
<1>1. InForm /\ form.of # "none" /\ editor' = editor /\ typed' = typed /\ pulls' = pulls
      /\ editor.of = "none"
  BY DEF Complete, InForm, TuiInv, Alone
<1>2. Read
  BY DEF TuiInv
<1>3. CASE Submits /\ Debounces /\ ExitForm(db', TRUE) /\ UNCHANGED <<pushed, faults>>
  <2>1. /\ db' \in [{"house", "row"} -> Rec] /\ house' \in Rec /\ made' \in Nat
        /\ db'["row"].theirs <= pulls + 1
    BY <1>1, <1>3, SubmitsFits
  <2>2. /\ gen' \in Nat /\ timers' \subseteq Nat /\ ticking' \in BOOLEAN
        /\ UNCHANGED <<status, cycles>>
    BY <1>3, DebouncesFits
  <2>3. PICK d : d = db'
    OBVIOUS
  <2>4. /\ table' \in Rec /\ missed' \in BOOLEAN
        /\ mode' \in {"normal", "edit", "form"} /\ prevMode' = prevMode /\ detail' = detail
        /\ form' = NoForm /\ confirm' = "none" /\ ~pendingReload' /\ pendingReload' \in BOOLEAN
        /\ Seen' /\ PendingInForm'
    <3>1. ExitForm(d, TRUE) /\ TRUE \in BOOLEAN
      BY <1>3, <2>3
    <3>2. pendingReload' \in BOOLEAN
      BY <3>1 DEF ExitForm
    <3> QED BY <1>1, <2>1, <2>2, <2>3, <3>1, <3>2, ExitFits
  <2>5. /\ form' \in Forms /\ form'.of = "none" /\ SnapKept' /\ ReadFits(form)'
    BY <1>1, <2>4, NoFormFits DEF TuiInv, TypeOK
  <2>6. TypeOK'
    BY <1>1, <1>3, <2>1, <2>2, <2>4, <2>5 DEF TuiInv, TypeOK
  <2>7. Alone'
    BY <1>1, <2>4, <2>5 DEF Alone
  <2>8. Read'
    BY <1>1, <1>2, <2>1, <2>5 DEF Read, ReadFits
  <2> QED BY <2>2, <2>4, <2>5, <2>6, <2>7, <2>8, SameCycles
<1>4. CASE /\ Refuses
           /\ form' = [form EXCEPT !.done = TRUE]
           /\ UNCHANGED <<db, house, view, modes, confirm, pendingReload, sync, log>>
  <2>1. /\ db' = db /\ house' = house /\ table' = table /\ missed' = missed
        /\ confirm' = confirm /\ pendingReload' = pendingReload
        /\ status' = status /\ cycles' = cycles /\ gen' = gen /\ timers' = timers
        /\ ticking' = ticking /\ made' = made /\ pushed' = pushed
        /\ mode' = mode /\ prevMode' = prevMode /\ detail' = detail
    BY <1>4 DEF view, sync, log, modes
  <2>2. faults' \in Nat
    BY <1>4 DEF Refuses, TuiInv, TypeOK
  <2>3. /\ form' \in Forms /\ form'.of = form.of /\ form'.theirs = form.theirs
        /\ form'.snap = form.snap /\ form'.kept = form.kept
        /\ form'.edited = form.edited /\ form'.raced = form.raced
    <3>1. form \in Forms
      BY DEF TuiInv, TypeOK
    <3> QED BY <1>4, <3>1 DEF Forms
  <2>4. TypeOK'
    BY <1>1, <2>1, <2>2, <2>3 DEF TuiInv, TypeOK
  <2>5. Seen' /\ PendingInForm'
    BY <2>1 DEF TuiInv, Seen, PendingInForm, Quiet
  <2>6. Alone'
    BY <1>1, <2>1, <2>3 DEF TuiInv, Alone, InForm
  <2>7. SnapKept'
    BY <2>3 DEF TuiInv, SnapKept
  <2>8. Read'
    BY <1>1, <1>2, <2>1, <2>3 DEF Read, ReadFits
  <2> QED BY <2>1, <2>4, <2>5, <2>6, <2>7, <2>8, SameCycles
<1> QED BY <1>3, <1>4 DEF Complete

\* A form is saved and stays.
LEMMA SaveKeeps ==
    ASSUME TuiInv, SaveInPlace
    PROVE  TuiInv'
<1>1. /\ InForm /\ form.of # "none" /\ editor.of = "none" /\ confirm = "none"
      /\ Submits /\ Debounces /\ ReloadsEffective(db')
      /\ form' = [form EXCEPT !.snap = form.mine, !.kept = form.mine]
      /\ mode' = mode /\ prevMode' = prevMode /\ detail' = detail
      /\ confirm' = confirm /\ editor' = editor /\ pendingReload' = pendingReload
      /\ pushed' = pushed /\ typed' = typed /\ pulls' = pulls /\ faults' = faults
  BY DEF SaveInPlace, InForm, TuiInv, Alone, modes
<1>2. /\ db' \in [{"house", "row"} -> Rec] /\ house' \in Rec /\ made' \in Nat
      /\ db'["row"].theirs <= pulls + 1
      /\ Target(form.of) = "row" => db'["row"].theirs = form.theirs
  BY <1>1, SubmitsFits
<1>3. /\ gen' \in Nat /\ timers' \subseteq Nat /\ ticking' \in BOOLEAN
      /\ UNCHANGED <<status, cycles>>
  BY <1>1, DebouncesFits
<1>4. /\ form' \in Forms /\ form'.of = form.of /\ form'.theirs = form.theirs
      /\ form'.snap = form'.kept /\ form'.raced = form.raced
  <2>1. form \in Forms
    BY DEF TuiInv, TypeOK
  <2> QED BY <1>1, <2>1 DEF Forms
<1>5. table' \in Rec /\ missed' \in BOOLEAN /\ (~detail => table' = db'["row"])
      /\ db'["row"] \in Rec
  <2>1. db'["row"] \in Rec
    BY <1>2
  <2> QED BY <1>1, <2>1 DEF ReloadsEffective, Reloads, view, TuiInv, TypeOK
<1>6. TypeOK'
  BY <1>1, <1>2, <1>3, <1>4, <1>5 DEF TuiInv, TypeOK
<1>7. Seen' /\ PendingInForm'
  BY <1>1, <1>5 DEF TuiInv, Seen, PendingInForm
<1>8. Alone'
  BY <1>1, <1>4 DEF TuiInv, Alone, InForm
<1>9. SnapKept'
  BY <1>4 DEF SnapKept
<1>10. Read'
  <2>1. Read
    BY DEF TuiInv
  <2> QED BY <1>1, <1>2, <1>4, <2>1 DEF Read, ReadFits
<1> QED BY <1>3, <1>6, <1>7, <1>8, <1>9, <1>10, SameCycles

\* An inline edit is saved, or given up.
LEMMA InlineKeeps ==
    ASSUME TuiInv, SubmitInline \/ CancelInline
    PROVE  TuiInv'
<1>1. /\ form.of \in {"inline", "field"} /\ form' = NoForm /\ editor.of = "none"
      /\ mode' = mode /\ prevMode' = prevMode /\ detail' = detail
      /\ confirm = "none" /\ confirm' = confirm /\ editor' = editor /\ pendingReload' = pendingReload
      /\ pushed' = pushed /\ typed' = typed /\ pulls' = pulls /\ faults' = faults
  BY DEF SubmitInline, CancelInline, InForm, TuiInv, TypeOK, Alone, modes, log
<1>2. /\ form' \in Forms /\ form'.of = "none" /\ SnapKept' /\ ReadFits(form)'
  BY <1>1, NoFormFits DEF TuiInv, TypeOK
<1>3. Alone'
  BY <1>1, <1>2 DEF Alone
<1>4. Read /\ TypeOK
  BY DEF TuiInv
<1>5. CASE CancelInline
  <2>1. /\ db' = db /\ house' = house /\ table' = table /\ missed' = missed
        /\ status' = status /\ cycles' = cycles /\ gen' = gen /\ timers' = timers
        /\ ticking' = ticking /\ made' = made
    BY <1>5 DEF CancelInline, view, sync, log
  <2>2. TypeOK'
    BY <1>1, <1>2, <1>4, <2>1 DEF TypeOK
  <2>3. Seen' /\ PendingInForm'
    BY <1>1, <2>1 DEF TuiInv, Seen, PendingInForm, Quiet
  <2>4. Read'
    BY <1>1, <1>2, <1>4, <2>1 DEF Read, ReadFits
  <2> QED BY <1>2, <1>3, <2>1, <2>2, <2>3, <2>4, SameCycles
<1>6. CASE SubmitInline
  <2>1. /\ db' \in [{"house", "row"} -> Rec] /\ house' \in Rec /\ made' \in Nat
        /\ db'["row"].theirs <= pulls + 1
        /\ Target(form.of) # "row" => db'["row"] = db["row"]
    BY <1>1, <1>6, SubmitsFits DEF SubmitInline
  <2>2. Read'
    BY <1>1, <1>2, <1>4, <2>1 DEF Read, ReadFits
  <2>3. CASE form.of = "inline" /\ Debounces /\ ReloadsEffective(db')
    <3>1. /\ gen' \in Nat /\ timers' \subseteq Nat /\ ticking' \in BOOLEAN
          /\ UNCHANGED <<status, cycles>>
      BY <2>3, DebouncesFits
    <3>2. table' \in Rec /\ missed' \in BOOLEAN /\ (~detail => table' = db'["row"])
      <4>1. db'["row"] \in Rec
        BY <2>1
      <4> QED BY <1>4, <2>3, <4>1 DEF ReloadsEffective, Reloads, view, TypeOK
    <3>3. TypeOK'
      BY <1>1, <1>2, <1>4, <2>1, <3>1, <3>2 DEF TypeOK
    <3>4. Seen' /\ PendingInForm'
      BY <1>1, <3>2 DEF TuiInv, Seen, PendingInForm
    <3> QED BY <1>2, <1>3, <2>2, <3>1, <3>3, <3>4, SameCycles
  <2>4. CASE form.of = "field" /\ UNCHANGED <<sync, view>>
    <3>1. /\ table' = table /\ missed' = missed
          /\ status' = status /\ cycles' = cycles /\ gen' = gen /\ timers' = timers
          /\ ticking' = ticking
      BY <2>4 DEF view, sync
    <3>2. db'["row"] = db["row"]
      BY <2>1, <2>4 DEF Target
    <3>3. TypeOK'
      BY <1>1, <1>2, <1>4, <2>1, <3>1 DEF TypeOK
    <3>4. Seen' /\ PendingInForm'
      BY <1>1, <3>1, <3>2 DEF TuiInv, Seen, PendingInForm, Quiet
    <3> QED BY <1>2, <1>3, <2>2, <3>1, <3>3, <3>4, SameCycles
  <2> QED BY <1>6, <2>3, <2>4 DEF SubmitInline
<1> QED BY <1>5, <1>6

\* The form is left, its rows as they were.
LEMMA LeftKeeps ==
    ASSUME TuiInv, ExitForm(db, FALSE), form.of # "none",
           editor' = editor \/ (editor' = form /\ form.of # "none"),
           UNCHANGED <<db, house, sync, log, typed, pulls, faults>>
    PROVE  TuiInv'
<1>1. /\ db' = db /\ house' = house /\ status' = status /\ cycles' = cycles /\ gen' = gen
      /\ timers' = timers /\ ticking' = ticking /\ made' = made /\ pushed' = pushed
      /\ typed' = typed /\ pulls' = pulls /\ faults' = faults
  BY DEF sync, log
<1>2. Read /\ TypeOK /\ form \in Forms /\ editor.of = "none" /\ db \in [{"house", "row"} -> Rec]
  BY DEF TuiInv, TypeOK, Alone
<1>3. /\ table' \in Rec /\ missed' \in BOOLEAN
      /\ mode' \in {"normal", "edit", "form"} /\ prevMode' = prevMode /\ detail' = detail
      /\ form' = NoForm /\ confirm' = "none" /\ pendingReload' \in BOOLEAN
      /\ Seen' /\ PendingInForm'
  <2>1. PICK d : d = db
    OBVIOUS
  <2>2. ExitForm(d, FALSE) /\ FALSE \in BOOLEAN /\ d = db' /\ db' \in [{"house", "row"} -> Rec]
    BY <1>1, <1>2, <2>1
  <2>3. pendingReload' \in BOOLEAN
    BY DEF ExitForm
  <2> QED BY <1>1, <2>2, <2>3, ExitFits
<1>4. /\ form' \in Forms /\ form'.of = "none" /\ SnapKept' /\ ReadFits(form)'
  BY <1>1, <1>2, <1>3, NoFormFits DEF TypeOK
<1>5. TypeOK'
  BY <1>1, <1>2, <1>3, <1>4 DEF TypeOK
<1>6. Alone'
  BY <1>3, <1>4 DEF Alone
<1>7. Read'
  BY <1>1, <1>2, <1>4 DEF Read, ReadFits
<1> QED BY <1>1, <1>3, <1>4, <1>5, <1>6, <1>7, SameCycles

\* ESC: a question, the first form anew, or the form is left.
LEMMA EscapeKeeps ==
    ASSUME TuiInv, Escape
    PROVE  TuiInv'
<1>1. /\ InForm /\ form.of # "none" /\ editor.of = "none" /\ mode # "over"
      /\ Read /\ TypeOK /\ SnapKept /\ PendingInForm /\ Alone /\ Seen
  BY DEF Escape, InForm, TuiInv, Alone
<1>2. /\ db' = db /\ house' = house /\ status' = status /\ cycles' = cycles /\ gen' = gen
      /\ timers' = timers /\ ticking' = ticking /\ made' = made /\ pushed' = pushed
      /\ typed' = typed /\ pulls' = pulls /\ faults' = faults /\ editor' = editor
  BY DEF Escape, sync, log
<1>3. CASE confirm' = "discard" /\ UNCHANGED <<form, view, modes, pendingReload>>
  <2>1. /\ form' = form /\ table' = table /\ missed' = missed /\ pendingReload' = pendingReload
        /\ mode' = mode /\ prevMode' = prevMode /\ detail' = detail
    BY <1>3 DEF view, modes
  <2>2. TypeOK'
    BY <1>1, <1>2, <1>3, <2>1 DEF TypeOK
  <2>3. Seen' /\ PendingInForm'
    BY <1>1, <1>2, <2>1 DEF Seen, PendingInForm, Quiet
  <2>4. Alone' /\ SnapKept'
    BY <1>1, <1>2, <2>1 DEF Alone, InForm, SnapKept
  <2>5. Read'
    BY <1>1, <1>2, <2>1 DEF Read, ReadFits
  <2> QED BY <1>2, <2>2, <2>3, <2>4, <2>5, SameCycles
<1>4. CASE /\ Mandatory /\ Activate(Form("house", Blank))
           /\ UNCHANGED <<view, confirm, pendingReload>>
  <2>1. Blank \in Rec
    BY DEF Blank, Rec
  <2>2. /\ form' \in Forms /\ form'.of = "house" /\ form'.snap = form'.kept
        /\ form' = Form("house", Blank)
    BY <1>4, <2>1, FormTypes DEF Activate
  <2>3. /\ table' = table /\ missed' = missed /\ pendingReload' = pendingReload
        /\ confirm' = confirm /\ mode' = "form" /\ prevMode' = mode /\ detail' = detail
    BY <1>4 DEF view, Activate
  <2>4. TypeOK'
    BY <1>1, <1>2, <2>2, <2>3 DEF TypeOK
  <2>5. Seen' /\ PendingInForm'
    BY <1>1, <1>2, <2>3 DEF Seen, PendingInForm, Quiet
  <2>6. Alone' /\ SnapKept'
    BY <1>1, <1>2, <2>2, <2>3 DEF Alone, InForm, SnapKept
  <2>7. Read'
    BY <1>1, <1>2, <2>2 DEF Read, ReadFits, Target
  <2> QED BY <1>2, <2>4, <2>5, <2>6, <2>7, SameCycles
<1>5. CASE ExitForm(db, FALSE)
  <2>1. UNCHANGED <<db, house, sync, log, typed, pulls, faults>>
    BY DEF Escape
  <2> QED BY <1>1, <1>2, <1>5, <2>1, LeftKeeps
<1> QED BY <1>3, <1>4, <1>5 DEF Escape

\* The program ends.
LEMMA OverKeeps ==
    ASSUME TuiInv, Over, editor.of = "none",
           UNCHANGED <<db, house, editor, log, typed, pulls, faults>>
    PROVE  TuiInv'
<1>1. /\ db' = db /\ house' = house /\ editor' = editor /\ made' = made /\ pushed' = pushed
      /\ typed' = typed /\ pulls' = pulls /\ faults' = faults
      /\ mode' = "over" /\ form' = NoForm /\ confirm' = "none" /\ cycles' = <<>>
      /\ prevMode' = prevMode /\ detail' = detail /\ table' = table /\ missed' = missed
      /\ pendingReload' = pendingReload /\ status' = status /\ gen' = gen
      /\ timers' = timers /\ ticking' = ticking
  BY DEF Over, view, log
<1>2. Read /\ TypeOK
  BY DEF TuiInv
<1>3. OneCycle' /\ cycles' \in Seq(Cycle)
  BY <1>1, KeyCycles
<1>4. /\ form' \in Forms /\ form'.of = "none" /\ SnapKept' /\ ReadFits(form)'
  BY <1>1, <1>2, NoFormFits DEF TypeOK
<1>5. TypeOK'
  BY <1>1, <1>2, <1>3, <1>4 DEF TypeOK
<1>6. Seen' /\ PendingInForm'
  BY <1>1 DEF Seen, PendingInForm
<1>7. Alone'
  BY <1>1, <1>4 DEF Alone
<1>8. Read'
  BY <1>1, <1>2, <1>4 DEF Read, ReadFits
<1> QED BY <1>3, <1>4, <1>5, <1>6, <1>7, <1>8 DEF TuiInv

\* A question is asked or answered by "no": nothing else changes.
LEMMA AskedKeeps ==
    ASSUME TuiInv, confirm' \in {"none", "quit"}, confirm' # "none" => InForm,
           UNCHANGED <<form, view, modes, pendingReload, sync>>,
           UNCHANGED <<db, house, editor, log, typed, pulls, faults>>
    PROVE  TuiInv'
<1>1. /\ db' = db /\ house' = house /\ status' = status /\ cycles' = cycles /\ gen' = gen
      /\ timers' = timers /\ ticking' = ticking /\ made' = made /\ pushed' = pushed
      /\ typed' = typed /\ pulls' = pulls /\ faults' = faults /\ editor' = editor
      /\ form' = form /\ table' = table /\ missed' = missed /\ pendingReload' = pendingReload
      /\ mode' = mode /\ prevMode' = prevMode /\ detail' = detail
  BY DEF sync, log, view, modes
<1>2. Read /\ TypeOK /\ SnapKept /\ PendingInForm /\ Alone /\ Seen
  BY DEF TuiInv
<1>3. TypeOK'
  BY <1>1, <1>2 DEF TypeOK
<1>4. Seen' /\ PendingInForm'
  BY <1>1, <1>2 DEF Seen, PendingInForm, Quiet
<1>5. Alone' /\ SnapKept'
  BY <1>1, <1>2 DEF Alone, InForm, SnapKept
<1>6. Read'
  BY <1>1, <1>2 DEF Read, ReadFits
<1> QED BY <1>1, <1>3, <1>4, <1>5, <1>6, SameCycles

LEMMA AnswerKeeps ==
    ASSUME TuiInv, Confirm \/ Quit
    PROVE  TuiInv'
<1>1. UNCHANGED <<db, house, editor, log, typed, pulls, faults>>
  BY DEF Confirm, Quit
<1>2. confirm # "none" => form.of # "none" /\ editor.of = "none"
  BY DEF TuiInv, Alone, InForm
<1>3. CASE confirm = "discard" /\ ExitForm(db, FALSE) /\ UNCHANGED sync
  <2>1. editor' = editor /\ UNCHANGED <<db, house, sync, log, typed, pulls, faults>>
    BY <1>1, <1>3
  <2> QED BY <1>2, <1>3, <2>1, LeftKeeps
<1>4. CASE Over /\ editor.of = "none"
  BY <1>1, <1>4, OverKeeps
<1>5. CASE /\ confirm' = "none"
           /\ UNCHANGED <<form, view, modes, pendingReload, sync>>
  BY <1>1, <1>5, AskedKeeps
<1>6. CASE /\ InForm /\ confirm' = "quit"
           /\ UNCHANGED <<form, view, modes, pendingReload, sync>>
  BY <1>1, <1>6, AskedKeeps
<1> QED BY <1>2, <1>3, <1>4, <1>5, <1>6 DEF Confirm, Quit

LEMMA LaunchKeeps ==
    ASSUME TuiInv, LaunchEditor
    PROVE  TuiInv'
<1>1. /\ form.of # "none" /\ editor' = form /\ ExitForm(db, FALSE)
      /\ UNCHANGED <<db, house, sync, log, typed, pulls, faults>>
  BY DEF LaunchEditor
<1> QED BY <1>1, LeftKeeps

\* The text comes back from $EDITOR, into a form as it was.
LEMMA FinishedKeeps ==
    ASSUME TuiInv, EditorFinished
    PROVE  TuiInv'
<1>1. Read /\ TypeOK /\ SnapKept /\ PendingInForm /\ Alone /\ Seen
  BY DEF TuiInv
<1>2. /\ editor.of # "none" /\ form.of = "none" /\ mode # "over" /\ confirm = "none"
      /\ editor' = NoForm
      /\ db' = db /\ house' = house /\ status' = status /\ cycles' = cycles /\ gen' = gen
      /\ timers' = timers /\ ticking' = ticking /\ made' = made /\ pushed' = pushed
      /\ pulls' = pulls /\ faults' = faults
      /\ table' = table /\ missed' = missed /\ pendingReload' = pendingReload /\ confirm' = confirm
      /\ mode' = "form" /\ prevMode' = mode /\ detail' = detail
  BY <1>1 DEF EditorFinished, Activate, Alone, InForm, sync, log, view
<1>3. PICK new \in {0, 1}, text \in Nat :
          /\ typed' = typed + new
          /\ form' = [editor EXCEPT !.mine = text, !.snap = text, !.edited = TRUE, !.done = FALSE]
  <2>1. PICK new \in {0, 1} :
          /\ typed' = typed + new
          /\ LET text == IF new = 1 THEN typed' + 1 ELSE editor.mine
             IN  Activate([editor EXCEPT !.mine = text, !.snap = text, !.edited = TRUE, !.done = FALSE])
    BY DEF EditorFinished
  <2>2. typed \in Nat /\ editor.mine \in Nat
    BY <1>1 DEF TypeOK, Forms
  <2>3. PICK text \in Nat : text = IF new = 1 THEN typed' + 1 ELSE editor.mine
    BY <2>1, <2>2
  <2> QED BY <2>1, <2>3 DEF Activate
<1>4. /\ form' \in Forms /\ form'.of = editor.of /\ form'.theirs = editor.theirs
      /\ form'.edited /\ form'.raced = editor.raced
  <2>1. editor \in Forms
    BY <1>1 DEF TypeOK
  <2> QED BY <1>3, <2>1 DEF Forms
<1>5. /\ editor' \in Forms /\ editor'.of = "none" /\ ReadFits(editor)'
  <2>1. NoForm.of = "none" /\ NoForm.theirs = 0
    BY DEF NoForm
  <2>2. \A n \in Nat : 0 <= n + 1
    OBVIOUS
  <2> QED BY <1>1, <1>2, <2>1, <2>2, FormTypes DEF ReadFits, TypeOK
<1>6. TypeOK'
  <2>1. typed' \in Nat
    BY <1>1, <1>3 DEF TypeOK
  <2>2. prevMode' \in {"normal", "edit", "form"}
    BY <1>1, <1>2 DEF TypeOK
  <2> QED BY <1>1, <1>2, <1>4, <1>5, <2>1, <2>2 DEF TypeOK
<1>7. Seen' /\ PendingInForm'
  BY <1>1, <1>2 DEF Seen, PendingInForm, Quiet
<1>8. Alone' /\ SnapKept'
  BY <1>1, <1>2, <1>4, <1>5 DEF Alone, InForm, SnapKept
<1>9. Read'
  BY <1>1, <1>2, <1>4, <1>5 DEF Read, ReadFits
<1> QED BY <1>2, <1>6, <1>7, <1>8, <1>9, SameCycles

-----------------------------------------------------------------------------
(* The other keys, the timers and the cycles. *)

\* Steps that neither open nor leave a form: the form's parts of TuiInv.
LEMMA SameForm ==
    ASSUME TuiInv, form' = form, editor' = editor, confirm' = confirm,
           mode' = mode \/ (mode # "over" /\ mode' # "over" /\ form.of = "none"),
           db'["row"].theirs = db["row"].theirs, pulls' = pulls
    PROVE  Alone' /\ SnapKept' /\ Read'
<1>1. Read /\ SnapKept /\ Alone
  BY DEF TuiInv
<1>2. Alone' /\ SnapKept'
  BY <1>1 DEF Alone, InForm, SnapKept
<1>3. Read'
  BY <1>1 DEF Read, ReadFits
<1> QED BY <1>2, <1>3

LEMMA KeysKeep ==
    ASSUME TuiInv, ToggleEdit \/ ToggleDelete \/ Navigate
    PROVE  TuiInv'
<1>1. /\ TypeOK /\ Seen /\ PendingInForm /\ db \in [{"house", "row"} -> Rec]
      /\ form.of = "none" /\ editor.of = "none" /\ mode # "over"
      /\ form' = form /\ editor' = editor /\ confirm' = confirm /\ house' = house
      /\ status' = status /\ cycles' = cycles /\ gen' = gen /\ timers' = timers
      /\ ticking' = ticking /\ pushed' = pushed /\ pulls' = pulls /\ faults' = faults
      /\ pendingReload' = pendingReload /\ prevMode' = prevMode
  BY DEF TuiInv, TypeOK, ToggleEdit, ToggleDelete, Navigate, Idle, sync, log, modes
<1>2. CASE ToggleEdit
  <2>1. /\ mode \in {"normal", "edit"} /\ mode' \in {"normal", "edit"}
        /\ db' = db /\ table' = table /\ missed' = missed /\ detail' = detail
        /\ made' = made /\ typed' = typed
    BY <1>2 DEF ToggleEdit, view, log
  <2>2. TypeOK'
    BY <1>1, <2>1 DEF TypeOK
  <2>3. Seen' /\ PendingInForm'
    BY <1>1, <2>1 DEF Seen, PendingInForm, Quiet
  <2>4. Alone' /\ SnapKept' /\ Read'
    BY <1>1, <2>1, SameForm
  <2> QED BY <1>1, <2>2, <2>3, <2>4, SameCycles
<1>3. CASE ToggleDelete
  <2>1. /\ typed' = typed + 1 /\ made' = made + 1
        /\ db' = [db EXCEPT !["row"].mine = typed' + 1]
        /\ mode' = mode /\ detail' = detail
        /\ ReloadsEffective(db')
    BY <1>3 DEF ToggleDelete, modes
  <2>2. /\ typed' \in Nat /\ made' \in Nat /\ db["row"] \in Rec
    BY <1>1, <2>1 DEF TypeOK
  <2>3. PICK r : r = [db["row"] EXCEPT !.mine = typed' + 1]
    OBVIOUS
  <2>4. r \in Rec /\ r.theirs = db["row"].theirs
    BY <2>2, <2>3 DEF Rec
  <2>5. db' = [db EXCEPT !["row"] = r]
    BY <2>1, <2>3
  <2>6. db' \in [{"house", "row"} -> Rec] /\ db'["row"] = r
    BY <1>1, <2>4, <2>5
  <2>7. table' \in Rec /\ missed' \in BOOLEAN /\ (~detail => table' = db'["row"])
    BY <1>1, <2>1, <2>4, <2>6 DEF ReloadsEffective, Reloads, view, TypeOK
  <2>8. TypeOK'
    BY <1>1, <2>1, <2>2, <2>6, <2>7 DEF TypeOK
  <2>9. Seen' /\ PendingInForm'
    BY <1>1, <2>1, <2>7 DEF Seen, PendingInForm
  <2>10. Alone' /\ SnapKept' /\ Read'
    BY <1>1, <2>1, <2>4, <2>6, SameForm
  <2> QED BY <1>1, <2>8, <2>9, <2>10, SameCycles
<1>4. CASE Navigate
  <2>1. /\ db' = db /\ mode' = mode /\ made' = made /\ typed' = typed
        /\ \/ ~detail /\ detail' = TRUE /\ table' = table /\ missed' = missed
           \/ detail' = FALSE /\ table' = db["row"] /\ missed' = FALSE
    BY <1>4 DEF Navigate, view, log, Reloads
  <2>2. table' \in Rec /\ missed' \in BOOLEAN /\ detail' \in BOOLEAN
    BY <1>1, <2>1 DEF TypeOK
  <2>3. TypeOK'
    BY <1>1, <2>1, <2>2 DEF TypeOK
  <2>4. Seen' /\ PendingInForm'
    BY <1>1, <2>1 DEF Seen, PendingInForm
  <2>5. Alone' /\ SnapKept' /\ Read'
    BY <1>1, <2>1, SameForm
  <2> QED BY <1>1, <2>3, <2>4, <2>5, SameCycles
<1> QED BY <1>2, <1>3, <1>4

\* A timer goes off: a cycle starts, or nothing.
LEMMA TimersKeep ==
    ASSUME TuiInv, NEW g, Tick \/ Debounced(g)
    PROVE  TuiInv'
<1>1. /\ db' = db /\ house' = house /\ table' = table /\ missed' = missed
      /\ mode' = mode /\ prevMode' = prevMode /\ detail' = detail
      /\ form' = form /\ confirm' = confirm /\ editor' = editor
      /\ pendingReload' = pendingReload /\ gen' = gen /\ made' = made /\ pushed' = pushed
      /\ typed' = typed /\ pulls' = pulls /\ faults' = faults
      /\ timers' \subseteq timers /\ ticking' \in BOOLEAN
  BY DEF Tick, Debounced, SetsTimer, view, log, modes, TuiInv, TypeOK
<1>2. TypeOK /\ OneCycle /\ Seen /\ PendingInForm
  BY DEF TuiInv
<1>3. UNCHANGED <<status, cycles>> \/ (status # "syncing" /\ StartCycle)
  BY DEF Tick, Debounced, MaySync
<1>4. /\ cycles' \in Seq(Cycle) /\ status' \in {"syncing", "synced", "offline"}
      /\ OneCycle' /\ (Quiet' => Quiet)
  <2>1. CASE UNCHANGED <<status, cycles>>
    BY <1>2, <2>1 DEF TypeOK, OneCycle, Quiet
  <2>2. CASE status # "syncing" /\ StartCycle
    <3>1. /\ cycles = <<>> /\ cycles' \in Seq(Cycle) /\ Len(cycles') = 1
          /\ status' = "syncing"
      BY <1>2, <2>2, StartFits
    <3>2. DOMAIN cycles = {}
      BY <3>1
    <3> QED BY <3>1, <3>2 DEF OneCycle, Quiet
  <2> QED BY <1>3, <2>1, <2>2
<1>5. TypeOK'
  BY <1>1, <1>2, <1>4 DEF TypeOK
<1>6. Seen' /\ PendingInForm'
  BY <1>1, <1>2, <1>4 DEF Seen, PendingInForm
<1>7. Alone' /\ SnapKept' /\ Read'
  BY <1>1, SameForm
<1> QED BY <1>4, <1>5, <1>6, <1>7 DEF TuiInv

LEMMA RacedFits ==
    ASSUME NEW f \in Forms, NEW rec \in {"house", "row"}
    PROVE  /\ Raced(f, rec) \in Forms /\ Raced(f, rec).of = f.of
           /\ Raced(f, rec).mine = f.mine /\ Raced(f, rec).theirs = f.theirs
           /\ Raced(f, rec).snap = f.snap /\ Raced(f, rec).kept = f.kept
           /\ Raced(f, rec).edited = f.edited
           /\ f.raced => Raced(f, rec).raced
           /\ f.of # "none" /\ Target(f.of) = rec => Raced(f, rec).raced
<1>1. PICK g : g = [f EXCEPT !.raced = TRUE]
  OBVIOUS
<1>2. /\ g \in Forms /\ g.of = f.of /\ g.mine = f.mine /\ g.theirs = f.theirs
      /\ g.snap = f.snap /\ g.kept = f.kept /\ g.edited = f.edited /\ g.raced
  BY <1>1 DEF Forms
<1> QED BY <1>1, <1>2 DEF Raced

\* What the pull of one record does to what the form knows of the others' fields.
LEMMA PullFits ==
    ASSUME TuiInv, NEW f \in Forms, ReadFits(f), NEW rec \in {"house", "row"},
           NEW v \in Rec, pulls' = pulls + 1, v.theirs = pulls' + 1,
           db' = [db EXCEPT ![rec] = v],
           NEW h, h = Raced(f, rec)
    PROVE  /\ Target(h.of) = "row" =>
                 /\ h.theirs <= pulls' + 1
                 /\ h.of # "none" /\ ~h.raced => h.theirs = db'["row"].theirs
<1>1. /\ h.of = f.of /\ h.theirs = f.theirs /\ (f.raced => h.raced)
      /\ (f.of # "none" /\ Target(f.of) = rec => h.raced)
  BY RacedFits
<1>2. pulls \in Nat /\ f.theirs \in Nat /\ db \in [{"house", "row"} -> Rec]
  BY DEF TuiInv, TypeOK, Forms
<1>3. rec = "house" => db'["row"] = db["row"]
  BY <1>2
<1>4. ASSUME Target(f.of) = "row"
      PROVE  f.theirs <= pulls + 1 /\ (f.of # "none" /\ ~f.raced => f.theirs = db["row"].theirs)
  BY <1>4 DEF ReadFits
<1>5. f.theirs <= pulls + 1 => f.theirs <= pulls' + 1
  BY <1>2
<1> QED BY <1>1, <1>3, <1>4, <1>5

\* A cycle pulls. Until it ends, what it pulled is not shown, and it says so.
LEMMA PullKeeps ==
    ASSUME TuiInv, NEW c \in DOMAIN cycles, CyclePulls(c)
    PROVE  /\ TuiInv'
           /\ db'["row"].theirs >= db["row"].theirs
           /\ form'.mine = form.mine /\ form'.of = form.of
<1>1. /\ house' = house /\ table' = table /\ missed' = missed
      /\ mode' = mode /\ prevMode' = prevMode /\ detail' = detail
      /\ confirm' = confirm /\ pendingReload' = pendingReload /\ status' = status
      /\ gen' = gen /\ timers' = timers /\ ticking' = ticking /\ made' = made
      /\ pushed' = pushed /\ typed' = typed /\ faults' = faults
  BY DEF CyclePulls, view, log, modes
<1>2. /\ TypeOK /\ OneCycle /\ Seen /\ PendingInForm /\ Alone /\ SnapKept /\ Read
      /\ form \in Forms /\ editor \in Forms /\ db \in [{"house", "row"} -> Rec]
      /\ pulls \in Nat
  BY DEF TuiInv, TypeOK
<1>3. cycles[c] \in Cycle
  BY <1>2, SeqDomain DEF TypeOK
<1>4. CASE /\ cycles' = [cycles EXCEPT ![c].at = "push"]
           /\ UNCHANGED <<db, form, editor, pulls>>
  <2>1. PICK y : y = [cycles[c] EXCEPT !.at = "push"]
    OBVIOUS
  <2>2. y \in Cycle /\ y.pulled = cycles[c].pulled
    BY <1>3, <2>1 DEF Cycle
  <2>3. /\ cycles' \in Seq(Cycle) /\ Len(cycles') = Len(cycles) /\ DOMAIN cycles' = DOMAIN cycles
        /\ cycles'[c] = y /\ DOMAIN cycles = {c} /\ status = "syncing"
    BY <1>2, <1>4, <2>1, <2>2, CycleMoves
  <2>4. OneCycle' /\ (Quiet' => Quiet)
    BY <1>1, <1>2, <2>2, <2>3 DEF OneCycle, Quiet
  <2>5. TypeOK'
    BY <1>1, <1>2, <1>4, <2>3 DEF TypeOK
  <2>6. Seen' /\ PendingInForm'
    BY <1>1, <1>2, <1>4, <2>4 DEF Seen, PendingInForm
  <2>7. Alone' /\ SnapKept' /\ Read'
    BY <1>1, <1>4, SameForm
  <2>8. db["row"].theirs >= db["row"].theirs
    <3>1. db["row"].theirs \in Nat
      BY <1>2 DEF Rec
    <3> QED BY <3>1
  <2> QED BY <1>4, <2>4, <2>5, <2>6, <2>7, <2>8 DEF TuiInv
<1>5. CASE /\ pulls' = pulls + 1
           /\ \E rec \in {"house", "row"} :
                /\ \E mine \in {db[rec].mine} \cup (IF db[rec] = Blank \/ pushed < made THEN {1} ELSE {}) :
                      db' = [db EXCEPT ![rec] = [mine |-> mine, theirs |-> pulls' + 1]]
                /\ form' = Raced(form, rec) /\ editor' = Raced(editor, rec)
           /\ cycles' = [cycles EXCEPT ![c].at = "push", ![c].pulled = TRUE]
  <2>1. PICK rec \in {"house", "row"}, mine \in Nat :
          /\ db' = [db EXCEPT ![rec] = [mine |-> mine, theirs |-> pulls' + 1]]
          /\ form' = Raced(form, rec) /\ editor' = Raced(editor, rec)
    <3>1. \A rec \in {"house", "row"} : db[rec].mine \in Nat
      BY <1>2 DEF Rec
    <3> QED BY <1>5, <3>1
  <2>2. PICK v \in Rec : v.theirs = pulls' + 1 /\ db' = [db EXCEPT ![rec] = v]
    <3>1. PICK v : v = [mine |-> mine, theirs |-> pulls' + 1]
      OBVIOUS
    <3>2. v \in Rec /\ v.theirs = pulls' + 1
      BY <1>2, <1>5, <3>1 DEF Rec
    <3> QED BY <2>1, <3>1, <3>2
  <2>3. /\ form' \in Forms /\ form'.of = form.of /\ form'.mine = form.mine
        /\ form'.snap = form.snap /\ form'.kept = form.kept /\ form'.edited = form.edited
        /\ editor' \in Forms /\ editor'.of = editor.of
    BY <1>2, <2>1, RacedFits
  <2>4. db' \in [{"house", "row"} -> Rec] /\ db'["row"].theirs <= pulls' + 1
        /\ db'["row"].theirs >= db["row"].theirs
    <3>1. db' \in [{"house", "row"} -> Rec]
      BY <1>2, <2>2
    <3>2. db["row"].theirs <= pulls + 1 /\ db["row"].theirs \in Nat
      BY <1>2 DEF Read, Rec
    <3>3. db'["row"] = v \/ db'["row"] = db["row"]
      BY <1>2, <2>2
    <3>4. CASE db'["row"] = v
      BY <1>2, <1>5, <2>2, <3>1, <3>2, <3>4
    <3>5. CASE db'["row"] = db["row"]
      <4>1. db["row"].theirs <= pulls' + 1 /\ db["row"].theirs >= db["row"].theirs
        BY <1>2, <1>5, <3>2
      <4> QED BY <3>1, <3>5, <4>1
    <3> QED BY <3>3, <3>4, <3>5
  <2>5. Read'
    <3>1. /\ ReadFits(form) /\ ReadFits(editor)
      BY <1>2 DEF Read
    <3>2. PICK h, e : h = Raced(form, rec) /\ e = Raced(editor, rec)
      OBVIOUS
    <3>3. /\ Target(h.of) = "row" =>
                 /\ h.theirs <= pulls' + 1
                 /\ h.of # "none" /\ ~h.raced => h.theirs = db'["row"].theirs
      BY <1>2, <1>5, <2>2, <3>1, <3>2, PullFits
    <3>4. /\ Target(e.of) = "row" =>
                 /\ e.theirs <= pulls' + 1
                 /\ e.of # "none" /\ ~e.raced => e.theirs = db'["row"].theirs
      BY <1>2, <1>5, <2>2, <3>1, <3>2, PullFits
    <3>5. form' = h /\ editor' = e
      BY <2>1, <3>2
    <3> QED BY <2>4, <3>3, <3>4, <3>5 DEF Read, ReadFits
  <2>6. PICK y : y = [cycles[c] EXCEPT !.at = "push", !.pulled = TRUE]
    OBVIOUS
  <2>7. y \in Cycle /\ y.pulled
    BY <1>3, <2>6 DEF Cycle
  <2>8. /\ cycles' \in Seq(Cycle) /\ Len(cycles') = Len(cycles) /\ DOMAIN cycles' = DOMAIN cycles
        /\ cycles'[c] = y /\ DOMAIN cycles = {c} /\ status = "syncing"
    <3>1. cycles' = [cycles EXCEPT ![c] = y]
      BY <1>5, <2>6
    <3> QED BY <1>2, <2>7, <3>1, CycleMoves
  <2>9. OneCycle' /\ ~Quiet'
    BY <1>1, <1>2, <2>7, <2>8 DEF OneCycle, Quiet
  <2>10. TypeOK'
    BY <1>1, <1>2, <1>5, <2>3, <2>4, <2>8 DEF TypeOK
  <2>11. Seen' /\ PendingInForm'
    BY <1>1, <1>2, <2>9 DEF Seen, PendingInForm
  <2>12. Alone' /\ SnapKept'
    BY <1>1, <1>2, <2>3 DEF Alone, InForm, SnapKept
  <2> QED BY <2>3, <2>4, <2>5, <2>9, <2>10, <2>11, <2>12 DEF TuiInv
<1> QED BY <1>4, <1>5 DEF CyclePulls

LEMMA PushKeeps ==
    ASSUME TuiInv, NEW c \in DOMAIN cycles, CyclePushes(c)
    PROVE  TuiInv'
<1>1. /\ db' = db /\ house' = house /\ table' = table /\ missed' = missed
      /\ mode' = mode /\ prevMode' = prevMode /\ detail' = detail
      /\ form' = form /\ confirm' = confirm /\ editor' = editor
      /\ pendingReload' = pendingReload /\ status' = status
      /\ gen' = gen /\ timers' = timers /\ ticking' = ticking /\ made' = made
      /\ typed' = typed /\ pulls' = pulls /\ faults' = faults
  BY DEF CyclePushes, view, modes
<1>2. TypeOK /\ OneCycle /\ Seen /\ PendingInForm /\ made \in Nat /\ pushed \in Nat
  BY DEF TuiInv, TypeOK
<1>3. cycles[c] \in Cycle
  BY <1>2, SeqDomain DEF TypeOK
<1>4. /\ pushed' \in Nat
      /\ \E y \in Cycle : y.pulled = cycles[c].pulled /\ cycles' = [cycles EXCEPT ![c] = y]
  <2>1. CASE /\ cycles' = [cycles EXCEPT ![c].at = "sent", ![c].takes = made]
             /\ UNCHANGED pushed
    <3>1. PICK y : y = [cycles[c] EXCEPT !.at = "sent", !.takes = made]
      OBVIOUS
    <3>2. y \in Cycle /\ y.pulled = cycles[c].pulled
      BY <1>2, <1>3, <3>1 DEF Cycle
    <3>3. cycles' = [cycles EXCEPT ![c] = y]
      BY <2>1, <3>1
    <3> QED BY <1>2, <2>1, <3>2, <3>3
  <2>2. CASE /\ cycles' = [cycles EXCEPT ![c].at = "done"]
             /\ pushed' = IF cycles[c].takes > pushed THEN cycles[c].takes ELSE pushed
    <3>1. PICK y : y = [cycles[c] EXCEPT !.at = "done"]
      OBVIOUS
    <3>2. y \in Cycle /\ y.pulled = cycles[c].pulled /\ cycles[c].takes \in Nat
      BY <1>3, <3>1 DEF Cycle
    <3>3. cycles' = [cycles EXCEPT ![c] = y]
      BY <2>2, <3>1
    <3> QED BY <1>2, <2>2, <3>2, <3>3
  <2> QED BY <2>1, <2>2 DEF CyclePushes
<1>5. PICK y \in Cycle : y.pulled = cycles[c].pulled /\ cycles' = [cycles EXCEPT ![c] = y]
  BY <1>4
<1>6. /\ cycles' \in Seq(Cycle) /\ Len(cycles') = Len(cycles) /\ DOMAIN cycles' = DOMAIN cycles
      /\ cycles'[c] = y /\ DOMAIN cycles = {c} /\ status = "syncing"
  BY <1>2, <1>5, CycleMoves
<1>7. OneCycle' /\ (Quiet' => Quiet)
  BY <1>1, <1>2, <1>5, <1>6 DEF OneCycle, Quiet
<1>8. TypeOK'
  BY <1>1, <1>2, <1>4, <1>6 DEF TypeOK
<1>9. Seen' /\ PendingInForm'
  BY <1>1, <1>2, <1>7 DEF Seen, PendingInForm
<1>10. Alone' /\ SnapKept' /\ Read'
  BY <1>1, SameForm
<1> QED BY <1>7, <1>8, <1>9, <1>10 DEF TuiInv

\* A cycle ends: what it pulled is shown, or waits for the form, or is missed.
LEMMA EndKeeps ==
    ASSUME TuiInv, NEW c \in DOMAIN cycles, SyncDone(c) \/ SyncError(c)
    PROVE  TuiInv'
<1>1. /\ db' = db /\ house' = house
      /\ mode' = mode /\ prevMode' = prevMode /\ detail' = detail
      /\ form' = form /\ confirm' = confirm /\ editor' = editor
      /\ gen' = gen /\ timers' = timers /\ ticking' = ticking /\ made' = made
      /\ pushed' = pushed /\ typed' = typed /\ pulls' = pulls
      /\ cycles' = RemoveAt(cycles, c) /\ status' \in {"synced", "offline"}
  BY DEF SyncDone, SyncError, modes, log
<1>2. /\ TypeOK /\ OneCycle /\ Seen /\ PendingInForm /\ db["row"] \in Rec
      /\ table \in Rec /\ missed \in BOOLEAN
  BY DEF TuiInv, TypeOK
<1>3. c = 1 /\ DOMAIN cycles = {1} /\ cycles' = <<>>
  BY <1>1, <1>2, OnlyCycle
<1>4. OneCycle' /\ cycles' \in Seq(Cycle)
  <2>1. <<>> \in Seq(Cycle) /\ Len(<<>>) = 0
    OBVIOUS
  <2> QED BY <1>3, <2>1 DEF OneCycle
<1>5. Quiet = (~cycles[c].pulled)
  BY <1>3 DEF Quiet
<1>6. cycles[c].pulled \in BOOLEAN
  <2>1. cycles[c] \in Cycle
    BY <1>2, SeqDomain DEF TypeOK
  <2> QED BY <2>1 DEF Cycle
<1>7. Alone' /\ SnapKept' /\ Read'
  BY <1>1, SameForm
<1>8. /\ table' \in Rec /\ missed' \in BOOLEAN /\ pendingReload' \in BOOLEAN /\ faults' \in Nat
      /\ Seen' /\ PendingInForm'
  <2>1. CASE SyncDone(c) /\ ~cycles[c].pulled
    <3>1. table' = table /\ missed' = missed /\ pendingReload' = pendingReload /\ faults' = faults
      BY <2>1 DEF SyncDone, view
    <3> QED BY <1>1, <1>2, <1>5, <2>1, <3>1 DEF Seen, PendingInForm, TypeOK
  <2>2. CASE SyncDone(c) /\ cycles[c].pulled
    <3>1. /\ faults' = faults
          /\ \/ mode = "form" /\ pendingReload' = TRUE /\ table' = table /\ missed' = missed
             \/ /\ mode # "form" /\ table' = db["row"] /\ missed' = FALSE
                /\ pendingReload' = pendingReload
      BY <2>2 DEF SyncDone, ShowsPulled, Reloads, view
    <3>2. pendingReload \in BOOLEAN /\ faults \in Nat
      BY <1>2 DEF TypeOK
    <3>3. table' \in Rec /\ missed' \in BOOLEAN /\ pendingReload' \in BOOLEAN /\ faults' \in Nat
      BY <1>2, <3>1, <3>2
    <3>4. Seen' /\ PendingInForm'
      BY <1>1, <1>2, <3>1 DEF Seen, PendingInForm
    <3> QED BY <3>3, <3>4
  <2>3. CASE SyncError(c)
    <3>1. /\ table' = table /\ pendingReload' = pendingReload /\ faults' = faults + 1
          /\ missed' = (missed \/ cycles[c].pulled)
      BY <2>3 DEF SyncError
    <3>2. missed' \in BOOLEAN /\ (~missed' => ~missed /\ ~cycles[c].pulled)
      BY <1>2, <1>6, <3>1
    <3>3. Seen'
      BY <1>1, <1>2, <1>5, <3>1, <3>2 DEF Seen
    <3> QED BY <1>1, <1>2, <3>1, <3>2, <3>3 DEF PendingInForm, TypeOK
  <2> QED BY <2>1, <2>2, <2>3
<1>9. TypeOK'
  BY <1>1, <1>2, <1>4, <1>8 DEF TypeOK
<1> QED BY <1>4, <1>7, <1>8, <1>9 DEF TuiInv

-----------------------------------------------------------------------------
LEMMA InvInit ==
    ASSUME Init
    PROVE  TuiInv
<1>1. /\ First \in Rec /\ Blank \in Rec /\ First.theirs = 1
  BY DEF First, Blank, Rec
<1>2. PICK h \in {Blank, First} :
          /\ db = [rec \in {"house", "row"} |-> IF rec = "house" THEN h ELSE First]
          /\ house = h
          /\ form = IF h = Blank THEN Form("house", Blank) ELSE NoForm
          /\ mode = IF h = Blank THEN "form" ELSE "normal"
  BY DEF Init
<1>3. /\ table = First /\ missed = FALSE
      /\ prevMode = "normal" /\ detail = FALSE
      /\ confirm = "none" /\ editor = NoForm /\ pendingReload = FALSE
      /\ status = "syncing" /\ gen = 0 /\ timers = {} /\ ticking = TRUE
      /\ made = 0 /\ pushed = 0 /\ typed = 0 /\ pulls = 0 /\ faults = 0
      /\ cycles = <<[at |-> "pull", pulled |-> FALSE, takes |-> 0]>>
  BY DEF Init
<1>4. h \in Rec /\ db \in [{"house", "row"} -> Rec] /\ db["row"] = First
  BY <1>1, <1>2
<1>5. cycles \in Seq(Cycle) /\ Len(cycles) = 1
  <2>1. PICK y : y = [at |-> "pull", pulled |-> FALSE, takes |-> 0]
    OBVIOUS
  <2>2. y \in Cycle
    BY <2>1 DEF Cycle
  <2>3. <<y>> \in Seq(Cycle) /\ Len(<<y>>) = 1
    BY <2>2
  <2> QED BY <1>3, <2>1, <2>3
<1>6. /\ NoForm.of = "none" /\ NoForm.snap = 0 /\ NoForm.kept = 0 /\ NoForm.theirs = 0
      /\ ~NoForm.raced
  BY DEF NoForm
<1>7. /\ form \in Forms /\ form.snap = form.kept
      /\ form = NoForm \/ form.of = "house"
  BY <1>1, <1>2, <1>6, FormTypes
<1>8. TypeOK
  <2>1. 0 \in Nat
    OBVIOUS
  <2> QED BY <1>1, <1>2, <1>3, <1>4, <1>5, <1>7, <2>1, FormTypes DEF TypeOK
<1>9. OneCycle /\ Seen /\ PendingInForm /\ SnapKept
  BY <1>3, <1>4, <1>5, <1>7 DEF OneCycle, Seen, PendingInForm, SnapKept
<1>10. Alone
  BY <1>2, <1>3, <1>6, FormTypes DEF Alone
<1>11. Read
  <2>1. 0 <= 0 + 1 /\ 1 <= 0 + 1
    OBVIOUS
  <2> QED BY <1>1, <1>3, <1>4, <1>6, <1>7, <2>1 DEF Read, ReadFits, Target
<1> QED BY <1>8, <1>9, <1>10, <1>11 DEF TuiInv

LEMMA InvNext ==
    ASSUME TuiInv, [Next]_vars
    PROVE  TuiInv'
<1>1. CASE Keys
  <2>1. CASE Type
    BY <2>1, TypeKeeps
  <2>2. CASE Complete
    BY <2>2, CompleteKeeps
  <2>3. CASE SaveInPlace
    BY <2>3, SaveKeeps
  <2>4. CASE SubmitInline \/ CancelInline
    BY <2>4, InlineKeeps
  <2>5. CASE Escape
    BY <2>5, EscapeKeeps
  <2>6. CASE Confirm \/ Quit
    BY <2>6, AnswerKeeps
  <2>7. CASE LaunchEditor
    BY <2>7, LaunchKeeps
  <2>8. CASE EditorFinished
    BY <2>8, FinishedKeeps
  <2>9. CASE ToggleEdit \/ ToggleDelete \/ Navigate
    BY <2>9, KeysKeep
  <2> QED BY <1>1, <2>1, <2>2, <2>3, <2>4, <2>5, <2>6, <2>7, <2>8, <2>9, OpenKeeps DEF Keys
<1>2. CASE Tick \/ (\E g \in timers : Debounced(g))
  BY <1>2, TimersKeep
<1>3. CASE CycleStep
  BY <1>3, PullKeeps, PushKeeps, EndKeeps DEF CycleStep
<1>4. CASE UNCHANGED vars
  <2>1. /\ db' = db /\ house' = house /\ table' = table /\ missed' = missed
        /\ mode' = mode /\ prevMode' = prevMode /\ detail' = detail
        /\ form' = form /\ confirm' = confirm /\ editor' = editor
        /\ pendingReload' = pendingReload /\ status' = status /\ cycles' = cycles
        /\ gen' = gen /\ timers' = timers /\ ticking' = ticking /\ made' = made
        /\ pushed' = pushed /\ typed' = typed /\ pulls' = pulls /\ faults' = faults
    BY <1>4 DEF vars, view, modes, sync, log
  <2>2. TypeOK' /\ Seen' /\ PendingInForm'
    BY <2>1 DEF TuiInv, TypeOK, Seen, PendingInForm, Quiet
  <2>3. Alone' /\ SnapKept' /\ Read'
    BY <2>1, SameForm
  <2> QED BY <2>1, <2>2, <2>3, SameCycles
<1> QED BY <1>1, <1>2, <1>3, <1>4 DEF Next

THEOREM TuiHolds == Spec => []TuiInv
BY InvInit, InvNext, PTL DEF Spec

\* The state of the event loop, of the engine beside it and of the store stay
\* well-formed, whatever keys, messages and faults come.
THEOREM TuiTypeCorrect == Spec => []TypeOK
<1>1. TuiInv => TypeOK
  BY DEF TuiInv
<1> QED BY <1>1, TuiHolds, PTL

\* syncStatus alone keeps ticks, debounces and the first cycle of the program
\* apart, and what a cycle has pulled gets into the table or waits for the form.
THEOREM PulledIsShown == Spec => []CyclesShown
<1>1. TuiInv => CyclesShown
  BY DEF TuiInv, CyclesShown, OneCycle, FreshView, Seen, PendingInForm, Quiet
<1> QED BY <1>1, TuiHolds, PTL

-----------------------------------------------------------------------------
(* What a step may not do. *)

\* The steps that leave a form's text where it is.
LEMMA TypedStep ==
    ASSUME TuiInv, [Next]_vars, Unsaved(form), ~form.edited, ~Mandatory
    PROVE  \/ form.mine \in {form'.mine, editor'.mine, db'[Target(form.of)].mine}
           \/ confirm # "none"
           \/ form'.of = form.of /\ typed' > typed
<1>1. /\ InForm /\ Dirty /\ form.of # "none" /\ form.of \notin {"inline", "field"}
      /\ editor.of = "none" /\ ~Idle /\ form \in Forms /\ typed \in Nat
  BY DEF TuiInv, TypeOK, Unsaved, SnapKept, Dirty, InForm, Alone, Idle
<1>2. CASE Keys
  <2>1. CASE Type
    <3>1. typed' = typed + 1 /\ form'.of = form.of
      BY <1>1, <2>1 DEF Type, Forms
    <3> QED BY <1>1, <3>1
  <2>2. CASE Complete
    <3>1. CASE Submits
      BY <1>1, <3>1, SubmitsFits
    <3>2. CASE form' = [form EXCEPT !.done = TRUE]
      BY <1>1, <3>2 DEF Forms
    <3> QED BY <2>2, <3>1, <3>2 DEF Complete
  <2>3. CASE SaveInPlace
    BY <1>1, <2>3, SubmitsFits DEF SaveInPlace
  <2>4. CASE Escape \/ Quit
    <3>1. form' = form
      BY <1>1, <2>4 DEF Escape, AsksFirst, Quit
    <3> QED BY <3>1
  <2>5. CASE Confirm
    BY <2>5 DEF Confirm
  <2>6. CASE LaunchEditor
    BY <2>6 DEF LaunchEditor
  <2> QED BY <1>1, <1>2, <2>1, <2>2, <2>3, <2>4, <2>5, <2>6
          DEF Keys, OpenForm, OpenInline, SubmitInline, CancelInline, EditorFinished,
              ToggleEdit, ToggleDelete, Navigate
<1>3. CASE Tick \/ (\E g \in timers : Debounced(g)) \/ UNCHANGED vars
  BY <1>3 DEF Tick, Debounced, vars
<1>4. CASE CycleStep
  <2>1. PICK c \in DOMAIN cycles : CyclePulls(c) \/ CyclePushes(c) \/ SyncDone(c) \/ SyncError(c)
    BY <1>4 DEF CycleStep
  <2> QED BY <2>1, PullKeeps DEF CyclePushes, SyncDone, SyncError
<1> QED BY <1>2, <1>3, <1>4 DEF Next

\* ESC, ctrl+s, an editor, a save that is refused, a sync that ends meanwhile:
\* none of them loses what was typed, but for an answer to a question.
THEOREM NothingTypedLost == Spec => TypedKept
<1>1. TuiInv /\ [Next]_vars =>
      [Unsaved(form) /\ ~form.edited /\ ~Mandatory
       => \/ form.mine \in {form'.mine, editor'.mine, db'[Target(form.of)].mine}
          \/ confirm # "none"
          \/ form'.of = form.of /\ typed' > typed]_vars
  BY TypedStep
<1> QED BY <1>1, TuiHolds, PTL DEF Spec, TypedKept

LEMMA PulledStep ==
    ASSUME TuiInv, [Next]_vars, db'["row"].theirs < db["row"].theirs
    PROVE  form.of # "none" /\ form.raced
<1>1. db["row"].theirs \in Nat /\ form \in Forms /\ db \in [{"house", "row"} -> Rec]
  BY DEF TuiInv, TypeOK, Rec
<1>2. db'["row"].theirs # db["row"].theirs
  BY <1>1
<1>3. CASE Complete \/ SaveInPlace \/ SubmitInline
  <2>1. form.of # "none" /\ Submits
    BY <1>2, <1>3 DEF Complete, SaveInPlace, SubmitInline, InForm
  <2> QED BY <2>1, SubmitsFits
<1>4. CASE ToggleDelete
  <2>1. db' = [db EXCEPT !["row"].mine = typed' + 1]
    BY <1>4 DEF ToggleDelete
  <2>2. db["row"] \in Rec
    BY <1>1
  <2>3. PICK r : r = [db["row"] EXCEPT !.mine = typed' + 1]
    OBVIOUS
  <2>4. r.theirs = db["row"].theirs
    BY <2>2, <2>3 DEF Rec
  <2>5. db'["row"] = r
    BY <1>1, <2>1, <2>3
  <2> QED BY <1>2, <2>4, <2>5
<1>5. CASE CycleStep
  <2>1. PICK c \in DOMAIN cycles : CyclePulls(c) \/ CyclePushes(c) \/ SyncDone(c) \/ SyncError(c)
    BY <1>5 DEF CycleStep
  <2>2. CyclePulls(c)
    BY <1>2, <2>1 DEF CyclePushes, SyncDone, SyncError
  <2>3. db'["row"].theirs >= db["row"].theirs
    BY <2>2, PullKeeps
  <2>4. TuiInv'
    BY <2>2, PullKeeps
  <2>5. db'["row"].theirs \in Nat
    BY <2>4 DEF TuiInv, TypeOK, Rec
  <2> QED BY <1>1, <2>3, <2>5
<1>6. CASE /\ ~Complete /\ ~SaveInPlace /\ ~SubmitInline /\ ~ToggleDelete /\ ~CycleStep
  <2>1. db' = db
    BY <1>6 DEF Next, Keys, OpenForm, OpenInline, Type, CancelInline, Escape, Confirm, Quit,
                LaunchEditor, EditorFinished, ToggleEdit, Navigate, Tick, Debounced, vars
  <2> QED BY <1>2, <2>1
<1> QED BY <1>3, <1>4, <1>5, <1>6

\* A save writes the other device's fields as the form read them; they are older
\* than those stored only where a pull came while the form was open.
THEOREM NothingPulledUndone == Spec => PulledKept
<1>1. TuiInv /\ [Next]_vars =>
      [db'["row"].theirs < db["row"].theirs => form.of # "none" /\ form.raced]_vars
  BY PulledStep
<1> QED BY <1>1, TuiHolds, PTL DEF Spec, PulledKept

=============================================================================
