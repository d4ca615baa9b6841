------------------------------- MODULE Agenda -------------------------------
(***************************************************************************)
(* What is due and when (internal/data dashboard.go, validation.go and     *)
(* duration.go), the date picker that changes it (internal/app             *)
(* calendar.go, model_keys.go), the dashboard that lists and draws it      *)
(* (dashboard.go), and `micasa status`, which lists it for scripts         *)
(* (cmd/micasa/status.go).                                                 *)
(*                                                                         *)
(* A date is a day of a calendar of a few short months.                    *)
(***************************************************************************)
EXTENDS Integers, SequencesExt, Listing

CONSTANTS
    MonthDays,      \* the lengths of the months
    SeasonOf,       \* SeasonForMonth: the season of each month
    Week, Year,     \* the days and the months the picker's keys jump
    Chores, Season, \* maintenance items in the order of the lists, and their season tags
    Planned,        \* their plans at first
    OpenIncidents, ActiveProjects,
    Warranty, Renewal,              \* when each appliance's warranty and the insurance end
    Ahead, LookBack, Horizon, Cap,  \* the dashboard's windows (30, 30 and 90 days) and its cap (10 rows)
    Heights,        \* lines the terminal leaves to the dashboard
    Period,         \* BOUND: the days lived through
    Pickable,       \* BOUND: the dates the picker goes to, with their months and years in the calendar
    MaxPlans,       \* BOUND: changes of maintenance items
    MaxToggles      \* BOUND: times the dashboard or a section is opened or closed

VARIABLES
    today,
    plan,           \* [Chores -> last_serviced_at, interval_months, due_date, and the date of the latest log]
    picker,         \* m.calendar, and the form values it writes into
    board,          \* m.showDashboard and m.dash: data, expanded, cursor
    frame,          \* m.dash.scrollOffset and the lines drawn last
    plans, toggles

agendaVars == <<today, plan, picker, board, frame, plans, toggles>>

NoDate    == 0
Intervals == 0..2   \* BOUND: of chores, in months; 0 is none

-----------------------------------------------------------------------------
(* Dates.                                                                  *)

FirstOf(m) ==
    LET first[k \in 1..m] == IF k = 1 THEN 1 ELSE first[k - 1] + MonthDays[k - 1] IN first[m]

DaysOf(m)  == FirstOf(m)..(FirstOf(m) + MonthDays[m] - 1)
MonthOf(d) == CHOOSE m \in DOMAIN MonthDays : d \in DaysOf(m)

\* MUTANT: a day the month lacks overflows into the next one, as with time.AddDate.
Overflowing(d, n) == LET m == MonthOf(d) IN FirstOf(m + n) + (d - FirstOf(m))

AddMonths(d, n) ==
    LET m == MonthOf(d) IN FirstOf(m + n) + Min({d - FirstOf(m), MonthDays[m + n] - 1})

\* DateDiffDays
DaysUntil(d) == d - today

\* ComputeNextDue: a due date wins over the interval
NextDue(p) ==
    IF p.due # NoDate THEN p.due
    ELSE IF p.last = NoDate \/ p.every = 0 THEN NoDate
    ELSE AddMonths(p.last, p.every)

\* The days it may be, be last serviced or be due. The calendar outlasts them,
\* and the overlay leaves the dashboard three lines at least (view.go
\* buildDashboardOverlay).
PlanDays ==
    Period \cup {d - 1 : d \in Period} \cup Pickable
    \cup ((UNION {{Planned[i].last, Planned[i].due, Planned[i].log} : i \in Chores}) \ {NoDate})

ASSUME AgendaAssumption ==
    /\ MonthDays \in Seq(Nat \ {0})
    /\ \A d \in PlanDays : \E m \in 1..(Len(MonthDays) - Max(Intervals)) : d \in DaysOf(m)
    /\ Chores \subseteq Nat /\ IsFiniteSet(Chores)
    /\ Planned \in [Chores -> [last : Nat, every : Intervals, due : Nat, log : Nat]]
    /\ IsFiniteSet(OpenIncidents) /\ IsFiniteSet(ActiveProjects) /\ IsFiniteSet(DOMAIN Warranty)
    /\ Period # {} /\ IsFiniteSet(Period) /\ Cap \in Nat
    /\ \A h \in Heights : h \in Nat /\ h >= 3

-----------------------------------------------------------------------------
(* What is due today.                                                      *)

WithSchedule == {i \in Chores : plan[i].every > 0 \/ plan[i].due # NoDate}
Due(from, to) ==
    {i \in WithSchedule : /\ NextDue(plan[i]) # NoDate
                       /\ DaysUntil(NextDue(plan[i])) \in from..to}
Overdue     == Due(-Max(Period), -1)
Upcoming(n) == Due(0, n)

\* Ties keep the order of the list, as the sort does for a dozen.
Sooner(i, j) ==
    \/ NextDue(plan[i]) < NextDue(plan[j])
    \/ NextDue(plan[i]) = NextDue(plan[j]) /\ i < j

Before(S, i) == Cardinality({j \in S : Sooner(j, i)})

BySoonest(S) == [r \in 1..Cardinality(S) |-> CHOOSE i \in S : Before(S, i) = r - 1]

CapSlice(S) == SubSeq(BySoonest(S), 1, Min({Cap, Cardinality(S)}))

InSeason == {i \in Chores : Season[i] = SeasonOf[MonthOf(today)]}

\* Warranties are compared as instants, and it is past midnight; the insurance by the day.
Expiring ==
    {a \in DOMAIN Warranty : DaysUntil(Warranty[a]) \in (1 - LookBack)..Horizon}
Renewing == DaysUntil(Renewal) \in -LookBack..Horizon

\* loadDashboardAt: the sections that have rows; 0 is the renewal of the insurance
DashData ==
    LET section(title, rows) == [title |-> title, rows |-> rows]
        all == << section("incidents", SetToSeq(OpenIncidents)),
                  section("overdue",   CapSlice(Overdue)),
                  section("upcoming",  CapSlice(Upcoming(Ahead))),
                  section("seasonal",  SetToSeq(InSeason)),
                  section("projects",  SetToSeq(ActiveProjects)),
                  section("expiring",  SetToSeq(Expiring) \o IF Renewing THEN <<0>> ELSE <<>>) >>
    IN  Only(all, {s \in ToSet(all) : s.rows # <<>>})

\* runStatus, for a window of n days: what it prints and whether it exits with code 2
Status(n, delayed) ==
    [overdue |-> Overdue, upcoming |-> Upcoming(n), incidents |-> OpenIncidents, projects |-> ActiveProjects,
     attention |-> Overdue # {} \/ OpenIncidents # {} \/ ActiveProjects \cap delayed # {}]

-----------------------------------------------------------------------------
(* The dashboard drawn: a list of lines, of which the cursor stops at the  *)
(* section headers and at the rows; two lines label the columns of rows.   *)

\* renderMiniTable
TableLines(rows) == <<"label", "label">> \o [r \in DOMAIN rows |-> "stop"]

LinesOf(data, open) ==
    LET gap(k)  == IF k = 1 THEN <<>> ELSE <<"blank">>
        body(s) == IF s.title \in open THEN TableLines(s.rows) ELSE <<>>
    IN  FlattenSeq([k \in DOMAIN data |-> gap(k) \o <<"stop">> \o body(data[k])])

\* buildDashNav: the sections of the stops
StopsOf(data, open) ==
    FlattenSeq([k \in DOMAIN data |->
        <<[section |-> data[k].title, header |-> TRUE]>>
        \o IF data[k].title \notin open THEN <<>>
           ELSE [r \in DOMAIN data[k].rows |-> [section |-> data[k].title, header |-> FALSE]]])

\* the line of the n-th stop, counted from 0
LineOf(lines, n) ==
    CHOOSE l \in 0..(Len(lines) - 1) :
        /\ lines[l + 1] = "stop"
        /\ Cardinality({k \in 1..(l + 1) : lines[k] = "stop"}) = n

\* scrollDashTo
ScrollTo(offset, line, height, n) ==
    LET moved == IF line < offset THEN line
                 ELSE IF line >= offset + height THEN line - height + 1 ELSE offset
    IN  Min({moved, Max({n - height, 0})})

\* the marks "more above" and "more below" take a line each
Marks(offset, height, n) == (IF offset > 0 THEN 1 ELSE 0) + (IF offset + height < n THEN 1 ELSE 0)

\* One round of fitting: scroll, then see which marks that needs.
Fitted(f, line, height, n) ==
    LET h   == Max({height - f.marks, 1})
        off == ScrollTo(f.offset, line, h, n)
        m   == Marks(off, h, n)
    IN  IF f.settled THEN f ELSE [offset |-> off, marks |-> m, settled |-> m = f.marks]

\* MUTANT: one round.
FitOnce(offset, line, height, n) ==
    Fitted([offset |-> offset, marks |-> 0, settled |-> FALSE], line, height, n)

Fit(offset, line, height, n) ==
    LET round(f) == Fitted(f, line, height, n)
    IN  round(round(round([offset |-> offset, marks |-> 0, settled |-> FALSE])))

\* dashboardView
Draw(b, offset, height) ==
    LET lines == LinesOf(b.data, b.open)
        n     == Len(lines)
        line  == LineOf(lines, b.cursor)
        fit   == Fit(offset, line, height, n)
        shown == Max({height - fit.marks, 1})
    IN  IF n <= height
        THEN [height |-> height, offset |-> 0, line |-> line, to |-> n, drawn |-> n]
        ELSE LET to == Min({fit.offset + shown, n})
             IN  [height |-> height, offset |-> fit.offset, line |-> line, to |-> to,
                  drawn |-> to - fit.offset + Marks(fit.offset, shown, n)]

\* The program draws after every key; drawing clamps the cursor to the stops.
Show(b, offset, height) ==
    LET stops   == Len(StopsOf(b.data, b.open))
        clamped == [b EXCEPT !.cursor = Min({b.cursor, stops})]
    IN  board' = clamped /\ frame' = Draw(clamped, offset, height)

-----------------------------------------------------------------------------
(* Keys of the dashboard.                                                  *)

CanToggle == picker.item = NoDate /\ toggles < MaxToggles /\ toggles' = toggles + 1

\* toggleDashboard: opening it reloads it and scrolls to the top
Open ==
    /\ CanToggle
    /\ ~board.show
    /\ LET fresh == [board EXCEPT !.show = TRUE, !.data = DashData]
       IN  Show([fresh EXCEPT !.cursor = Max({1, @})], 0, frame.height)
    /\ UNCHANGED <<today, plan, picker, plans>>

Close ==
    /\ board.show
    /\ board' = [board EXCEPT !.show = FALSE]
    /\ UNCHANGED <<today, plan, picker, frame, plans, toggles>>

\* dashDown, dashUp, dashTop, dashBottom, dashNextSection, dashPrevSection
Stops == StopsOf(board.data, board.open)
Headers(S) == {k \in S : Stops[k].header}
Key(key) ==
    LET n == Len(Stops)
        c == board.cursor
        next == Headers((c + 1)..n)
        prev == Headers(1..(c - 1))
    IN  CASE key = "down"   -> Min({c + 1, n})
          [] key = "up"     -> Max({c - 1, 1})
          [] key = "top"    -> 1
          [] key = "bottom" -> n
          [] key = "next"   -> IF next = {} THEN c ELSE Min(next)
          [] key = "prev"   -> IF prev = {} THEN c ELSE Max(prev)

Move ==
    /\ board.show
    /\ \E key \in {"down", "up", "top", "bottom", "next", "prev"} :
           Show([board EXCEPT !.cursor = Key(key)], IF key = "top" THEN 0 ELSE frame.offset, frame.height)
    /\ UNCHANGED <<today, plan, picker, plans, toggles>>

\* dashToggleCurrent, dashToggleAll
Fold ==
    /\ board.show /\ board.data # <<>>
    /\ CanToggle
    /\ LET titles == {Stops[k].section : k \in DOMAIN Stops}
           this   == {Stops[board.cursor].section}
           flip   == IF this \subseteq board.open THEN board.open \ this ELSE board.open \cup this
           all    == IF titles \subseteq board.open THEN board.open \ titles ELSE board.open \cup titles
       IN  \E open \in {flip, all} : Show([board EXCEPT !.open = open], frame.offset, frame.height)
    /\ UNCHANGED <<today, plan, picker, plans>>

Resize ==
    /\ board.show
    /\ \E h \in Heights : Show(board, frame.offset, h)
    /\ UNCHANGED <<today, plan, picker, plans, toggles>>

-----------------------------------------------------------------------------
(* Changes of the plan. BOUND: they precede the dashboard's first opening, *)
(* which goes on showing what it loaded and loads all of it at the next.   *)

Planning == toggles = 0 /\ plans < MaxPlans
CanPlan  == Planning /\ plans' = plans + 1

\* CreateServiceLog: the item was last serviced when its latest log says
LogService(i) ==
    /\ CanPlan
    /\ \E d \in {today - 1, today} :
           LET latest == Max({plan[i].log, d})
           IN  plan' = [plan EXCEPT ![i].log = latest, ![i].last = latest]
    /\ UNCHANGED <<today, picker, board, frame, toggles>>

\* A new interval; the terminal program clears the due date with it, `micasa db` does not.
SetEvery(i) ==
    /\ CanPlan
    /\ \E n \in Intervals \ {0}, due \in {NoDate, plan[i].due} :
           plan' = [plan EXCEPT ![i].every = n, ![i].due = due]
    /\ UNCHANGED <<today, picker, board, frame, toggles>>

NoPicker == [item |-> NoDate, field |-> "none", values |-> NoDate, cursor |-> NoDate]

\* maintenanceInlineSpecs: a next date that is picked is a due date and takes
\* the interval's place; a form holds one of the two
PickerValues(i, field) ==
    IF field = "due" \/ plan[i].due # NoDate THEN [plan[i] EXCEPT !.every = 0] ELSE plan[i]

\* openDatePicker, openCalendar
OpenPicker(i) ==
    /\ picker = NoPicker /\ Planning
    /\ \E field \in {"last", "due"} :
           picker' = [item |-> i, field |-> field, values |-> PickerValues(i, field),
                      cursor |-> IF plan[i][field] = NoDate THEN today ELSE plan[i][field]]
    /\ UNCHANGED <<today, plan, board, frame, plans, toggles>>

\* handleCalendarKey: days, weeks, months, years, today
Cursors ==
    LET c == picker.cursor
        days   == {c + n : n \in {-Week, -1, 1, Week}}
        months == {AddMonths(c, n) : n \in {-Year, -1, 1, Year}}
    IN  (days \cup months \cup {today}) \cap Pickable

PickerKey ==
    /\ picker # NoPicker
    /\ \E c \in Cursors \ {picker.cursor} : picker' = [picker EXCEPT !.cursor = c]
    /\ UNCHANGED <<today, plan, board, frame, plans, toggles>>

\* confirmCalendar: the date goes into the form's values, and all of these are saved
Confirm ==
    /\ picker # NoPicker
    /\ CanPlan
    /\ LET saved == [picker.values EXCEPT ![picker.field] = picker.cursor]
       IN  plan' = [plan EXCEPT ![picker.item] = [saved EXCEPT !.log = plan[picker.item].log]]
    /\ picker' = NoPicker
    /\ UNCHANGED <<today, board, frame, toggles>>

Cancel ==
    /\ picker # NoPicker
    /\ picker' = NoPicker
    /\ UNCHANGED <<today, plan, board, frame, plans, toggles>>

Tomorrow ==
    /\ today + 1 \in Period /\ toggles = 0
    /\ today' = today + 1
    /\ UNCHANGED <<plan, picker, board, frame, plans, toggles>>

-----------------------------------------------------------------------------
AgendaInit ==
    /\ today = Min(Period)
    /\ plan = Planned
    /\ picker = NoPicker
    /\ board = [show |-> FALSE, data |-> <<>>, open |-> {"incidents"}, cursor |-> 0]
    /\ \E h \in Heights : frame = [height |-> h, offset |-> 0, line |-> 0, to |-> 0, drawn |-> 0]
    /\ plans = 0 /\ toggles = 0

AgendaNext ==
    \/ Open \/ Close \/ Move \/ Fold \/ Resize
    \/ \E i \in Chores : LogService(i) \/ SetEvery(i) \/ OpenPicker(i)
    \/ PickerKey \/ Confirm \/ Cancel
    \/ Tomorrow

-----------------------------------------------------------------------------
(* Properties.                                                             *)

\* A chore serviced later, at the same interval, is not due earlier: the
\* end of a short month must not throw the next date past later ones.
LaterServiceLaterDue ==
    [][plan' # plan => \A i \in Chores :
           LET p == plan[i] q == plan'[i]
           IN  /\ p.last # NoDate /\ q.last >= p.last
               /\ p.every = q.every /\ p.every > 0 /\ p.due = NoDate /\ q.due = NoDate
               => NextDue(q) >= NextDue(p)]_agendaVars

\* The dashboard leaves out an overdue chore `micasa status` reports only
\* for a full list of chores at least as late.
MostUrgentShown ==
    [][~board.show /\ board'.show =>
           LET shown == UNION {ToSet(s.rows) : s \in {t \in ToSet(board'.data) : t.title = "overdue"}}
           IN  \A i \in Status(Ahead, {}).overdue \ shown :
                   /\ Cardinality(shown) = Cap
                   /\ \A j \in shown : NextDue(plan[j]) <= NextDue(plan[i])]_agendaVars

\* Both: the dates a chore gets and the dashboard's choice among them.
Reminders == LaterServiceLaterDue /\ MostUrgentShown

\* Whatever is opened, closed or resized, the line of the cursor is drawn and
\* the dashboard has the lines the terminal leaves it.
CursorLineDrawn ==
    board.show /\ board.data # <<>> =>
        /\ frame.line \in frame.offset..(frame.to - 1)
        /\ frame.drawn <= frame.height
=============================================================================
