------------------------------ MODULE Viewport ------------------------------
(***************************************************************************)
(* Which columns of a tab are drawn, and how wide (internal/app table.go,  *)
(* model.go): the terminal shows a window of the visible columns that has  *)
(* to hold the cursor's. What is drawn is cached, for the clicks on it,    *)
(* until something invalidates it. The rows matter only by the widths they *)
(* give the columns; pins, sorting and the rows themselves are in Tables.  *)
(***************************************************************************)
EXTENDS Integers, SequencesExt, Listing

CONSTANTS
    Specs,         \* a sequence of columns: their min, max (0: none) and flex
    WidthOf,       \* WidthOf[rows]: natural widths, by what is loaded and kept
    LastColumn,    \* maintenanceColLast
    TermWidths,    \* widths the terminal may have
    Sep, Arrow     \* of the separator, and what a scroll arrow reserves

ASSUME ViewportAssumption ==
    /\ Specs \in Seq([min : Nat \ {0}, max : Nat, flex : BOOLEAN])
    /\ WidthOf \in [{"all", "few"} -> [DOMAIN Specs -> Nat]]
    /\ Sep \in Nat /\ Arrow \in Nat /\ LastColumn \in DOMAIN Specs /\ TermWidths \subseteq Nat
    /\ \A c \in DOMAIN Specs : \A n \in {"all", "few"} :
          /\ WidthOf[n][c] >= Specs[c].min
          /\ Specs[c].max = 0 \/ Specs[c].min <= Specs[c].max

VARIABLES
    put, at,       \* columns put away (HideOrder > 0), ColCursor
    rows,          \* "all" or "few" are loaded, or "few" of all are "kept"
    sorted,        \* Sorts
    termWidth,
    offset,        \* ViewOffset, counted from 1
    cachedVP       \* what is drawn

viewportVars == <<put, at, rows, sorted, termWidth, offset, cachedVP>>

-----------------------------------------------------------------------------
(* Column widths.                                                          *)

SumOf(w) ==
    LET first[n \in 0..Len(w)] == IF n = 0 THEN 0 ELSE first[n - 1] + w[n] IN first[Len(w)]

Capped(cols, i, w) == IF Specs[cols[i]].max > 0 /\ w > Specs[cols[i]].max THEN Specs[cols[i]].max ELSE w

\* flexColumns, or allColumns when there are none
FlexOrAll(cols) ==
    LET flex == {i \in DOMAIN cols : Specs[cols[i]].flex} IN IF flex = {} THEN DOMAIN cols ELSE flex

\* The first place of S after i, or around from the left
After(S, i) == LET later == {j \in S : j > i} IN Min(IF later = {} THEN S ELSE later)

\* One column after the other, from the left and around, comes one nearer to
\* its target, for an amount in all.
Turn(s, target) ==
    LET apart == {i \in DOMAIN s.w : s.w[i] # target[i]}
        i     == After(apart, s.i)
    IN  IF apart = {} THEN s
        ELSE [w |-> [s.w EXCEPT ![i] = IF @ < target[i] THEN @ + 1 ELSE @ - 1], i |-> i]

Spread(w, target, amount) ==
    LET step[k \in 0..amount] == IF k = 0 THEN [w |-> w, i |-> 0] ELSE Turn(step[k - 1], target)
    IN  step[amount].w

\* distribute: as wide as they may be, or as narrow
Widest(cols, i, x, amount) ==
    IF i \notin FlexOrAll(cols) THEN x
    ELSE IF Specs[cols[i]].max = 0 THEN x + amount
    ELSE IF x > Specs[cols[i]].max THEN x ELSE Specs[cols[i]].max

Narrowest(cols, i, x) == IF i \in FlexOrAll(cols) THEN Specs[cols[i]].min ELSE x

Grow(w, cols, amount)   == Spread(w, [i \in DOMAIN w |-> Widest(cols, i, w[i], amount)], amount)
Shrink(w, cols, amount) == Spread(w, [i \in DOMAIN w |-> Narrowest(cols, i, w[i])], amount)

\* widenTruncated: what is cut off comes before what may grow
Widen(w, natural, cols, extra) ==
    LET wide == Spread(w, natural, extra)
    IN  Grow(wide, cols, extra - (SumOf(wide) - SumOf(w)))

Available(cols, width) ==
    LET room == width - Sep * (Len(cols) - 1) IN IF room > Len(cols) THEN room ELSE Len(cols)

ColumnWidths(cols, natural, width) ==
    LET available == Available(cols, width)
        capped    == [i \in DOMAIN cols |-> Capped(cols, i, natural[i])]
    IN  IF SumOf(natural) <= available THEN Grow(natural, cols, available - SumOf(natural))
        ELSE IF SumOf(capped) <= available THEN Widen(capped, natural, cols, available - SumOf(capped))
        ELSE Shrink(capped, cols, SumOf(capped) - available)

-----------------------------------------------------------------------------
(* The window of columns.                                                  *)

VisibleColumns(h) == Only([c \in DOMAIN Specs |-> c], DOMAIN Specs \ h)

\* Where the cursor is among the visible columns, 0 on a hidden one
Place(cols, c) == LET i == {j \in DOMAIN cols : cols[j] = c} IN IF i = {} THEN 0 ELSE CHOOSE j \in i : TRUE

Needs(w, i, j) == SumOf(SubSeq(w, i, j)) + Sep * (j - i)

\* The last column that fits when i is the first: one at least, and one less
\* when the right arrow would not fit.
End(w, i, width) ==
    LET budget == IF i > 1 THEN width - Arrow ELSE width
        fits   == {j \in i..Len(w) : j = i \/ Needs(w, i, j) <= budget}
        last   == CHOOSE j \in fits : \A k \in fits : k <= j
    IN  IF last < Len(w) /\ budget - Needs(w, i, last) < Arrow /\ last > i THEN last - 1 ELSE last

\* viewportRange: everything if it fits, else from the offset or, when the
\* cursor is beyond, from the first column that lets it in.
ViewportRange(w, width, first, cursor) ==
    IF Needs(w, 1, Len(w)) <= width THEN [start |-> 1, end |-> Len(w)]
    ELSE LET holds == {i \in first..Len(w) : cursor <= End(w, i, width) \/ End(w, i, width) = Len(w)}
             start == CHOOSE i \in holds : \A j \in holds : i <= j
         IN  [start |-> start, end |-> End(w, start, width)]

EnsureCursorVisible(first, cursor, count) ==
    LET f == IF first > cursor THEN cursor ELSE first IN IF f > count THEN count ELSE f

Pick(natural, cols) == [i \in DOMAIN cols |-> natural[cols[i]]]

LoadedWidths(r) == IF r = "kept" THEN WidthOf["all"] ELSE WidthOf[r]
KeptWidths(r) == IF r = "kept" THEN WidthOf["few"] ELSE WidthOf[r]

Window(drawn, natural, c, s, width) ==
    [cols |-> drawn, cursor |-> Place(drawn, c), sorted |-> s,
     widths |-> ColumnWidths(drawn, natural, width)]

\* computeTableViewport: with pins, by what is loaded
Computed(h, c, r, s, width, first) ==
    LET range(cols, natural) ==
            ViewportRange(ColumnWidths(cols, natural, width), width, first, Place(cols, c))
        within(cols, natural, g) ==
            Window(SubSeq(cols, g.start, g.end), SubSeq(natural, g.start, g.end), c, s, width)
        all(cols, natural) == within(cols, natural, range(cols, natural))
    IN  all(VisibleColumns(h), Pick(LoadedWidths(r), VisibleColumns(h)))

\* updateTabViewport: by what is kept
Offset(h, c, r, width, first) ==
    LET cols == VisibleColumns(h)
        i    == Place(cols, c)
    IN  IF i = 0 THEN 1
        ELSE ViewportRange(ColumnWidths(cols, Pick(KeptWidths(r), cols), width), width,
                           EnsureCursorVisible(first, i, Len(cols)), i).start

-----------------------------------------------------------------------------
(* Keys and events; the screen is drawn after each.                        *)

\* What is cached is drawn again (MUTANT of Draw: not invalidated).
Reuse == cachedVP' = cachedVP

\* The cache is set to nil, so tabViewport computes it.
Draw == cachedVP' = Computed(put', at', rows', sorted', termWidth', offset')

UpdateViewport == offset' = Offset(put', at', rows', termWidth', offset) /\ Draw

Step(c, h, right) ==
    LET d == {x \in DOMAIN Specs \ h : IF right THEN x > c ELSE x < c}
    IN  IF d = {} THEN c ELSE CHOOSE x \in d : \A y \in d : IF right THEN x <= y ELSE x >= y

\* By key to a neighbour or an end, or by a click on a column that is drawn
MoveColumnCursor ==
    /\ at' \in {Step(at, put, TRUE), Step(at, put, FALSE), Step(0, put, TRUE),
                Step(Len(Specs) + 1, put, FALSE)} \cup Range(cachedVP.cols)
    /\ UNCHANGED <<put, rows, sorted, termWidth>> /\ UpdateViewport

HideCurrentColumn ==
    /\ at \notin put /\ Len(VisibleColumns(put)) > 1
    /\ put' = put \cup {at}
    /\ at' = IF Step(at, put, TRUE) # at THEN Step(at, put, TRUE) ELSE Step(at, put, FALSE)
    /\ UNCHANGED <<rows, sorted, termWidth>> /\ UpdateViewport

ShowColumns ==
    /\ put # {} /\ put' = {}
    /\ UNCHANGED <<at, rows, sorted, termWidth>> /\ UpdateViewport

ColumnFinderJump ==
    /\ \E c \in DOMAIN Specs : at' = c /\ put' = put \ {c}
    /\ UNCHANGED <<rows, sorted, termWidth>> /\ UpdateViewport

\* Back from a service log that was changed, to the date it has set
CloseServiceLog ==
    /\ at' = LastColumn /\ rows' \in {"all", "few"}
    /\ UNCHANGED <<put, sorted, termWidth>> /\ UpdateViewport

\* refreshTable: rows are loaded, or a filter goes on or off
RefreshTable ==
    /\ rows' \in {"all", "few", "kept"}
    /\ UNCHANGED <<put, at, sorted, termWidth>> /\ UpdateViewport

\* The sort keys only invalidate.
SortColumns ==
    /\ sorted' = ~sorted
    /\ UNCHANGED <<put, at, rows, termWidth, offset>> /\ Draw

WindowSize ==
    /\ termWidth' \in TermWidths
    /\ UNCHANGED <<put, at, rows, sorted>> /\ UpdateViewport

\* Every other update, a status line or a tick: drawn from the cache
OtherUpdate ==
    /\ UNCHANGED <<put, at, rows, sorted, termWidth, offset>> /\ Reuse

ViewportInit ==
    /\ put = {} /\ at = 1 /\ rows = "all" /\ sorted = FALSE
    /\ termWidth \in TermWidths /\ offset = 1
    /\ cachedVP = Computed({}, 1, "all", FALSE, termWidth, 1)

ViewportNext ==
    \/ MoveColumnCursor \/ HideCurrentColumn \/ ShowColumns \/ ColumnFinderJump
    \/ CloseServiceLog \/ RefreshTable \/ SortColumns \/ WindowSize \/ OtherUpdate

-----------------------------------------------------------------------------
\* However columns are hidden, rows filtered and the terminal resized, the
\* cursor's column is drawn; after a service log is closed it may be one that is
\* hidden, and then none is (table.go ensureCursorVisible, viewportRange;
\* model_tabs.go:380).
CursorColumnDrawn ==
    at \notin put => cachedVP.cursor # 0 /\ cachedVP.cols[cachedVP.cursor] = at

\* A row of the table fits the terminal unless a single column does not (table.go
\* columnWidths, viewportRange).
RowFits ==
    Len(cachedVP.cols) > 1 => Needs(cachedVP.widths, 1, Len(cachedVP.cols)) <= termWidth

\* What clicks are resolved by is what is there: "Nil when stale" (types.go).
CacheFresh ==
    cachedVP = Computed(put, at, rows, sorted, termWidth, offset)

\* The three together: what is drawn is current, fits and has the cursor.
DrawnRight == CursorColumnDrawn /\ RowFits /\ CacheFresh
=============================================================================
