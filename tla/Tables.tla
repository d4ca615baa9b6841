------------------------------- MODULE Tables -------------------------------
(***************************************************************************)
(* One tab of the terminal program (internal/app filter.go, sort.go,       *)
(* model.go): the rows loaded from the store, and the pins, the filter,    *)
(* the sort stack, the hidden columns and the magnitude mode that decide   *)
(* which of them the table shows, in which order and where the cursors are.*)
(*                                                                         *)
(* A row is a model value whose cells are numbers; formatting a number as  *)
(* its order of magnitude is the operator Magnitude. Columns count from 1  *)
(* (the row's ID) and cursor 0 is the widget's -1: no row.                 *)
(***************************************************************************)
EXTENDS Integers, SequencesExt, Listing

CONSTANTS
    Stored,        \* the rows the store may return, in its order
    Cells,         \* [Range(Stored) -> [Cols -> values]]
    Null,          \* a NULL cell, and the key it is pinned by
    NumCols, Numeric,     \* columns, and those magFormat changes
    Magnitude(_),
    Status, ActiveStatuses,   \* of the tab of projects
    MaxPinned, MaxSorts       \* BOUND: values pinned, columns sorted by

Cols == 1..NumCols

ASSUME TablesAssumption ==
    /\ NumCols \in Nat \ {0} /\ Status \in Cols /\ Numeric \subseteq Cols
    /\ MaxPinned \in Nat /\ MaxSorts \in Nat
    /\ Stored \in Seq(Range(Stored)) /\ IsInjective(Stored)
    /\ Cells \in [Range(Stored) -> [Cols -> Int \cup {Null}]]
    /\ \A r, q \in Range(Stored) : Cells[r][1] = Cells[q][1] => r = q

VARIABLES
    full,               \* FullCellRows
    shown, dim, cursor, \* CellRows, the rows marked Dimmed, the table's cursor
    pins, filtering, inverted,   \* Pins, FilterActive, FilterInverted
    sorts, hidden, col,       \* Sorts, HideOrder > 0, ColCursor
    mag,                \* magMode
    stale               \* HISTORY: a pinned column was hidden, not refreshed since

filter == <<pins, filtering, inverted>>
tableVars   == <<full, shown, dim, cursor, filter, sorts, hidden, col, mag, stale>>

NoPins   == [c \in Cols |-> {}]
HasPins(p)     == p # NoPins
Visible(h) == Cols \ h

-----------------------------------------------------------------------------
(* Filter and sort.                                                        *)

\* cellDisplayValue
Key(r, c, m) ==
    LET v == Cells[r][c] IN IF m /\ c \in Numeric /\ v # Null THEN Magnitude(v) ELSE v

\* matchesAllPins: AND across columns, OR within one
Matches(r, p, m) == \A c \in Cols : p[c] # {} => Key(r, c, m) \in p[c]

\* applyRowFilter: the rows it keeps, and those it dims
Kept(f, p, a, i, m) ==
    IF HasPins(p) /\ a THEN Only(f, {r \in Range(f) : Matches(r, p, m) # i}) ELSE f

Dimmed(f, p, a, i, m) ==
    IF HasPins(p) /\ ~a THEN {r \in Range(f) : Matches(r, p, m) = i} ELSE {}

\* applySorts: NULL sorts last in both directions, the ID breaks ties
Precedes(r, q, entry) ==
    LET a == Cells[r][entry.col]
        b == Cells[q][entry.col]
    IN  /\ a # b /\ a # Null
        /\ b # Null => IF entry.desc THEN a > b ELSE a < b

WithPKTiebreaker(s) ==
    IF \E i \in 1..Len(s) : s[i].col = 1 THEN s ELSE Append(s, [col |-> 1, desc |-> FALSE])

Before(r, q, s) ==
    LET t == WithPKTiebreaker(s)
    IN  \E i \in 1..Len(t) :
            /\ Precedes(r, q, t[i])
            /\ \A j \in 1..(i - 1) : Cells[r][t[j].col] = Cells[q][t[j].col]

\* The rows of a table are apart, so each has its place.
RowPlace(r, rows, s) == Cardinality({q \in rows : Before(q, r, s)})
Sorted(f, s) == [n \in DOMAIN f |-> CHOOSE r \in Range(f) : RowPlace(r, Range(f), s) = n - 1]

\* The table clamps its cursor to the rows it is given.
SetRows(rows) == cursor' = (IF cursor > Len(rows) THEN Len(rows) ELSE cursor)

\* applyRowFilter, then applySorts
FilterAndSort(f, p, a, i, s, m) ==
    /\ shown' = Sorted(Kept(f, p, a, i, m), s)
    /\ dim' = Dimmed(f, p, a, i, m)
    /\ stale' = FALSE

\* refreshTable
Refresh(f, p, a, i, s) ==
    /\ FilterAndSort(f, p, a, i, s, mag)
    /\ LET n == Len(shown')
       IN  cursor' = (IF cursor > n THEN n ELSE IF cursor = 0 /\ n > 0 THEN 1 ELSE cursor)

-----------------------------------------------------------------------------
(* Loading.                                                                *)

\* reloadTab: after a save, a pull, a switch of tabs, or to show the deleted
Reload ==
    /\ \E S \in SUBSET Range(Stored) : full' = Only(Stored, S)
    /\ full' # full
    /\ Refresh(full', pins, filtering, inverted, sorts)
    /\ UNCHANGED <<filter, sorts, hidden, col, mag>>

-----------------------------------------------------------------------------
(* Pins.                                                                   *)

Toggled(p, c, key) ==
    [p EXCEPT ![c] = IF key \in @ THEN @ \ {key} ELSE @ \cup {key}]

SetFilter(p, a, i) ==
    /\ pins' = p /\ filtering' = a /\ inverted' = i
    /\ UNCHANGED <<full, sorts, hidden, col, mag>>

Pinned(p) == UNION {{c} \X p[c] : c \in Cols}
Bounded(p) == Cardinality(Pinned(p)) <= MaxPinned     \* BOUND

\* togglePinAtCursor
TogglePin ==
    /\ cursor \in 1..Len(shown)
    /\ LET p == Toggled(pins, col, Key(shown[cursor], col, mag))
       IN  /\ Bounded(p)
           /\ SetFilter(p, filtering, inverted)
           /\ Refresh(full, p, filtering, inverted, sorts)

\* MUTANT: nothing is filtered until the next refresh.
NotRefreshed(a, i) == UNCHANGED <<shown, dim, cursor, stale>>

\* toggleFilterActivation, toggleFilterInvert: refreshed only if there are pins
Refreshed(a, i) ==
    IF HasPins(pins) THEN Refresh(full, pins, a, i, sorts)
                     ELSE UNCHANGED <<shown, dim, cursor, stale>>

ToggleFilter == SetFilter(pins, ~filtering, inverted) /\ Refreshed(~filtering, inverted)
InvertFilter == SetFilter(pins, filtering, ~inverted) /\ Refreshed(filtering, ~inverted)

ClearPins ==
    /\ HasPins(pins) \/ filtering
    /\ SetFilter(NoPins, FALSE, FALSE)
    /\ Refresh(full, NoPins, FALSE, FALSE, sorts)

\* clearPinsForColumn: the last pins take the filter with them
WithoutColumn(c) ==
    LET p == [pins EXCEPT ![c] = {}]
    IN  SetFilter(p, filtering /\ HasPins(p), inverted /\ HasPins(p))

\* toggleSettledFilter
ToggleSettled ==
    \/ /\ pins[Status] # {}
       /\ WithoutColumn(Status)
       /\ Refresh(full, pins', filtering', inverted', sorts)
    \/ /\ pins[Status] = {}
       /\ LET p == [pins EXCEPT ![Status] = ActiveStatuses]
          IN  /\ Bounded(p)
              /\ SetFilter(p, TRUE, inverted)
              /\ Refresh(full, p, TRUE, inverted, sorts)

-----------------------------------------------------------------------------
(* Magnitude mode.                                                         *)

\* translatePins, for the rows loaded; a pin that matches none is kept
Translated(p, m) ==
    [c \in Cols |->
        LET new == {Key(r, c, m) : r \in {q \in Range(full) : Key(q, c, ~m) \in p[c]}}
        IN  IF new # {} THEN new ELSE p[c]]

\* The key for magnitudes: no refreshTable, so the cursor may stay on no row
ToggleMag ==
    /\ mag' = ~mag
    /\ pins' = Translated(pins, ~mag)
    /\ IF HasPins(pins)
       THEN /\ FilterAndSort(full, pins', filtering, inverted, sorts, ~mag)
            /\ SetRows(shown')
       ELSE UNCHANGED <<shown, dim, cursor, stale>>
    /\ UNCHANGED <<full, filtering, inverted, sorts, hidden, col>>

-----------------------------------------------------------------------------
(* Sorts.                                                                  *)

\* toggleSort: ascending, then descending, then none
ToggledSort ==
    LET at == {i \in 1..Len(sorts) : sorts[i].col = col}
    IN  IF at = {} THEN Append(sorts, [col |-> col, desc |-> FALSE])
        ELSE LET i == CHOOSE i \in at : TRUE
             IN  IF sorts[i].desc THEN RemoveAt(sorts, i)
                                  ELSE [sorts EXCEPT ![i].desc = TRUE]

\* The rows shown are sorted again, whatever is loaded.
ApplySorts(s) ==
    /\ sorts' = s /\ Len(s) <= MaxSorts     \* BOUND
    /\ shown' = Sorted(shown, s)
    /\ UNCHANGED <<full, dim, cursor, filter, hidden, col, mag, stale>>

ToggleSort == ApplySorts(ToggledSort)
ClearSorts == sorts # <<>> /\ ApplySorts(<<>>)

-----------------------------------------------------------------------------
(* Columns.                                                                *)

\* nextVisibleCol: c itself at the edge
NextVisible(c, h) ==
    LET after == {d \in Visible(h) : d > c}
    IN  IF after = {} THEN c ELSE CHOOSE d \in after : \A e \in after : d <= e

PrevVisible(c, h) ==
    LET before == {d \in Visible(h) : d < c}
    IN  IF before = {} THEN c ELSE CHOOSE d \in before : \A e \in before : d >= e

\* The column the cursor moves to when its own is hidden
Beside(c, h) == IF NextVisible(c, h) # c THEN NextVisible(c, h) ELSE PrevVisible(c, h)

MoveColumn ==
    /\ \/ col' \in {NextVisible(col, hidden), PrevVisible(col, hidden)}
       \/ col' = NextVisible(0, hidden)             \* firstVisibleCol
       \/ col' = PrevVisible(NumCols + 1, hidden)   \* lastVisibleCol
    /\ col' # col
    /\ UNCHANGED <<full, shown, dim, cursor, filter, sorts, hidden, mag, stale>>

MoveRow ==
    /\ shown # <<>>
    /\ cursor' \in (1..Len(shown)) \ {cursor}
    /\ UNCHANGED <<full, shown, dim, filter, sorts, hidden, col, mag, stale>>

\* hideCurrentColumn: filters again only if pins remain, and does not sort
HideColumn ==
    /\ col \notin hidden /\ Cardinality(Visible(hidden)) > 1
    /\ hidden' = hidden \cup {col}
    /\ col' = Beside(col, hidden')
    /\ LET p == [pins EXCEPT ![col] = {}]
       IN  /\ pins' = p
           /\ filtering' = (filtering /\ HasPins(p)) /\ inverted' = (inverted /\ HasPins(p))
           /\ IF HasPins(p)
              THEN /\ shown' = Kept(full, p, filtering, inverted, mag)
                   /\ dim' = Dimmed(full, p, filtering, inverted, mag)
                   /\ SetRows(shown')
                   /\ stale' = TRUE
              ELSE /\ UNCHANGED <<shown, dim, cursor>>
                   /\ stale' = (stale \/ HasPins(pins))
    /\ UNCHANGED <<full, sorts, mag>>

ShowAllColumns ==
    /\ hidden # {} /\ hidden' = {}
    /\ UNCHANGED <<full, shown, dim, cursor, filter, sorts, col, mag, stale>>

\* columnFinderJump: a hidden column is shown again
JumpToColumn ==
    /\ \E c \in Cols : col' = c /\ hidden' = hidden \ {c}
    /\ <<col, hidden>>' # <<col, hidden>>
    /\ UNCHANGED <<full, shown, dim, cursor, filter, sorts, mag, stale>>

-----------------------------------------------------------------------------
TablesInit ==
    /\ full = Stored
    /\ shown = Sorted(Stored, <<>>)
    /\ dim = {} /\ cursor = 1
    /\ pins = NoPins /\ filtering = FALSE /\ inverted = FALSE
    /\ sorts = <<>> /\ hidden = {} /\ col = 1
    /\ mag = FALSE /\ stale = FALSE

TablesNext ==
    \/ Reload
    \/ TogglePin \/ ToggleFilter \/ InvertFilter \/ ClearPins \/ ToggleSettled
    \/ ToggleMag
    \/ ToggleSort \/ ClearSorts
    \/ MoveColumn \/ MoveRow \/ HideColumn \/ ShowAllColumns \/ JumpToColumn

-----------------------------------------------------------------------------
(* Properties.                                                             *)

\* The table shows exactly the loaded rows that the pins let through (all of
\* them in a preview, the others dimmed), each once, in the order the sort
\* stack and the ID give; only a column hidden with pins on it leaves rows of
\* the earlier filter, or their stored order, until the next refresh
\* (filter.go applyRowFilter, sort.go applySorts, model.go refreshTable).
ShownMatches ==
    ~stale =>
        /\ Range(shown) = {r \in Range(full) :
                HasPins(pins) /\ filtering =>
                    (\A c \in Cols : pins[c] = {} \/ Key(r, c, mag) \in pins[c]) # inverted}
        /\ \A i \in 1..(Len(shown) - 1) : Before(shown[i], shown[i + 1], sorts)
        /\ HasPins(pins) /\ ~filtering => \A r \in Range(full) :
                r \in dim <=> (\A c \in Cols : pins[c] = {} \/ Key(r, c, mag) \in pins[c]) = inverted

\* Turning magnitudes on may let more rows through, since a pin stands for
\* everything of its magnitude, and never hides or dims one that was shown;
\* turning them off changes nothing that is shown. Left out are inverted filters,
\* which keep off more rows the more a pin stands for, and a pin no loaded row
\* matches, which is not translated (model_keys.go MagToggle, filter.go
\* translatePins).
MagKeepsRows ==
    /\ mag' # mag /\ ~stale /\ ~inverted
    /\ \A c \in Cols : pins[c] = {} \/ \E r \in Range(full) : Key(r, c, mag) \in pins[c]
    =>
    /\ Range(shown) \subseteq Range(shown') /\ dim' \subseteq dim
    /\ mag => shown' = shown /\ dim' = dim

\* Both, of every step: the rows a table shows after it, and how they change
\* with the magnitudes.
ShowsWhatItShould == [][ShownMatches' /\ MagKeepsRows]_tableVars
=============================================================================
