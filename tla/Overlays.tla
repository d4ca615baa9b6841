------------------------------ MODULE Overlays ------------------------------
(***************************************************************************)
(* What is laid over the tables of the terminal program (internal/app      *)
(* model.go, mouse.go, view.go, house_overlay.go, column_finder.go,        *)
(* ops_tree.go, search.go). Three lists order the overlays: the one that   *)
(* draws them, the one that hands out keys and the one that closes the     *)
(* topmost. Each overlay has cursors into lists that shrink as the user    *)
(* types, collapses or searches.                                           *)
(***************************************************************************)
EXTENDS Naturals, SequencesExt, Listing

CONSTANTS
    SectionLen,    \* fields of the house profile: identity, then the grid
    Columns,       \* the columns of the table, in order
    TreeNodes,     \* the operations of a document: its JSON nodes in preorder
    ParentOf,      \* [TreeNodes -> a node or 0]
    Groups,        \* the tables those operations touch
    MaxFound       \* BOUND: documents a search finds

ASSUME OverlaysAssumption ==
    /\ Groups \in Nat /\ MaxFound \in Nat
    /\ SectionLen \in Seq(Nat \ {0}) /\ Len(SectionLen) > 1
    /\ Columns \in Seq(ToSet(Columns)) /\ Columns # <<>>
    /\ TreeNodes \in Seq(ToSet(TreeNodes)) /\ 0 \notin ToSet(TreeNodes)
    /\ ParentOf \in [ToSet(TreeNodes) -> {0} \cup ToSet(TreeNodes)] /\ 0 \in Range(ParentOf)

VARIABLES
    open,      \* the overlays that are visible
    keys,      \* the mode: normal, edit or form
    house,     \* m.houseOverlay: the cursor, and HISTORY: the field an edit is for, and a click meanwhile
    saved,     \* HISTORY: the field the last save was typed for, and the one written
    finder,    \* m.columnFinder: the matches and the cursor
    column,    \* ColCursor
    tree,      \* m.opsTree: what is expanded, the cursor and the table shown
    found      \* m.docSearch: the number of results and the cursor

overlayVars == <<open, keys, house, saved, finder, column, tree, found>>

-----------------------------------------------------------------------------
(* Which overlay is on top. From the topmost down:                         *)

\* buildView draws the last one on top.
Drawn == <<"help", "chat", "extraction", "search", "finder", "ops", "note", "calendar", "house", "dash">>

\* overlays: the first that is visible takes the key. The dashboard comes last,
\* after the inline input, which is part of the status line.
Dispatched == <<"house", "help", "extraction", "chat", "note", "ops", "calendar", "finder", "search", "inline", "dash">>

\* dismissActiveOverlay
Dismissed == <<"house", "help", "note", "ops", "finder", "search", "extraction", "chat", "calendar", "dash">>

TopOf(list) == LET up == {i \in DOMAIN list : list[i] \in open}
               IN  IF up = {} THEN "none" ELSE list[Min(up)]

\* hasActiveOverlay leaves out those that do not hide the keys of the table.
Active == open \ {"chat", "inline"} # {}

\* The table's keys reach it; and, for a part of them, past the dashboard.
NoOverlay == open \subseteq {"dash"} /\ keys # "form"
Uncovered == open = {} /\ keys # "form"

\* MUTANT: a click never asks what is laid over the table.
Ignored == TRUE

BelowClicked == ~Active

-----------------------------------------------------------------------------
NoField   == <<0, 0>>
NoHouse   == [at |-> NoField, for |-> NoField, clicked |-> FALSE]
NoFinder  == [matches |-> <<>>, cur |-> 0]
NoTree    == [expanded |-> {}, cur |-> 0, tab |-> 0]
NoResults == [n |-> 0, cur |-> 0]

\* clampCursor, and runDocSearch; cursors count from 1, and an empty list has 1.
Within(cur, n) == IF cur > n /\ n > 0 THEN n ELSE IF n = 0 THEN 1 ELSE cur

\* refilter: any columns may match what was typed, in any order of score.
Filtered(f, matches) == [matches |-> matches, cur |-> Within(f.cur, Len(matches))]

\* visibleNodes walks down from the root, and below the nodes that are expanded.
Walk(V, expanded) == \A n \in ToSet(TreeNodes) : ParentOf[n] \in {0} \cup (V \cap expanded) => n \in V

VisibleNodes(expanded) ==
    Only(TreeNodes, {n \in ToSet(TreeNodes) : \A V \in SUBSET ToSet(TreeNodes) : Walk(V, expanded) => n \in V})

Expandable(n) == n \in Range(ParentOf)

\* openOpsTree, autoExpand: the root, and the rest of a small tree
Grown == [expanded |-> {n \in ToSet(TreeNodes) : Expandable(n)}, cur |-> 1, tab |-> 1]

-----------------------------------------------------------------------------
(* Opening.                                                                *)

Opens(o) ==
    /\ open' = open \cup {o}
    /\ house'  = IF o = "house"  THEN [NoHouse EXCEPT !.at = <<2, 1>>] ELSE house
    /\ finder' = IF o = "finder" THEN Filtered([NoFinder EXCEPT !.cur = 1], Columns) ELSE finder
    /\ tree'   = IF o = "ops"    THEN Grown ELSE tree
    /\ found'  = IF o = "search" THEN [NoResults EXCEPT !.cur = 1] ELSE found
    /\ UNCHANGED <<saved, column>>

\* handleCommonKeys, handleNormalKeys, handleEditKeys; handleDashboardKeys
\* takes some of them first.
OpenByKey(o) ==
    /\ o \notin open
    /\ \/ o \in {"help", "extraction"} /\ NoOverlay
       \/ o = "house" /\ Uncovered
       \/ o \in {"chat", "search"} /\ NoOverlay /\ keys = "normal"
       \/ o \in {"finder", "note", "ops"} /\ Uncovered /\ keys = "normal"
       \/ o \in {"calendar", "inline"} /\ NoOverlay /\ keys = "edit"
       \/ o = "dash" /\ open = {} /\ keys = "normal"
    /\ Opens(o) /\ UNCHANGED keys

\* handleLeftClick on the house, handleHintClick, and a double click on a cell
OpenByClick(o) ==
    /\ o \notin open /\ BelowClicked
    /\ \/ o = "house"
       \/ "inline" \notin open /\ keys # "form" /\ o = "help"
       \/ "inline" \notin open /\ keys = "normal" /\ o \in {"search", "chat", "note", "ops"}
    /\ Opens(o) /\ UNCHANGED keys

\* i and ESC, their hints, and the forms: a document saved in one is extracted
ChangeMode(m) ==
    /\ \/ NoOverlay /\ (m = "edit" => Uncovered)
       \/ BelowClicked /\ "inline" \notin open
    /\ <<keys, m>> \in {<<"normal", "edit">>, <<"edit", "normal">>, <<"edit", "form">>}
    /\ keys' = m
    /\ UNCHANGED <<open, house, saved, finder, column, tree, found>>

LeaveForm ==
    /\ keys = "form" /\ open \subseteq {"dash"}
    /\ keys' \in {"normal", "edit"}
    /\ \/ UNCHANGED <<open, house, saved, finder, column, tree, found>>
       \/ Opens("extraction")

-----------------------------------------------------------------------------
(* Closing.                                                                *)

Closes(o) ==
    /\ open' = open \ {o}
    /\ house'  = IF o = "house"  THEN NoHouse   ELSE house
    /\ finder' = IF o = "finder" THEN NoFinder  ELSE finder
    /\ tree'   = IF o = "ops"    THEN NoTree    ELSE tree
    /\ found'  = IF o = "search" THEN NoResults ELSE found

KeyTo(o) == TopOf(Dispatched) = o

\* ESC, or any key on a note; the house's ESC ends an edit first.
CloseByKey(o) ==
    /\ KeyTo(o)
    /\ o = "house" => house.for = NoField
    /\ Closes(o)
    /\ UNCHANGED <<keys, saved, column>>

\* dismissActiveOverlay: a click beside the overlay
DismissActive ==
    /\ Active
    /\ Closes(TopOf(Dismissed))
    /\ UNCHANGED <<keys, saved, column>>

-----------------------------------------------------------------------------
(* The house profile. Section 1 is the identity line, which no click hits. *)

HouseAt(s, r) == [house EXCEPT !.at = <<s, r>>]

Browsing == house.for = NoField

\* houseOverlayDown, Up, Right and Left
HouseMove ==
    /\ KeyTo("house") /\ Browsing
    /\ LET s == house.at[1]
           r == house.at[2]
           beside(t) == HouseAt(t, IF r > SectionLen[t] THEN SectionLen[t] ELSE r)
       IN  \/ s = 1 /\ house' = HouseAt(2, 1)
           \/ s = 1 /\ r < SectionLen[1] /\ house' = HouseAt(1, r + 1)
           \/ s = 1 /\ r > 1 /\ house' = HouseAt(1, r - 1)
           \/ s > 1 /\ r < SectionLen[s] /\ house' = HouseAt(s, r + 1)
           \/ s > 1 /\ house' = IF r > 1 THEN HouseAt(s, r - 1) ELSE HouseAt(1, 1)
           \/ s > 1 /\ s < Len(SectionLen) /\ house' = beside(s + 1)
           \/ s > 1 /\ house' = IF s = 2 THEN HouseAt(1, 1) ELSE beside(s - 1)
    /\ UNCHANGED <<open, keys, saved, finder, column, tree, found>>

\* houseOverlayStartEdit, houseOverlayCancelEdit
HouseEdit ==
    /\ KeyTo("house")
    /\ house' = [house EXCEPT !.for = IF Browsing THEN house.at ELSE NoField, !.clicked = FALSE]
    /\ UNCHANGED <<open, keys, saved, finder, column, tree, found>>

\* houseOverlaySubmitEdit writes the field at the cursor; one that is not valid stays.
HouseSubmit ==
    /\ KeyTo("house") /\ house.for # NoField
    /\ saved' = house
    /\ house' = [house EXCEPT !.for = NoField, !.clicked = FALSE]
    /\ UNCHANGED <<open, keys, finder, column, tree, found>>

\* handleHouseFieldClick, also while a field is edited
HouseClick(s, r) ==
    /\ "house" \in open /\ s > 1 /\ r <= SectionLen[s]
    /\ house' = [HouseAt(s, r) EXCEPT !.clicked = house.for # NoField]
    /\ UNCHANGED <<open, keys, saved, finder, column, tree, found>>

-----------------------------------------------------------------------------
(* The column finder, the operations and the search.                       *)

ColumnsFound == UNION {{s \in [1..n -> ToSet(Columns)] : IsInjective(s)} : n \in 0..Len(Columns)}

FinderTypes(matches) ==
    /\ KeyTo("finder") /\ matches \in ColumnsFound
    /\ finder' = Filtered(finder, matches)
    /\ UNCHANGED <<open, keys, house, saved, column, tree, found>>

FinderMove(i) ==
    /\ KeyTo("finder") /\ i \in {finder.cur - 1, finder.cur + 1} /\ i \in 1..Len(finder.matches)
    /\ finder' = [finder EXCEPT !.cur = i]
    /\ UNCHANGED <<open, keys, house, saved, column, tree, found>>

\* columnFinderJump
FinderJump ==
    /\ KeyTo("finder")
    /\ column' = IF finder.matches = <<>> THEN column ELSE finder.matches[finder.cur]
    /\ Closes("finder")
    /\ UNCHANGED <<keys, saved>>

TreeAt(expanded, cur) ==
    tree' = [tree EXCEPT !.expanded = expanded, !.cur = Within(cur, Len(VisibleNodes(expanded)))]

Flip(S, x) == IF x \in S THEN S \ {x} ELSE S \cup {x}

\* handleOpsTreeKey: j, k, g and G, the toggle, the collapse, the tables
TreeKey ==
    /\ KeyTo("ops")
    /\ LET nodes == VisibleNodes(tree.expanded)
           n     == nodes[tree.cur]
       IN  \/ \E i \in {1, tree.cur + 1, Len(nodes)} \cup ({tree.cur - 1} \ {0}) : TreeAt(tree.expanded, i)
           \/ Expandable(n) /\ TreeAt(Flip(tree.expanded, n), tree.cur)
           \/ Expandable(n) /\ n \in tree.expanded /\ TreeAt(tree.expanded \ {n}, tree.cur)
           \/ /\ ~(Expandable(n) /\ n \in tree.expanded) /\ ParentOf[n] # 0
              /\ TreeAt(tree.expanded \ {ParentOf[n]}, SelectInSeq(nodes, LAMBDA x : x = ParentOf[n]))
           \/ \E t \in {tree.tab - 1, tree.tab + 1} : t \in 1..Groups /\ tree' = [tree EXCEPT !.tab = t]
    /\ UNCHANGED <<open, keys, house, saved, finder, column, found>>

\* A click on a node moves to it and toggles it.
TreeClick(i) ==
    /\ "ops" \in open
    /\ LET nodes == VisibleNodes(tree.expanded)
       IN  /\ i \in DOMAIN nodes
           /\ TreeAt(IF Expandable(nodes[i]) THEN Flip(tree.expanded, nodes[i]) ELSE tree.expanded, i)
    /\ UNCHANGED <<open, keys, house, saved, finder, column, found>>

\* runDocSearch: any number of documents may match what was typed.
SearchTypes(n) ==
    /\ KeyTo("search")
    /\ found' = [n |-> n, cur |-> Within(found.cur, n)]
    /\ UNCHANGED <<open, keys, house, saved, finder, column, tree>>

SearchMove(i) ==
    /\ KeyTo("search") /\ i \in {found.cur - 1, found.cur + 1} /\ i \in 1..found.n
    /\ found' = [found EXCEPT !.cur = i]
    /\ UNCHANGED <<open, keys, house, saved, finder, column, tree>>

\* docSearchNavigate, by Enter or by a click on a result
SearchGoes ==
    /\ "search" \in open /\ found.n > 0
    /\ Closes("search")
    /\ UNCHANGED <<keys, saved, column>>

-----------------------------------------------------------------------------
OverlayInit ==
    /\ open \in {{}, {"dash"}} /\ keys = "normal"
    /\ house = NoHouse /\ finder = NoFinder /\ tree = NoTree /\ found = NoResults
    /\ saved = NoHouse
    /\ column = Columns[1]

OverlayNext ==
    \/ \E o \in ToSet(Dispatched) : OpenByKey(o) \/ OpenByClick(o) \/ CloseByKey(o)
    \/ \E m \in {"normal", "edit", "form"} : ChangeMode(m)
    \/ LeaveForm \/ DismissActive
    \/ HouseMove \/ HouseEdit \/ HouseSubmit
    \/ \E s \in DOMAIN SectionLen, r \in 1..Max(ToSet(SectionLen)) : HouseClick(s, r)
    \/ \E f \in ColumnsFound : FinderTypes(f)
    \/ \E i \in DOMAIN Columns : FinderMove(i)
    \/ FinderJump \/ TreeKey
    \/ \E i \in DOMAIN TreeNodes : TreeClick(i)
    \/ \E n \in 0..MaxFound : SearchTypes(n) \/ SearchMove(n)
    \/ SearchGoes

-----------------------------------------------------------------------------
\* The overlay that takes the keys is the one the user sees on top, and a click
\* beside it closes that one - unless the chat is open, which lets clicks
\* through to open others below it.
KeysGoToTop ==
    open \ {"inline"} # {} /\ "chat" \notin open
        => TopOf(Drawn) = TopOf(Dispatched) /\ TopOf(Drawn) = TopOf(Dismissed)

\* Whatever was typed, collapsed or searched, a cursor is on an entry of its
\* list: the key that follows it reads no index that is not there.
CursorsInRange ==
    /\ "finder" \in open => finder.matches = <<>> \/ finder.cur \in DOMAIN finder.matches
    /\ "ops" \in open => tree.cur \in DOMAIN VisibleNodes(tree.expanded) /\ (Groups = 0 \/ tree.tab \in 1..Groups)
    /\ "search" \in open => found.n = 0 \/ found.cur \in 1..found.n
    /\ "house" \in open => house.at[2] \in 1..SectionLen[house.at[1]]

\* A value typed in the house profile is saved as the field it was typed for,
\* unless a click moved the cursor under it.
TypedField == saved.for = saved.at \/ saved.clicked

\* The three together: a key reaches the overlay, the entry and the field it was for.
KeysLand == KeysGoToTop /\ CursorsInRange /\ TypedField
=============================================================================
