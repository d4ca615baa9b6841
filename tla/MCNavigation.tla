---------------------------- MODULE MCNavigation ----------------------------
(***************************************************************************)
(* The views of the tables, the overlays over them, the rows of one table  *)
(* and the columns it draws read nothing of each other here, so a          *)
(* behaviour is one of the four. The views: two maintenance items, one     *)
(* with a service log that gets a document, and an incident; which rows    *)
(* pins keep off is a set of the views' own (MCFilters), not what Tables   *)
(* makes of pins.                                                          *)
(***************************************************************************)
EXTENDS Navigation, Overlays, Tables, Viewport

CONSTANTS m1, m2, s1, i1, d1
MCRows     == {m1, m2, s1, i1, d1}
MCKindOf   == [r \in MCRows |-> CASE r \in {m1, m2} -> "maintenance" [] r = s1 -> "servicelog"
                                  [] r = i1 -> "incident" [] OTHER -> "document"]
MCRefers   == {<<s1, m2>>, <<d1, m2>>}
MCTabs     == <<"maintenance", "incident", "document">>
MCUnborn   == {d1}
MCSections == <<"incident", "maintenance">>
MCFilters  == {{}, {m2}, {d1}}

MCSectionLen == <<2, 1>>
MCColumns    == <<1, 2, 3>>
MCTreeNodes  == <<1, 2, 3, 4>>
MCParentOf   == <<0, 1, 2, 1>>

\* The rows of one table: three projects, their budget and status; a table
\* loads two of them at least (MCNext)
MCStored == <<3, 2, 1>>
MCCells  == << <<12, 1>>, <<15, 2>>, <<0, 1>> >>
MCMagnitude(v) == 100 + (v \div 10)

\* Five columns, too wide for two of three terminals
MCSpecs == << [min |-> 2, max |-> 4, flex |-> FALSE], [min |-> 6, max |-> 0, flex |-> TRUE],
              [min |-> 4, max |-> 6, flex |-> FALSE], [min |-> 5, max |-> 9, flex |-> FALSE],
              [min |-> 4, max |-> 8, flex |-> TRUE] >>
MCWidthOf == [all |-> <<3, 12, 5, 11, 8>>, few |-> <<2, 7, 5, 6, 4>>]

VARIABLE part

MCInit ==
    /\ Init /\ OverlayInit /\ TablesInit /\ ViewportInit
    /\ part \in {"views", "overlays", "rows", "columns"}
    /\ IF part = "views" THEN open = {} ELSE dash = DashOff
    /\ part # "overlays" => open = {}
    /\ part # "columns" => \A w \in TermWidths : termWidth >= w

MCNext ==
    \/ part = "views" /\ Next /\ UNCHANGED <<part, overlayVars, tableVars, viewportVars>>
    \/ part = "overlays" /\ OverlayNext /\ UNCHANGED <<part, vars, tableVars, viewportVars>>
    \/ part = "rows" /\ TablesNext /\ Len(full') > 1 /\ UNCHANGED <<part, vars, overlayVars, viewportVars>>
    \/ part = "columns" /\ ViewportNext /\ UNCHANGED <<part, vars, overlayVars, tableVars>>

MCSpec == MCInit /\ [][MCNext]_<<vars, overlayVars, tableVars, viewportVars, part>>
=============================================================================
