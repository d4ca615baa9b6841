----------------------------- MODULE Navigation -----------------------------
(***************************************************************************)
(* Moving about in the terminal program (internal/app model_keys.go,       *)
(* model_tabs.go, model.go, mouse.go, dashboard.go, search.go): tabs, the  *)
(* stack of drilldowns over them, links, the dashboard, the document       *)
(* search, and the keys and clicks that change rows meanwhile.             *)
(*                                                                         *)
(* A view is a tab or a drilldown with the rows it loaded, a snapshot of   *)
(* the store, and those its pins keep off the screen (filter.go). A view   *)
(* that lists rows of kind k is of tab kind k, except a drilldown, which   *)
(* has the tab kind of the list it hangs under.                            *)
(***************************************************************************)
EXTENDS Naturals, SequencesExt, Listing

CONSTANTS
    Rows, None,
    KindOf,
    Refers,        \* foreign keys, and the entities of documents
    Unborn,        \* rows that do not exist at first
    Tabs,          \* the kinds that have a tab, in order
    Sections,      \* the sections of the dashboard, in order
    Filters,       \* sets of rows that pins may keep off the screen
    MaxChanges     \* BOUND: changes made to the store, to pins, or to whether a view shows
                   \* what is deleted

Kinds == {"project", "quote", "maintenance", "servicelog", "incident", "appliance", "vendor", "document"}

ASSUME NavigationAssumption ==
    /\ IsFiniteSet(Rows) /\ None \notin Rows /\ KindOf \in [Rows -> Kinds]
    /\ Refers \subseteq Rows \X Rows /\ Unborn \subseteq Rows /\ MaxChanges \in Nat
    /\ Tabs \in Seq(Kinds \ {"servicelog"}) /\ "document" \in ToSet(Tabs)
    /\ Sections \in Seq(ToSet(Tabs)) /\ Sections # <<>>
    /\ Filters \subseteq SUBSET Rows

VARIABLES
    status,     \* [Rows -> {"unborn", "live", "deleted", "gone"}]
    order,      \* the rows as the store's lists order them
    active,     \* the kind of m.active
    tabs,       \* [Tabs -> views]
    details,    \* m.detailStack
    mode,       \* normal or edit
    form,       \* the row a form or an inline input edits
    prompt,     \* confirmHardDelete and hardDeleteID
    dash,       \* m.showDashboard and m.dash
    searching,  \* m.docSearch
    goal,       \* HISTORY: the row the last step jumped to
    changes

store == <<status, order, changes>>
views == <<active, tabs, details>>
rest  == <<mode, form, prompt, dash, searching>>
vars  == <<store, views, rest, goal>>

NoForm == [id |-> None, kind |-> "none", inline |-> FALSE]

-----------------------------------------------------------------------------
(* Drilldowns: the kinds of the parent row and of the rows listed.         *)

Def(tab, of, shows) == [tab |-> tab, of |-> of, shows |-> shows]
NoDef == Def("none", "none", "none")

\* detailRoutes: a drilldown column, the tab kinds and the form kind it is for
Route(in, col, form_, def) == [in |-> in, col |-> col, form |-> form_, def |-> def]

DetailRoutes == <<
    Route({"maintenance", "appliance"},     "Log",    "any",         Def("maintenance", "maintenance", "servicelog")),
    Route({"appliance"},                    "Maint",  "any",         Def("appliance", "appliance", "maintenance")),
    Route({"vendor"},                       "Quotes", "any",         Def("vendor", "vendor", "quote")),
    Route({"vendor"},                       "Jobs",   "any",         Def("vendor", "vendor", "servicelog")),
    Route({"project"},                      "Quotes", "any",         Def("project", "project", "quote")),
    Route({"maintenance", "appliance"},     "Docs",   "servicelog",  Def("maintenance", "servicelog", "document")),
    Route({"maintenance", "appliance"},     "Docs",   "maintenance", Def("maintenance", "maintenance", "document")),
    Route({"quote", "vendor", "project"},   "Docs",   "quote",       Def("quote", "quote", "document")),
    Route({"project"},                      "Docs",   "any",         Def("project", "project", "document")),
    Route({"incident"},                     "Docs",   "any",         Def("incident", "incident", "document")),
    Route({"appliance"},                    "Docs",   "any",         Def("appliance", "appliance", "document")),
    Route({"vendor"},                       "Docs",   "any",         Def("vendor", "vendor", "document")) >>

\* The cellDrilldown columns of a view; the jobs of a vendor have none.
DrillColumns(v) ==
    CASE v.shows = "project"     -> {"Quotes", "Docs"}
      [] v.shows = "maintenance" -> {"Log", "Docs"}
      [] v.shows = "appliance"   -> {"Maint", "Docs"}
      [] v.shows = "vendor"      -> {"Quotes", "Jobs", "Docs"}
      [] v.shows = "servicelog"  -> IF v.of = "vendor" THEN {} ELSE {"Docs"}
      [] v.shows \in {"quote", "incident"} -> {"Docs"}
      [] OTHER -> {}

FormFits(r, v) == r.form \in {"any", v.shows}

\* openDetailForRow
RouteOf(v, col) ==
    LET fits(r) == r.col = col /\ FormFits(r, v) /\ v.tab \in r.in
        found   == {i \in DOMAIN DetailRoutes : fits(DetailRoutes[i])}
    IN  IF found = {} THEN NoDef ELSE DetailRoutes[Min(found)].def

-----------------------------------------------------------------------------
(* Views. Cursor 0 is the widget's -1.                                     *)

View(def, parent, from) ==
    [tab |-> def.tab, of |-> def.of, shows |-> def.shows, parent |-> parent, from |-> from,
     list |-> <<>>, rows |-> <<>>, hides |-> {}, cur |-> 0, show |-> FALSE, chosen |-> FALSE, unread |-> FALSE]

\* A row refers to what is there: a document loses an entity deleted for good.
RefersIn(s, r) == {t \in Rows : <<r, t>> \in Refers /\ s[t] # "gone"}

\* Load of the handlers, and ListX of the store
Listed(v, s) ==
    {r \in Rows : /\ KindOf[r] = v.shows
                  /\ s[r] = "live" \/ (v.show /\ s[r] = "deleted")
                  /\ v.parent # None => v.parent \in RefersIn(s, r)}

ListOf(v, s, o) ==
    LET rows == Only(o, Listed(v, s))
    IN  [i \in DOMAIN rows |-> [id |-> rows[i], deleted |-> s[rows[i]] = "deleted"]]

Clamp(cur, n) == IF n = 0 THEN 0 ELSE IF cur = 0 THEN 1 ELSE IF cur > n THEN n ELSE cur

\* applyRowFilter: what stays of the rows loaded, FullMeta, in tab.Rows
Passing(rows, hides) == Only(rows, [id : Rows \ hides, deleted : BOOLEAN])

\* refreshTable
Redrawn(v) ==
    LET rows == Passing(v.list, v.hides)
    IN  [v EXCEPT !.rows = rows, !.cur = Clamp(v.cur, Len(rows))]

\* reloadTab
Reloaded(v, s, o) == Redrawn([v EXCEPT !.list = ListOf(v, s, o), !.unread = FALSE])

\* selectRowByID: a row that the filter keeps off the screen is not found.
SelectRow(v, id) ==
    LET at == {i \in DOMAIN v.rows : v.rows[i].id = id}
    IN  IF at = {} THEN v ELSE [v EXCEPT !.cur = CHOOSE i \in at : TRUE]

Effective == IF details # <<>> THEN Last(details) ELSE tabs[active]
Selected  == IF Effective.cur = 0 THEN [id |-> None, deleted |-> FALSE] ELSE Effective.rows[Effective.cur]

SetEffective(v) ==
    /\ IF details # <<>>
       THEN details' = [details EXCEPT ![Len(details)] = v] /\ UNCHANGED tabs
       ELSE tabs' = [tabs EXCEPT ![active] = v] /\ UNCHANGED details
    /\ UNCHANGED active

Shown(v) == Reloaded(v, status, order)

-----------------------------------------------------------------------------
(* The dashboard: the open incidents and the maintenance due.              *)

DashRows(s, o) == Only(o, {r \in Rows : s[r] = "live" /\ KindOf[r] \in ToSet(Sections)})

\* buildDashNav: a header for each section that has rows, its rows if it is open
NavOf(data, open) ==
    LET entry(k, id) == [section |-> k, id |-> id]
        of(k)      == Only(data, {r \in Rows : KindOf[r] = k})
        entries(k) == IF of(k) = <<>> THEN <<>>
                      ELSE IF k \notin open THEN <<entry(k, None)>>
                      ELSE <<entry(k, None)>> \o [i \in DOMAIN of(k) |-> entry(k, of(k)[i])]
    IN  FlattenSeq([i \in DOMAIN Sections |-> entries(Sections[i])])

Indexed(d) ==
    LET nav == NavOf(d.data, d.open)
    IN  [d EXCEPT !.nav = nav, !.cur = Clamp(d.cur, Len(nav))]

LoadDash(d, s, o) == Indexed([d EXCEPT !.data = DashRows(s, o)])

\* Turned off it is forgotten; turned on, the sections that were open and the
\* cursor may be any.
DashOff == [on |-> FALSE, data |-> <<>>, nav |-> <<>>, cur |-> 0, open |-> {}]
TurnsOn == \E open \in SUBSET ToSet(Sections), cur \in 1..(2 * Cardinality(Rows)) :
               dash' = LoadDash([DashOff EXCEPT !.on = TRUE, !.open = open, !.cur = cur], status, order)

DashVisible == dash.on /\ dash.data # <<>>

-----------------------------------------------------------------------------
(* What a key or a click finds in its way. A dashboard takes the keys that *)
(* move in a table; in edit mode the other keys get past it.               *)

Keys      == form = NoForm /\ ~searching /\ prompt = None
TableKeys == Keys /\ ~DashVisible
Clicks    == ~searching /\ ~DashVisible

Stay == goal' = None

\* j and k, a click on a row, or the wheel, which no form and no question stops
MoveTo(i) ==
    /\ ~DashVisible
    /\ i \in DOMAIN Effective.rows /\ i # Effective.cur
    /\ SetEffective([Effective EXCEPT !.cur = i])
    /\ Stay /\ UNCHANGED <<store, rest>>

\* switchToTab reloads, stale or not.
SwitchToTab(k) ==
    /\ Keys /\ mode = "normal" /\ details = <<>> /\ k # active
    /\ active' = k
    /\ tabs' = [tabs EXCEPT ![k] = Shown(tabs[k])]
    /\ dash' = DashOff
    /\ Stay /\ UNCHANGED <<store, details, mode, form, prompt, searching>>

\* enterEditMode, enterNormalMode
ToggleEdit ==
    /\ Keys
    /\ \/ mode = "normal" /\ ~DashVisible /\ mode' = "edit"
       \/ mode = "edit" /\ mode' = "normal"
    /\ Stay /\ UNCHANGED <<store, views, form, prompt, dash, searching>>

-----------------------------------------------------------------------------
(* Pins. Which rows a filter keeps off the screen is for Tables to say; one *)
(* that keeps off none is as good as none.                                 *)

\* togglePinAtCursor, toggleFilterActivation, toggleFilterInvert, clearAllPins,
\* toggleSettledFilter: of these only the last two get past a dashboard.
FilterRows(h) ==
    /\ Keys /\ mode = "normal" /\ h # Effective.hides
    /\ \A r \in h : KindOf[r] = Effective.shows
    /\ DashVisible => h = {} \/ (details = <<>> /\ Effective.shows = "project")
    /\ changes < MaxChanges /\ changes' = changes + 1
    /\ SetEffective(Redrawn([Effective EXCEPT !.hides = h]))
    /\ Stay /\ UNCHANGED <<status, order, rest>>

\* What a filter keeps off the screen once row r has been written: r may have
\* come to match its pins or to match them no more.
AfterWrite(v, r) ==
    IF v.hides = {} THEN {{}} ELSE {h \in Filters \cup {v.hides} : h \ {r} = v.hides \ {r}}

-----------------------------------------------------------------------------
(* Drilldowns and links.                                                   *)

\* openDetailForRow, openDetailWith: getName must find the row in its table.
OpenDetail(col) ==
    /\ TableKeys /\ mode = "normal"
    /\ Selected.id # None /\ col \in DrillColumns(Effective)
    /\ LET def == RouteOf(Effective, col)
       IN  /\ def # NoDef /\ KindOf[Selected.id] = def.of /\ status[Selected.id] = "live"
           /\ details' = Append(details, Shown(View(def, Selected.id, active)))
    /\ Stay /\ UNCHANGED <<store, active, tabs, rest>>

\* MUTANT: the parent is reloaded after its row was selected.
SelectedThenLoaded(v, id) == Shown(SelectRow(v, id))

LoadedThenSelected(v, id) == SelectRow(Shown(v), id)

\* closeAllDetails: the tabs when the whole stack is closed
TabsBelow ==
    IF details = <<>> THEN tabs
    ELSE LET bottom == details[1]
         IN  [tabs EXCEPT ![bottom.from] = LoadedThenSelected(tabs[bottom.from], bottom.parent)]

\* closeDetail: ESC, also behind the dashboard, or a click on the breadcrumb,
\* which also a form shows
CloseDetail ==
    /\ details # <<>>
    /\ \/ Keys /\ mode = "normal"
       \/ Clicks
    /\ details' = IF Len(details) = 1 THEN <<>>
                  ELSE [Front(details) EXCEPT ![Len(details) - 1] =
                           LoadedThenSelected(details[Len(details) - 1], Last(details).parent)]
    /\ active' = IF Len(details) = 1 THEN Last(details).from ELSE active
    /\ tabs' = IF Len(details) = 1 THEN TabsBelow ELSE tabs
    /\ goal' = Last(details).parent
    /\ UNCHANGED <<store, rest>>

\* navigateToLink, and the jump of the dashboard
JumpTo(k, id) ==
    /\ details' = <<>> /\ active' = k
    /\ tabs' = [TabsBelow EXCEPT ![k] = SelectRow(Shown(TabsBelow[k]), id)]
    /\ goal' = id

\* Enter, or e in edit mode, on a cell that links; a scoped list leaves its
\* parent's column out.
FollowLink(id) ==
    /\ Keys
    /\ mode = "normal" => ~DashVisible
    /\ mode = "edit" => ~Selected.deleted
    /\ Selected.id # None /\ id \in RefersIn(status, Selected.id)
    /\ KindOf[id] # Effective.of /\ KindOf[id] \in ToSet(Tabs)
    /\ JumpTo(KindOf[id], id)
    /\ UNCHANGED <<store, rest>>

-----------------------------------------------------------------------------
(* The document search.                                                    *)

OpenSearch ==
    /\ Keys /\ mode = "normal" /\ Effective.shows = "document"
    /\ searching' = TRUE
    /\ Stay /\ UNCHANGED <<store, views, mode, form, prompt, dash>>

CloseSearch ==
    /\ searching
    /\ searching' = FALSE
    /\ Stay /\ UNCHANGED <<store, views, mode, form, prompt, dash>>

\* docSearchNavigate. Out of a drilldown it goes to the Documents tab and does
\* not load it.
SearchNavigate(id) ==
    /\ searching /\ KindOf[id] = "document" /\ status[id] = "live"
    /\ searching' = FALSE
    /\ IF details = <<>>
       THEN SetEffective(SelectRow(Effective, id))
       ELSE /\ details' = <<>> /\ active' = "document"
            /\ tabs' = [TabsBelow EXCEPT !["document"] = [SelectRow(@, id) EXCEPT !.unread = TRUE]]
    /\ goal' = id
    /\ UNCHANGED <<store, mode, form, prompt, dash>>

-----------------------------------------------------------------------------
(* Changing rows.                                                          *)

Changes(s, o) ==
    /\ changes < MaxChanges /\ changes' = changes + 1
    /\ status' = s /\ order' = o

EditKeys == Keys /\ mode = "edit"

\* checkDependencies, and the parents a restore asks for
MayDelete(r)  == \A c \in Rows : <<c, r>> \in Refers /\ status[c] = "live" => KindOf[c] = "document"
MayRestore(r) == \A t \in RefersIn(status, r) : status[t] = "live"

ToFront(o, xs) == Only(o, xs) \o Only(o, Rows \ xs)

\* syncLastServiced writes to the item while it has a log, and so moves it first.
Serviced(s, o, r) ==
    LET items == {t \in RefersIn(s, r) : /\ KindOf[r] = "servicelog" /\ KindOf[t] = "maintenance"
                                         /\ \E x \in Rows : <<x, t>> \in Refers /\ s[x] = "live"
                                                           /\ KindOf[x] = "servicelog"}
    IN  ToFront(o, items)

\* toggleDeleteSelected: only the view it was pressed in is reloaded.
ToggleDelete ==
    /\ EditKeys /\ Selected.id # None
    /\ LET r == Selected.id
           s == [status EXCEPT ![r] = IF Selected.deleted THEN "live" ELSE "deleted"]
           o == Serviced(s, order, r)
           v == [Effective EXCEPT !.show = @ \/ (~Selected.deleted /\ ~Effective.chosen)]
       IN  /\ \/ Selected.deleted /\ status[r] = "deleted" /\ MayRestore(r)
              \/ ~Selected.deleted /\ status[r] = "live" /\ MayDelete(r)
           /\ Changes(s, o)
           /\ SetEffective(Reloaded(v, s, o))
    /\ Stay /\ UNCHANGED rest

ToggleShowDeleted ==
    /\ EditKeys
    /\ Changes(status, order)
    /\ SetEffective(Shown([Effective EXCEPT !.show = ~@, !.chosen = TRUE]))
    /\ Stay /\ UNCHANGED rest

\* promptHardDelete goes by the tab kind, which a list of service logs or of an
\* incident's documents shares.
PromptHardDelete ==
    /\ EditKeys
    /\ Effective.tab \in {"incident", "maintenance"} /\ Selected.deleted
    /\ prompt' = Selected.id
    /\ Stay /\ UNCHANGED <<store, views, mode, form, dash, searching>>

\* MUTANT: the row is the one under the cursor when the question is answered.
UnderCursor == Selected.id

Asked == prompt

\* HardDeleteMaintenance takes the service logs along; either finds nothing if
\* the row is of another table.
Purged(r) ==
    [x \in Rows |-> IF x = r \/ (KindOf[r] = "maintenance" /\ KindOf[x] = "servicelog" /\ <<x, r>> \in Refers)
                    THEN "gone" ELSE status[x]]

\* handleConfirmHardDelete
ConfirmHardDelete ==
    /\ prompt # None /\ form = NoForm /\ ~searching
    /\ prompt' = None
    /\ LET kind == IF Effective.tab = "maintenance" THEN "maintenance" ELSE "incident"
       IN  \/ /\ Asked # None /\ KindOf[Asked] = kind /\ status[Asked] # "unborn"
              /\ Changes(Purged(Asked), order)
              /\ SetEffective(Reloaded(Effective, Purged(Asked), order))
           \/ UNCHANGED <<store, views>>
    /\ Stay /\ UNCHANGED <<mode, form, dash, searching>>

\* startAddForm, startEditForm, InlineEdit
StartForm(id, inline) ==
    /\ EditKeys
    /\ \/ id = None /\ ~inline
       \/ id # None /\ id = Selected.id /\ ~Selected.deleted /\ status[id] = "live"
    /\ form' = [id |-> id, kind |-> Effective.shows, inline |-> inline]
    /\ Stay /\ UNCHANGED <<store, views, mode, prompt, dash, searching>>

CancelForm ==
    /\ form # NoForm
    /\ form' = NoForm
    /\ Stay /\ UNCHANGED <<store, views, mode, prompt, dash, searching>>

\* handlerForFormKind: the drilldown's own handler, or that of a tab
HasHandler(k) == k \in ToSet(Tabs) \/ (details # <<>> /\ Last(details).shows = k)

\* The row saved: a new one belongs to the drilldown it is added in.
Saves(r) ==
    \/ form.id = r
    \/ /\ form.id = None /\ status[r] = "unborn" /\ KindOf[r] = form.kind
       /\ details # <<>> /\ form.kind = Effective.shows => Effective.parent \in RefersIn(status, r)

\* MUTANT: a save reloads the tabs, not the drilldown.
TabsOnly(v) == IF details # <<>> THEN Effective ELSE v

Effectively(v) == v

\* saveForm, submitInlineInput: reloadAfterMutation, and a form that closes
\* selects its row. Without a handler the save fails and the form stays.
SaveForm(r) ==
    /\ form # NoForm /\ HasHandler(form.kind)
    /\ Saves(r)
    /\ \E h \in AfterWrite(Effective, r) :
       LET s == [status EXCEPT ![r] = "live"]
           o == Serviced(s, ToFront(order, {r}), r)
           v == Effectively(Reloaded([Effective EXCEPT !.hides = h], s, o))
       IN  /\ Changes(s, o)
           /\ SetEffective(IF form.inline THEN v ELSE SelectRow(v, r))
           /\ dash' = IF dash.on THEN LoadDash(dash, s, o) ELSE dash
    /\ form' = NoForm
    /\ Stay /\ UNCHANGED <<mode, prompt, searching>>

-----------------------------------------------------------------------------
(* The dashboard's keys; a click beside it turns it off.                   *)

ToggleDashboard ==
    /\ Keys /\ mode = "normal"
    /\ IF dash.on THEN dash' = DashOff ELSE TurnsOn
    /\ Stay /\ UNCHANGED <<store, views, mode, form, prompt, searching>>

DashKeys == Keys /\ DashVisible

\* dashDown, dashUp, the next and the previous section, a click
DashMove(i) ==
    /\ DashKeys /\ i \in DOMAIN dash.nav
    /\ dash' = [dash EXCEPT !.cur = i]
    /\ Stay /\ UNCHANGED <<store, views, mode, form, prompt, searching>>

\* dashToggleCurrent, dashToggleAll, and the view drawn right after
DashToggle(ks) ==
    /\ DashKeys /\ dash.nav # <<>>
    /\ \/ ks = {dash.nav[dash.cur].section}
       \/ ks = ToSet(Sections) \ dash.open
       \/ ks = ToSet(Sections) /\ ks \subseteq dash.open
    /\ dash' = Indexed([dash EXCEPT !.open = (@ \ ks) \cup (ks \ @)])
    /\ Stay /\ UNCHANGED <<store, views, mode, form, prompt, searching>>

DashJump ==
    /\ DashKeys /\ dash.nav # <<>>
    /\ LET entry == dash.nav[dash.cur]
       IN  entry.id # None /\ JumpTo(entry.section, entry.id)
    /\ dash' = DashOff
    /\ UNCHANGED <<store, mode, form, prompt, searching>>

-----------------------------------------------------------------------------
\* NewModel: every tab is loaded, and the dashboard if it was left on.
Init ==
    /\ status = [r \in Rows |-> IF r \in Unborn THEN "unborn" ELSE "live"]
    /\ order = SetToSeq(Rows)
    /\ active = Tabs[1]
    /\ tabs = [k \in ToSet(Tabs) |-> Reloaded(View(Def(k, "none", k), None, k), status, order)]
    /\ details = <<>>
    /\ mode = "normal" /\ form = NoForm /\ prompt = None /\ searching = FALSE
    /\ dash \in {DashOff, LoadDash([DashOff EXCEPT !.on = TRUE, !.open = {Sections[1]}], status, order)}
    /\ goal = None /\ changes = 0

Next ==
    \/ \E i \in 1..Len(Effective.rows) : MoveTo(i)
    \/ \E k \in ToSet(Tabs) : SwitchToTab(k)
    \/ \E h \in Filters : FilterRows(h)
    \/ \E col \in {"Log", "Maint", "Quotes", "Jobs", "Docs"} : OpenDetail(col)
    \/ \E id \in Rows : FollowLink(id) \/ SearchNavigate(id) \/ SaveForm(id)
    \/ \E id \in Rows \cup {None}, inline \in BOOLEAN : StartForm(id, inline)
    \/ CloseDetail \/ OpenSearch \/ CloseSearch
    \/ ToggleEdit \/ ToggleDelete \/ ToggleShowDeleted
    \/ PromptHardDelete \/ ConfirmHardDelete \/ CancelForm
    \/ ToggleDashboard \/ DashJump
    \/ \E i \in 1..Len(dash.nav) : DashMove(i)
    \/ \E ks \in SUBSET ToSet(Sections) : DashToggle(ks)

-----------------------------------------------------------------------------
\* The view on the screen has loaded what the store holds, after any change made
\* in this or in another view, and draws what its pins let through of it -
\* unless the document search went to the Documents tab, which it does not load.
ScreenFresh ==
    ~Effective.unread =>
        /\ Effective.list = ListOf(Effective, status, order)
        /\ Effective.rows = Passing(Effective.list, Effective.hides)

\* Going back, following a link and a jump leave the cursor on the row that was
\* meant, if it is alive and the pins of the view let it through; one that they
\* keep off the screen is not found, as if it had been deleted (model.go:513).
CursorLands ==
    goal # None /\ status[goal] = "live" /\ ~Effective.unread /\ goal \notin Effective.hides
    => Selected.id = goal

\* Only the row that the question was about is deleted for good, with its logs.
DeletesAsked ==
    [][\A r \in Rows : status'[r] = "gone" /\ status[r] # "gone" => r = prompt \/ <<r, prompt>> \in Refers]_vars

\* Every drilldown column of a view on the screen opens a list for rows of the
\* kind it stands in, and the list holds the rows that belong to the row.
DrillsFit ==
    /\ \A col \in DrillColumns(Effective) : RouteOf(Effective, col).of = Effective.shows
    /\ \A d \in ToSet(details) : \A i \in DOMAIN d.rows : <<d.rows[i].id, d.parent>> \in Refers

\* Both: the lists on the screen and behind it are what they are said to be.
ViewsTrue == ScreenFresh /\ DrillsFit
=============================================================================
