SPECIFICATION MCSpec
CONSTANTS
    m1 = m1 s1 = s1 m2 = m2 i1 = i1 d1 = d1
    Rows <- MCRows
    KindOf <- MCKindOf
    Refers <- MCRefers
    Tabs <- MCTabs
    Unborn <- MCUnborn
    Sections <- MCSections
    Filters <- MCFilters
    SectionLen <- MCSectionLen
    Columns <- MCColumns
    TreeNodes <- MCTreeNodes
    ParentOf <- MCParentOf
    Groups = 2
    MaxFound = 2
    None = None
    MaxChanges = 2
    Stored <- MCStored
    Cells <- MCCells
    Null = 0
    NumCols = 2
    Numeric = {1}
    Magnitude <- MCMagnitude
    Status = 2
    ActiveStatuses = {1}
    MaxPinned = 2
    MaxSorts = 1
    Specs <- MCSpecs
    WidthOf <- MCWidthOf
    LastColumn = 4
    TermWidths = {16, 26, 40}
    Sep = 1
    Arrow = 2
INVARIANTS ViewsTrue CursorLands KeysLand DrawnRight
PROPERTIES DeletesAsked ShowsWhatItShould
