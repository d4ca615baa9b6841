SPECIFICATION MCSpec
CONSTANTS
    None = None
    v1 = v1 v2 = v2 p1 = p1 p2 = p2 q1 = q1 a1 = a1 a2 = a2 m1 = m1 m2 = m2 l1 = l1 l2 = l2 i1 = i1 x1 = x1
    Vendors = {v1, v2}
    Projects = {p1, p2}
    Quotes = {q1}
    Appliances = {a1, a2}
    Items = {m1, m2}
    Logs = {l1, l2}
    Incidents = {i1}
    Documents = {x1}
    Seeded = {v1, p1, a1, m1, m2}
    Contacts = {old}
    StatusOpen = Open
    StatusResolved = Resolved
    Statuses = {Open, InProgress, Resolved}
    Dates = {1, 2}
    Callers = {c1, c2}
    MaxOps = 4
    MaxRemote = 1
    Null = Null
    Areas = {0, 7, 120}
    MaxEdits = 2
    MonthDays <- MCMonthDays
    SeasonOf <- MCSeasonOf
    Week = 2
    Year = 2
    Chores = {1, 2}
    Season <- MCSeason
    Planned <- MCPlanned
    OpenIncidents = {8}
    ActiveProjects = {9}
    Warranty <- MCWarranty
    Renewal = 13
    Ahead = 1
    LookBack = 1
    Horizon = 1
    Cap = 1
    Heights = {5, 6}
    Period = {14, 15}
    Pickable = {9, 13, 16}
    MaxPlans = 1
    MaxToggles = 2
SYMMETRY Symmetry
INVARIANTS References LastServiced Traces CursorLineDrawn
PROPERTIES EditsKeepRest Reminders
CHECK_DEADLOCK FALSE
