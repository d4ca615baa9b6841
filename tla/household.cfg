CONSTANTS
    m0 = m0
    m1 = m1
    m2 = m2
    Machines = {m0, m1, m2}
    Founder = m0
    maxInviteAttempts = 1
    maxActiveInvites = 1
    KeepsRefusal = TRUE
    MaxInvites = 3
    MaxExchanges = 2
    MaxFaults = 1
    None = None
SPECIFICATION Spec
SYMMETRY Newcomers
INVARIANTS AccountComplete CodeLimits
PROPERTIES AcceptedStays ImplementsAdmission
CHECK_DEADLOCK FALSE
