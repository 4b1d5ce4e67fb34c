\* Two tasks at once, with retries, flags, failures, deadlines and deaths.
SPECIFICATION Spec
CONSTANTS
    j1 = j1
    j2 = j2
    p1 = p1
    p2 = p2
    Jobs = {j1, j2}
    Points = {p1}
    MAX_RETRIES = 1
    GENERATION_TIMEOUT = 90
    TOTAL_DEADLINE = 120
    Faults = TRUE
    MaxTries = 2
    MaxPacks = 3
INVARIANTS TypeOK PacksAreKept ReportedIsShown EventsFollowRows
SYMMETRY Tasks
CHECK_DEADLOCK FALSE
