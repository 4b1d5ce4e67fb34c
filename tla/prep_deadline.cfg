\* One task that may run into its deadline.
SPECIFICATION Spec
CONSTANTS
    j1 = j1
    j2 = j2
    p1 = p1
    p2 = p2
    Jobs = {j1}
    Points = {p1}
    MAX_RETRIES = 2
    GENERATION_TIMEOUT = 90
    TOTAL_DEADLINE = 120
    Faults = TRUE
    MaxTries = 1
    MaxPacks = 2
INVARIANTS NoPackLeftPending
CHECK_DEADLOCK FALSE
