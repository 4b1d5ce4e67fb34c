\* A task that may be cut, fail and die, under the fairness of the worker.
SPECIFICATION FairSpec
CONSTANTS
    j1 = j1
    j2 = j2
    p1 = p1
    p2 = p2
    Jobs = {j1}
    Points = {p1, p2}
    MAX_RETRIES = 2
    GENERATION_TIMEOUT = 90
    TOTAL_DEADLINE = 120
    Faults = TRUE
    MaxTries = 3
    MaxPacks = 3
INVARIANTS FlagsAreJudged
PROPERTIES TaskIsAnswered
CHECK_DEADLOCK FALSE
