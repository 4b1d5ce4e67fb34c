\* Every resolution path, two calls at once, with failures.
SPECIFICATION Spec
CONSTANTS
    h1 = h1
    h2 = h2
    x1 = x1
    Handlers = {h1, h2}
    Paths <- AllPaths
    Verdicts = {"grounded", "ungrounded"}
    MaterialOf <- OneMaterial
    MaxClaims = 2
    UnsavedIds = {x1}
    Faults = TRUE
    MaxCalls = 3
INVARIANTS TypeOK ReportMatchesRows ResolvedIsAudited ChangedIsAccounted
PROPERTIES FreshUnblockIsSound
SYMMETRY Callers
CHECK_DEADLOCK FALSE
