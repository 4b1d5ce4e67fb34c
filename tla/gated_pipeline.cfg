\* Two calls of the verifier at once beside one of the manager, with failures.
SPECIFICATION GatedSpec
CONSTANTS
    h1 = h1
    h2 = h2
    m1 = m1
    x1 = x1
    Handlers = {h1, h2}
    Paths = {"verify", "confirm_and_add", "manual_edit"}
    Verdicts = {"grounded", "ungrounded"}
    MaterialOf <- TwoMaterials
    MaxClaims = 1
    UnsavedIds = {x1}
    Faults = TRUE
    MaxCalls = 3
    Record = Record
    NoRecord = NoRecord
    Movers = {m1}
    TypeOf <- MCTypeOf
    Ops <- MCOps
    ManualTargets <- MCTargets
    MaxMoves = 2
INVARIANTS GatedWriteIsGrounded
PROPERTIES ImplementsPipeline
SYMMETRY Callers
CHECK_DEADLOCK FALSE
