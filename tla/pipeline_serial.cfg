\* One call at a time, five calls in a row, with failures.
SPECIFICATION Spec
CONSTANTS
    r1 = r1
    h1 = h1
    h2 = h2
    NoRecord = NoRecord
    Records = {r1}
    Handlers = {h1}
    TypeOf <- MCTeam
    Ops <- AllOps
    ManualTargets <- TeamTargets
    Faults = TRUE
    MaxCalls = 5
PROPERTIES ImplementsRules
