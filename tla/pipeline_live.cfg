\* A job-site record, two calls at once, no failures, fairness of the event loop.
SPECIFICATION FairSpec
CONSTANTS
    r1 = r1
    h1 = h1
    h2 = h2
    NoRecord = NoRecord
    Records = {r1}
    Handlers = {h1, h2}
    TypeOf <- MCJob
    Ops <- AllOps
    ManualTargets <- JobTargets
    Faults = FALSE
    MaxCalls = 3
PROPERTIES TransitionReachesRow ImplementsRules
