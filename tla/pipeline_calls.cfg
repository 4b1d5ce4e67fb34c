\* A Team cold-outreach record and two calls in progress at once, with failures.
SPECIFICATION Spec
CONSTANTS
    r1 = r1
    h1 = h1
    h2 = h2
    NoRecord = NoRecord
    Records = {r1}
    Handlers = {h1, h2}
    TypeOf <- MCTeam
    Ops <- AllOps
    ManualTargets <- TeamTargets
    Faults = TRUE
    MaxCalls = 4
INVARIANTS TypeOK GatedHasReport EventsFollowTheirCause BoardShowsRow EffectsFollowCommit
PROPERTIES TerminalLeftOnlyByStaleOrFailed
SYMMETRY Callers
