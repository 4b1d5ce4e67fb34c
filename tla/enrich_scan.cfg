\* Two scan tasks and two requests at once; two consultants.
SPECIFICATION Spec
CONSTANTS
    u1 = u1
    u2 = u2
    u3 = u3
    c1 = c1
    w1 = w1
    w2 = w2
    q1 = q1
    q2 = q2
    go = go
    ann = ann
    bob = bob
    NoSource = NoSource
    Sources = {u1, u2, u3}
    Configured = {u1}
    FailedBefore <- OneFailed
    Owner <- TwoOwners
    Candidates = {c1}
    KeyOf <- OneItem
    Alike <- Itself
    Scans = {w1, w2}
    Requests = {q1, q2}
    Ops = {"accept", "edit", "reject", "remove", "add"}
    MAX_SOURCES = 2
    MAX_BULK_SIZE = 2
    THRESHOLD = 2
    Faults = TRUE
    MaxCycles = 2
    MaxRequests = 2
    MaxProposals = 2
INVARIANTS TypeOK AuditMatchesMerges RejectionStands PendingOncePerPage CompletedMissedNothing
PROPERTIES AdditiveOnly NoticeIsEarned
SYMMETRY Symmetry
CHECK_DEADLOCK FALSE
