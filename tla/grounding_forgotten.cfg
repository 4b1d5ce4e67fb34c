\* An edited text with more claims than were resolved, then a confirmation.
SPECIFICATION Spec
CONSTANTS
    h1 = h1
    h2 = h2
    x1 = x1
    Handlers = {h1}
    Paths = {"verify", "manual_edit", "confirm_and_add"}
    Verdicts = {"grounded", "ungrounded"}
    MaterialOf <- OneMaterial
    MaxClaims = 2
    UnsavedIds = {x1}
    Faults = FALSE
    MaxCalls = 3
PROPERTIES ConfirmationUnblocksItsClaim
CHECK_DEADLOCK FALSE
