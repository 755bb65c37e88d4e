SPECIFICATION FairSpec
CONSTANTS
    base = base
    calls = calls
    slice = slice
    Requests <- MCRequests
    Baseline = base
    MaxToolCalls = 3
    MaxParallel = 2
    Transports = {"direct", "json", "responses"}
INVARIANTS
    TypeOK
    TurnBudgetNeedsWaste
    DuplicateHasResult
PROPERTIES
    ClosedRunsNothing
    SessionEnds
