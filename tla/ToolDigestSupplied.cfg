SPECIFICATION Spec
CONSTANTS
    base = base
    calls = calls
    slice = slice
    Requests <- MCRequests
    Baseline = base
    MaxToolCalls = 3
    MaxParallel = 2
    Transports = {"responses"}
INVARIANTS
    DigestSupplied
