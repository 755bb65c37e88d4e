SPECIFICATION Spec
CONSTANTS
    Cases = {c1}
    Builds = {b1}
    NoBuild = NoBuild
    Configs = {k1}
    Variants = {v1}
    MaxRepetitions = 2
    MaxRuns = 3
    MaxCrashes = 1
INVARIANTS
    SummaryWithinPlan
CHECK_DEADLOCK FALSE
