SPECIFICATION Spec
CONSTANTS
    Cases = {c1, c2}
    Builds = {b1, b2}
    NoBuild = NoBuild
    Configs = {k1}
    Variants = {v1}
    MaxRepetitions = 1
    MaxRuns = 3
    MaxCrashes = 2
SYMMETRY Symmetry
INVARIANTS
    TypeOK
    WorkLostPerCrash
    CompleteCoversPlan
    RecordNamesBinary
CHECK_DEADLOCK FALSE
