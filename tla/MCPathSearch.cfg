CONSTANTS
  Nodes       = {1, 2, 3, 4, 5}
  Graphs      <- MCGraphs
  Depths      = {0, 1, 2}
  StateLimits = {0, 3}
  PathLimits  = {2}
SPECIFICATION Spec
INVARIANTS TypeOK FoundSound GoalFound PathsBounded
