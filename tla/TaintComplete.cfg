CONSTANTS
  Problems  <- CommandProblems
  MaxBlocks = 5
SPECIFICATION CommandSpec
INVARIANT TaintComplete
CHECK_DEADLOCK FALSE
