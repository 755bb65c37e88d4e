CONSTANTS
  Problems  <- StatementProblems
  MaxBlocks = 5
SPECIFICATION CommandSpec
INVARIANT StatementTextCurrent
CHECK_DEADLOCK FALSE
