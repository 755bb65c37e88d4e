CONSTANTS
  PathCount <- MCPathCount
  Limits    = {3}
  Budgets   = {0}
SPECIFICATION Spec
INVARIANT CompleteIsDecided
