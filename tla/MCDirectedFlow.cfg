CONSTANTS
  PathCount <- MCPathCount
  Limits    <- MCLimits
  Budgets   <- MCBudgets
SPECIFICATION Spec
INVARIANTS TypeOK FeasibleHasEvidence InfeasibleTrusted NoFlowTrusted
           CompleteIsFixpoint CandidatesBounded
PROPERTIES ImplementsFlowAnswer
