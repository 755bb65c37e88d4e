CONSTANTS
  Problems  <- MCProblems
  MaxBlocks = 5
SPECIFICATION CommandSpec
INVARIANTS TypeOK TextFaithful VariablesSound RegionsCover ListingAccounted NamesHold
           InductionStepHolds SequencesRunThrough EnrichmentAccounted
CHECK_DEADLOCK FALSE
