CONSTANT MaxSignals = 2
SPECIFICATION Spec
INVARIANTS TypeOK WorkerTokenAlive DependenciesHeld NothingLeaked
           CompletenessExplained
PROPERTIES NoLateCancel DestroyedTokenWindow CommandEnds
