SPECIFICATION FairSpec
CONSTANT MaxCalls = 3
INVARIANTS EveryCallAnswered EventsPaired MutatorsRunAlone CancelIsReported
PROPERTIES NothingAfterFailure KeepsPromise BatchEnds
