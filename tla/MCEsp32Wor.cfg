\* Edges at any time: they coalesce, and hit the handler between its two steps.
CONSTANTS
    Debounce = 2
    MaxLatency = 1
    MinGap = 0
    CountMod = 3
    StoreVals <- MCStoreVals
    MaxTime = 7
SPECIFICATION DriverSpec
INVARIANTS LevelAgreement CountFaithful
PROPERTIES WakesApart NoStuckPending
