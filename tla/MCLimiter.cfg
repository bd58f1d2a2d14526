SPECIFICATION FairSpec
CONSTANTS
    c1 = c1
    c2 = c2
    Callers <- TwoCallers
    Window = 2
    Recovery = 1
    AdjustEvery = 1
    Threshold = 2
    MinLimit = 1
    MaxLimit = 3
    MaxFailures = 3
INVARIANTS
    TypeOK Overshoot CircuitMatchesCount
PROPERTIES
    ServesUnlessStuck
CHECK_DEADLOCK FALSE
