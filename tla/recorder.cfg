SPECIFICATION FairSpec
CONSTANTS
    MemSize = 7
    VarSize = 1
    SizeRange = 64
    MemCfgs <- MCMemCfgs
    VarCfgs <- SomeVars
    RawRange = 8
    Thresholds = {5}
    FloatTrig = TRUE
INVARIANTS LayoutIsFresh PointsInOrder TriggerInPlace
PROPERTIES TriggersOnEdges EventuallyStops
