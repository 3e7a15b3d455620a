SPECIFICATION Spec
CONSTANTS
    MemSize = 7
    VarSize = 1
    SizeRange = 64
    MemCfgs <- MCMemCfgs
    VarCfgs <- SomeVars
    RawRange = 8
    Thresholds = {2, 5}
    FloatTrig = TRUE
PROPERTY ThresholdsStay
