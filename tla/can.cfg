SPECIFICATION FairSpecForTLC
CONSTANTS
    Size8 = 12
    CommSize = 9
    ClassicLen = 4
    FdLengths = {5, 6}
    FdMin = 5
    Requests <- MCRequests
    Builds <- MCBuilds
    EarlyBuilds <- MCEarly
    FdCaps = {TRUE, FALSE}
    EchoCaps = {TRUE, FALSE}
    Preempted = FALSE
    MaxFaults = 3
INVARIANTS DecodedAsSent ResponseIntact
PROPERTY EveryRequestAnswered
