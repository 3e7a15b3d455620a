SPECIFICATION FairSpecForTLC
CONSTANTS
    Size8 = 8
    CommSize = 6
    RingSize = 4
    Requests <- MCRequests
    SOB = 2
    OK = 0
    VarOK = 4
    CmdCsErr = 5
    CmdTooLong = 6
    RspBuffOvf = 7
    InvCmd = 3
    Builds <- MCBuilds
    UsbSize = 4
    UsbQueue = 12
    FifoSize = 2
    Overlap = FALSE
    MaxFaults = 1
    EarlyBuilds <- MCEarlyBuilds
INVARIANTS DecodedAsSent ResponseIntact
PROPERTY EveryRequestAnswered
