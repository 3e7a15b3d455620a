SPECIFICATION Spec
CONSTANTS
    Size8 = 256
    PrintfSize = 8
    Slots = {0, 1}
    Ports = {1, 2}
    PrintPorts = {1}
    RxSize = 1
    TxSize = 3
    MaxSend = 2
    OneCalls <- MCOneCalls
    ListCalls <- MCListCalls
    Strings <- MCStrings
    MaxData = 1
    MaxCalls = 4
    MaxFrames = 3
INVARIANTS OnePipePerPort BuffersAreOwn AckIsOfThisOpening
PROPERTY TextPrinted
CHECK_DEADLOCK FALSE
