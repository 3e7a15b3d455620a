SPECIFICATION FairSpec
CONSTANTS
    Size8 = 256
    RxSize = 2
    TxSize = 2
    MaxSend = 2
    MaxData = 2
    EagerHost = TRUE
    Lens = {1, 2}
    Granularities = {0, 2}
    CallbackLens = {0, 1}
    MaxUp = 3
    MaxDown = 3
    MaxInFlight = 2
INVARIANTS DeliveredInOrder NoByteDropped
PROPERTIES ImplementsStreams EventuallyDelivered
