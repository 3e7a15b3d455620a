SPECIFICATION Spec
CONSTANTS
    Clients = {a, b, c}
    ZeroAddress = zero
    Nobody = nobody
    SessionCount = 2
    Features <- MCFeatures
    Counts <- MCCounts
    Ports <- MCPorts
    PasswordLevels = {2}
    AgeMax = 6
    Drivers = {"lwip", "zephyr"}
    Blocking = TRUE
    Requests = {0, 3}
    MaxFrames = 5
    MaxLock = 2
INVARIANTS TablesAgree OnlyLockHolderServed AccessIsEarned EveryCommandAnswered FramesOfOneClient
SYMMETRY ClientSymmetry
PROPERTIES EntriesAreKept
