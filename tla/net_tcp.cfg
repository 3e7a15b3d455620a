SPECIFICATION FairSpecForTLC
CONSTANTS
    Clients = {a, b, c}
    ZeroAddress = zero
    Seeker = seeker
    Builds <- MCBuilds
    MaxSought = 1
    SessionCount = 2
    Lockable <- MCFeatures
    Counts <- MCCounts
    Ports <- MCPorts
    PasswordLevels = {}
    AgeMax = 3
    Silent = FALSE
    MaxSent <- MCMaxSent
INVARIANTS SocketForEveryEntry OwnersAreConnected
PROPERTIES ServedUntilClosed EveryClientAnswered ClosedIsReleased
