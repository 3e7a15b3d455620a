SPECIFICATION AppCmdFairSpec
CONSTANTS
    Codes = {a, b}
    NoCmd = nocmd
    AppCmdBuffSize = 2
    CommSize = 1
    MaxCalls = 1
    Lens = {0, 1, 3}
    MaxCommands = 3
    MaxLost = 2
INVARIANTS RunsOnce ArgumentsKept ResponseDataKept
PROPERTIES EventuallyAnswered
