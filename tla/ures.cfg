SPECIFICATION Spec
CONSTANTS
    MaxSize = 4
    EntrySize = 4
    PointerSize = 4
    AddrSpace = 64
    CommSize = 8
    ScopeCount = 1
    MaxScopeVars = 2
    BaseAddress = 3
    StaticTables <- MCLaterResource
    RecBuffer <- MCRecBuffer
    StringLen <- MCStringLen
    Requests <- MCRequests
    Handlings <- MCHandlings
    Variables <- MCVariables
    Initial <- MCInitial
    Buffer <- MCBuffer
    NewEntries <- MCNewEntries
INVARIANT ResourceIsFound
