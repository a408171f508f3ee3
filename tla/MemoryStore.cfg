SPECIFICATION Spec
CONSTANTS
    PageSize = 2
    PagesPerSector = 3
    NumSectors = 2
    Erased = Erased
    Junk = Junk
    NumClients = 1
    TokenMax = 2
    WordMax = 15
    Ew = Ew
    Null = Null
    Buf = Buf
    MaxRequests = 2
    CloseInFlight = FALSE
    EarlyRequests = FALSE
PROPERTY ImplementsStore
INVARIANT DamageConfined
