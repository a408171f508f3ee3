SPECIFICATION Spec
CONSTANTS
    PageSize = 1
    PagesPerSector = 2
    NumSectors = 1
    Erased = Erased
    Junk = Junk
    NumClients = 2
    TokenMax = 3
    WordMax = 7
    Ew = Ew
    Null = Null
    Buf = Buf
    MaxRequests = 2
    CloseInFlight = FALSE
    EarlyRequests = TRUE
INVARIANT TypeOK
INVARIANT BufferAccounted
INVARIANT ReportsMatch
INVARIANT DamageConfined
PROPERTY EveryRequestReported
