SPECIFICATION Spec
CONSTANTS
    PageSize = 1
    PagesPerSector = 2
    NumSectors = 2
    Erased = Erased
    Junk = Junk
    NumClients = 1
    TokenMax = 2
    WordMax = 7
    Ew = Ew
    Null = Null
    Buf = Buf
    MaxRequests = 2
    CloseInFlight = TRUE
    EarlyRequests = FALSE
INVARIANT CompleteMeansDone
