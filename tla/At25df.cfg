SPECIFICATION Spec
CONSTANTS
    PageSize = 2
    PagesPerSector = 2
    NumSectors = 2
    Erased = Erased
    Junk = Junk
    BufferSize = 3
    Addresses = {0, 3, 6}
    MaxCalls = 2
INVARIANT CommandsTaken
PROPERTY ImplementsFlash
PROPERTY TransferEnds
CHECK_DEADLOCK FALSE
