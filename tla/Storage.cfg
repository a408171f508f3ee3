SPECIFICATION Spec
CONSTANTS
    BootPages = 2
    LogStart = 3
    CheckedPage = 1
    PageMod = 2
    Alike = TRUE
    HooksOnSelf = TRUE
INVARIANT TypeOK
INVARIANT BootSectorValid
INVARIANT ErrorMeansFailure
INVARIANT QueueHolds
PROPERTY BootCheckEnds
CHECK_DEADLOCK FALSE
