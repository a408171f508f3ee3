SPECIFICATION Spec
CONSTANTS
    BootPages = 2
    LogStart = 3
    CheckedPage = 1
    PageMod = 3
    Alike = FALSE
    HooksOnSelf = TRUE
PROPERTY SearchEnds
CHECK_DEADLOCK FALSE
