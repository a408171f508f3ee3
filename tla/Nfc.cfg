SPECIFICATION Spec
CONSTANTS
    RetriesMax = 6
    QueueMax = 3
    I2CQueueMax = 2
    ByteMod = 16
    MaxPulses = 3
    HooksOnSelf = FALSE
INVARIANT TypeOK
INVARIANT MailboxReady
INVARIANT OneTransfer
INVARIANT GivesUpLate
PROPERTY TransfersAnswered
CHECK_DEADLOCK FALSE
