SPECIFICATION Spec
CONSTANTS
    Delivered = {TRUE, FALSE}
    AppQueueMax = 4
    Clients = 2
    MaxChanges = 5
INVARIANT TypeOK
INVARIANT InitBacklog
INVARIANT ModesAgree
PROPERTY StorageFollowsMode
