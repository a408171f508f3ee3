SPECIFICATION Spec
CONSTANTS
    Delivered = {TRUE}
    AppQueueMax = 4
    Clients = 2
    MaxChanges = 2
PROPERTY ModeFollowsCable
