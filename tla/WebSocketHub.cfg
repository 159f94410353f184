SPECIFICATION Spec
CONSTANTS
    c1 = c1
    c2 = c2
    incidents = incidents
    Clients = {c1, c2}
    Topics <- OneTopic
    Asks <- AskEach
    Leavers = {c1}
    SendChannelSize = 1
    BroadcastChanSize = 1
    MaxAsks <- AsksEach
    MaxEvents = 2
INVARIANT ClientView
PROPERTIES
    BroadcastFlows
    GoneIsReleased
CHECK_DEADLOCK FALSE
