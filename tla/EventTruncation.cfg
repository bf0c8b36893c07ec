SPECIFICATION Spec
CONSTANTS
    NumQueues = 5
    Mask = {1, 2, 4, 6}
    HasExit = TRUE
    EventMod = 8
    ListenerData = {6, 9}
INVARIANT ListenerEventReachesBackend
