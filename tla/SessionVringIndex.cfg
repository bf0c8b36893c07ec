SPECIFICATION Spec
CONSTANTS
    t1 = t1
    t2 = t2
    Threads = {t1, t2}
    DeviceFeatures <- MCDeviceFeatures
    FeatureChoices <- MCFeatureChoices
    ProtoChoices <- MCProtoChoices
    MaxQueueNum = 1
    QueueNum = 5
    MaxVrings = 8
    FdBit = 2
    Indices = {0, 2, 4}
    ConfigFails = FALSE
    MaxPending = 1
    Pipelined = {}
INVARIANT FdReachesItsRing
CHECK_DEADLOCK FALSE
