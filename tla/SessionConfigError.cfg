SPECIFICATION FairSpec
CONSTANTS
    t1 = t1
    t2 = t2
    Threads = {t1, t2}
    DeviceFeatures <- MCDeviceFeatures
    FeatureChoices <- MCFeatureChoices
    ProtoChoices <- MCProtoChoices
    MaxQueueNum = 1
    QueueNum = 2
    MaxVrings = 4
    FdBit = 2
    Indices = {0, 1}
    ConfigFails = TRUE
    MaxPending = 1
    Pipelined = {}
PROPERTY EveryCallReturns
CHECK_DEADLOCK FALSE
