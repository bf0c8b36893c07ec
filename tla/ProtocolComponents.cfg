SPECIFICATION ComponentsSpec
CONSTANTS
    t1 = t1
    t2 = t2
    l1 = l1
    l2 = l2
    c1 = c1
    c2 = c2
    Threads = {t1, t2}
    DeviceFeatures = {"PROTOCOL_FEATURES"}
    FeatureChoices = {{}, {"PROTOCOL_FEATURES", "OTHER"}}
    ProtoChoices <- WithAcksOrNot
    MaxQueueNum = 1
    QueueNum = 3
    MaxVrings = 4
    FdBit = 2
    Indices = {1}
    ConfigFails = FALSE
    MaxPending = 2
    Pipelined = {"SET_FEATURES", "SET_PROTOCOL_FEATURES"}
    ChannelThreads = {t1, t2}
    ChannelPending = 2
    ReqFiles <- ThreeSockets
    Listeners = {l1, l2}
    Clients = {c1, c2}
    Retries = 2
    HdrLen = 2
    BodyLens = {0, 2}
    ReplyLen = 2
    MaxMsgs = 2
    Errnos = {"EINTR", "ECONNRESET", "EBADF"}
    \* Words around zero and around the overflow, lengths around the limit of a message.
    Word = 8192
    Samples = {0, 1, 8190, 8191}
    Lengths = {0, 1, 4084, 4085, 4095, 4096, 4097}
    HdrFlags = {{3}, {1, 2}, {1, 3, 31}}
    KernelWord = 64
    GuestRam <- TwoRegions
    Sizes = {0, 1, 2, 3, 4}
    Configs <- RingConfigs
    MaxSize = 2
    MaxRegions = 2
    MaxCalls = 2
    EventQueues = 5
    Mask = {1, 2, 4, 6}
    HasExit = TRUE
    EventMod = 8
    ListenerData = {3, 5, 6, 7}
INVARIANTS
    TypesOK RingEventReachesItsRing OnlyExitEventEndsLoop ListenerEventReachesBackend
    NothingElseRefused AcceptedAsSent DisconnectedAtBoundary
    OnlySoundServed SoundNotRefused IotlbLayoutAgreed RingsInsideMemory
PROPERTIES
    ImplementsRpc CallsReturn ChannelImplementsRpc ConnectReturns
CHECK_DEADLOCK FALSE
