SPECIFICATION ComponentsSpec
CONSTANTS
    t1 = t1
    t2 = t2
    s1 = s1
    w1 = w1
    w2 = w2
    f1 = f1
    f2 = f2
    fd1 = fd1
    fd2 = fd2
    Components = {"VringWorkers"}
    Conns = {1, 2}
    Stoppers = {s1}
    MaxInbox = 1
    Regions <- ThreeRegions
    VmmAddrs = {13, 20}
    MaxTable = 2
    \* More buffers than the index can count, for each of two drivers.
    IdxMod = 2
    MaxQueueSize = 1
    Sizes = {0, 1, 2}
    MaxBuffers = 3
    MaxDrivers = 2
    PageSize = 3
    WordSize = 2
    MaxAddr = 15
    NumRegions = 2
    StartAddr <- AlignedStart
    Length <- AlignedLength
    Writers = {w1, w2}
    MaxLogs = 2
    LogLens = {1, 2}
    Offsets = {1}
    Lens = {0, 2}
    NoBitmap = NoBitmap
    DeviceWorkers = {t1, t2}
    NumQueues = 2
    NumThreads = 2
    Masks <- SharedMasks
    Files = {f1, f2}
    RingFiles <- OneFileEach
    NonBlocking = {f1, f2}
    Fds = {fd1, fd2}
    ExitWorkers = {}
    ReplaceKick = FALSE
    NoKick = NoKick
    ExitEvent = ExitEvent
INVARIANTS RegistrationMatchesState KickReachesWorker ReadFindsKick
PROPERTY KickServed
