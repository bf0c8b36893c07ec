SPECIFICATION ComponentsSpec
CONSTANTS
    t1 = t1
    t2 = t2
    s1 = s1
    w1 = w1
    w2 = w2
    f1 = f1
    f2 = f2
    fd1 = fd1
    fd2 = fd2
    Components = {"VringWorkers", "Daemon", "GuestMemory", "DirtyLog", "VringQueue", "DeviceLock"}
    Conns = {1, 2}
    Stoppers = {s1}
    MaxInbox = 1
    Regions <- ThreeRegions
    VmmAddrs = {13, 20}
    MaxTable = 2
    \* More buffers than the index can count, for each of two drivers.
    IdxMod = 2
    MaxQueueSize = 1
    Sizes = {0, 1, 2}
    MaxBuffers = 3
    MaxDrivers = 2
    PageSize = 3
    WordSize = 2
    MaxAddr = 15
    NumRegions = 2
    StartAddr <- AlignedStart
    Length <- AlignedLength
    Writers = {w1, w2}
    MaxLogs = 2
    LogLens = {1, 2}
    Offsets = {1}
    Lens = {0, 2}
    NoBitmap = NoBitmap
    DeviceWorkers = {t1, t2}
    NumQueues = 1
    NumThreads = 1
    Masks <- OneMask
    Files = {f1, f2}
    RingFiles <- OneRingFiles
    NonBlocking = {f1}
    Fds = {fd1, fd2}
    ExitWorkers = {0}
    ReplaceKick = FALSE
    NoKick = NoKick
    ExitEvent = ExitEvent
INVARIANTS
    TypesOK ShutdownIsSuccess EndedMeansShut MappingsMatchMemory AddressesAsMeant
    PostcopyCoversMemory RingResumes HalfwayDeviceIsLeft
    NobodyWaitsInCircle ReadFindsKick
    LogTypeOK WritesAreLogged OnlyWritesAreLogged AccessInsideLog OneLogForAll OldLogIsQuiet
PROPERTIES
    DropCompletes ServeSignalsWorkers WaitReturns
CHECK_DEADLOCK FALSE
