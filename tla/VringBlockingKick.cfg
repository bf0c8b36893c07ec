SPECIFICATION FairSpec
CONSTANTS
    f1 = f1
    f2 = f2
    fd1 = fd1
    fd2 = fd2
    NumQueues = 1
    NumThreads = 1
    Masks <- OneMask
    Files = {f1, f2}
    RingFiles <- OneRingFiles
    NonBlocking = {}
    Fds = {fd1, fd2}
    ExitWorkers = {0}
    ReplaceKick = FALSE
    NoKick = NoKick
    ExitEvent = ExitEvent
PROPERTY ExitEndsWorker
